------------------------- MODULE SmartOrdersProofs -------------------------
(***************************************************************************)
(* Proofs about SmartOrders, for any set of orders, checkers and requests: *)
(* types and passes, how often an order is executed, cancels, the orders   *)
(* rows it names and those its executions have, and, for one checker, the  *)
(* peaks, and that it implements OneShot and what OneShot amounts to.      *)
(***************************************************************************)
EXTENDS SmartOrders, SequenceTheorems, FiniteSetTheorems, TLAPS

(***************************************************************************)
(* The new peak is the old one or the price just seen, so it is a number.  *)
(***************************************************************************)
LEMMA NewPeakType ==
    ASSUME NEW r, NEW pk \in Nat, NEW price \in Nat
    PROVE  NewPeak(r, pk, price) \in Nat
BY DEF NewPeak

(***************************************************************************)
(* The typing invariant is inductive only together with PassOK: a price is *)
(* looked up by the symbol of a created order, and an orders row is named  *)
(* after the smart order a checker executes.                               *)
(***************************************************************************)
IInv == TypeOK /\ PassOK

(***************************************************************************)
(* Inserting an orders row, and updating the status of one.                *)
(***************************************************************************)
LEMMA RowInsert ==
    ASSUME NEW t \in Seq(OrderRow), NEW r \in OrderRow
    PROVE  /\ Append(t, r) \in Seq(OrderRow)
           /\ Len(t) \in Nat /\ Len(Append(t, r)) = Len(t) + 1
           /\ Append(t, r)[Len(t) + 1] = r
           /\ \A i \in DOMAIN t : Append(t, r)[i] = t[i]
           /\ DOMAIN t = 1..Len(t) /\ DOMAIN Append(t, r) = 1..(Len(t) + 1)
OBVIOUS

WithStatus(t, i, s) == [t EXCEPT ![i] = [t[i] EXCEPT !.status = s]]

LEMMA RowUpdate ==
    ASSUME NEW t \in Seq(OrderRow), NEW i \in DOMAIN t,
           NEW s \in {"new", "filled", "rejected"}
    PROVE  /\ WithStatus(t, i, s) \in Seq(OrderRow)
           /\ Len(WithStatus(t, i, s)) = Len(t)
           /\ DOMAIN WithStatus(t, i, s) = DOMAIN t
           /\ \A j \in DOMAIN t : j # i => WithStatus(t, i, s)[j] = t[j]
<1> DEFINE e == [t[i] EXCEPT !.status = s]
<1>1. t[i] \in OrderRow /\ i \in 1..Len(t)
  BY LenProperties, ElementOfSeq
<1>2. e \in OrderRow
  BY <1>1 DEF OrderRow
<1>3. WithStatus(t, i, s) = [t EXCEPT ![i] = e]
  BY DEF WithStatus
<1> HIDE DEF e
<1>4. WithStatus(t, i, s) \in Seq(OrderRow) /\ Len(WithStatus(t, i, s)) = Len(t)
      /\ \A j \in 1..Len(t) : WithStatus(t, i, s)[j] = IF j = i THEN e ELSE t[j]
  BY <1>1, <1>2, <1>3, ExceptSeq
<1>5. QED
  BY <1>1, <1>4, LenProperties

LEMMA RowUpdated ==
    ASSUME NEW t \in Seq(OrderRow), NEW i \in DOMAIN t, NEW s
    PROVE  WithStatus(t, i, s)[i] = [smart |-> t[i].smart, status |-> s]
<1>1. t[i] \in OrderRow
  BY LenProperties, ElementOfSeq
<1>2. WithStatus(t, i, s)[i] = [t[i] EXCEPT !.status = s]
  BY LenProperties DEF WithStatus
<1>3. QED
  BY <1>1, <1>2 DEF OrderRow

LEMMA EmptyType ==
    NoPeaks \in [Ids -> Nat] /\ NoPrices \in [Symbols -> Prices \cup {0}]
BY DEF NoPeaks, NoPrices

LEMMA InitInv == Init => IInv
<1> SUFFICES ASSUME Init PROVE IInv
  OBVIOUS
<1>1. orders \in Seq(OrderRow) /\ Len(orders) = 0
  BY DEF Init
<1>2. TypeOK
  <2>1. executed \in [Ids \X Checkers -> Nat]
    BY DEF Init
  <2>2. status \in [Ids -> Statuses \cup {"none"}] /\ pc \in [Checkers -> Steps]
    BY DEF Init, Statuses, Steps
  <2>3. 0 \in 0..MaxFaults /\ 0 \in 0..MaxMoves /\ 0 \in 0..Len(orders)
    BY <1>1, BoundsAssumption
  <2>4. QED
    BY <1>1, <2>1, <2>2, <2>3, EmptyType DEF Init, TypeOK
<1>3. PassOK
  BY DEF Init, PassOK, Executing, HoldsRow
<1>4. QED
  BY <1>2, <1>3 DEF IInv

LEMMA WriteType ==
    ASSUME TypeOK, NEW ok \in BOOLEAN, Write(ok)
    PROVE  faults' \in 0..MaxFaults
BY BoundsAssumption DEF TypeOK, Write

LEMMA StepType == IInv /\ [Next]_vars => TypeOK'
<1> SUFFICES ASSUME IInv, [Next]_vars PROVE TypeOK'
  OBVIOUS
<1> USE IdsAssumption, PricesAssumption, BoundsAssumption
<1>1. ASSUME NEW o \in Ids, NEW r \in Requests, Create(o, r)
        PROVE  TypeOK'
    BY <1>1 DEF Create, env, local, IInv, TypeOK, PassOK, Statuses, Steps, Executing, HoldsRow
<1>2. ASSUME NEW o \in Ids, Cancel(o)
        PROVE  TypeOK'
    BY <1>2 DEF Cancel, env, local, IInv, TypeOK, PassOK, Statuses, Steps, Executing, HoldsRow
<1>3. ASSUME NEW s \in Symbols, NEW p \in Prices \cup {0}, PriceMove(s, p)
        PROVE  TypeOK'
    BY <1>3 DEF PriceMove, table, local, IInv, TypeOK, PassOK, Statuses, Steps, Executing, HoldsRow
<1>4. ASSUME NEW c \in Checkers, ListActive(c)
        PROVE  TypeOK'
    BY <1>4 DEF ListActive, table, env, IInv, TypeOK, PassOK, Statuses, Steps, Executing, HoldsRow
<1>5. ASSUME NEW c \in Checkers, GetLivePrices(c)
        PROVE  TypeOK'
    BY <1>5 DEF GetLivePrices, table, env, IInv, TypeOK, PassOK, Statuses, Steps, Executing, HoldsRow
<1>6. ASSUME NEW c \in Checkers, Leave(c)
        PROVE  TypeOK'
    BY <1>6, EmptyType DEF Leave, table, env, IInv, TypeOK, PassOK, Statuses, Steps, Executing, HoldsRow
<1>7. ASSUME NEW c \in Checkers, Skip(c)
        PROVE  TypeOK'
    BY <1>7 DEF Skip, Heads, table, env, IInv, TypeOK, PassOK, Statuses, Steps, Executing, HoldsRow
<1>8. ASSUME NEW c \in Checkers, NEW ok \in BOOLEAN, Examine(c, ok)
        PROVE  TypeOK'
    <2>1. PICK o \in Heads(c) : Examine(c, ok)!2!(o)
      BY <1>8 DEF Examine
    <2>2. o \in Ids /\ req[o] \in RequestType
      BY <2>1, RequestsAssumption DEF Heads, IInv, TypeOK, PassOK, Statuses, Steps, Executing, HoldsRow
    <2>3. seen[c][req[o].symbol] \in Nat
      BY <2>2 DEF RequestType, IInv, TypeOK, PassOK, Statuses, Steps, Executing, HoldsRow
    <2>4. NewPeak(req[o], snap[c][o], seen[c][req[o].symbol]) \in Nat
      BY <2>2, <2>3, NewPeakType DEF IInv, TypeOK, PassOK, Statuses, Steps, Executing, HoldsRow
    <2>5. peak' \in [Ids -> Nat]
      BY <2>1, <2>2, <2>4 DEF IInv, TypeOK
    <2>6. faults' \in 0..MaxFaults
      BY <2>1, WriteType DEF IInv, TypeOK
    <2>7. /\ todo' \in [Checkers -> SUBSET Ids] /\ pc' \in [Checkers -> Steps]
          /\ cur' \in [Checkers -> Ids \cup {0}]
      BY <2>1, <2>2 DEF IInv, TypeOK, Steps
    <2>8. QED
      BY <1>8, <2>5, <2>6, <2>7 DEF Examine, env, IInv, TypeOK
<1>9. ASSUME NEW c \in Checkers, Credentials(c)
        PROVE  TypeOK'
    BY <1>9 DEF Credentials, table, env, IInv, TypeOK, PassOK, Statuses, Steps, Executing, HoldsRow
<1>10. ASSUME NEW c \in Checkers, NEW ok \in BOOLEAN, CreateOrder(c, ok)
        PROVE  TypeOK'
    <2>1. CASE ok
      <3> DEFINE r == [smart |-> cur[c], status |-> "new"]
      <3>1. r \in OrderRow /\ orders' = Append(orders, r)
        BY <1>10, <2>1 DEF CreateOrder, OrderRow, IInv, PassOK, Executing
      <3>2. orders' \in Seq(OrderRow) /\ Len(orders) \in Nat /\ Len(orders') = Len(orders) + 1
        BY <3>1, RowInsert DEF IInv, TypeOK
      <3>3. 0..Len(orders) \subseteq 0..Len(orders') /\ Len(orders) + 1 \in 0..Len(orders')
        BY <3>2
      <3>4. row' \in [Checkers -> 0..Len(orders')]
        <4> DEFINE L == Len(orders)
                   M == Len(orders')
        <4>1. row \in [Checkers -> 0..L] /\ row' = [row EXCEPT ![c] = L + 1]
          BY <1>10, <2>1 DEF CreateOrder, IInv, TypeOK
        <4>2. 0..L \subseteq 0..M /\ L + 1 \in 0..M
          BY <3>3
        <4> HIDE DEF L, M
        <4>3. row' \in [Checkers -> 0..M]
          BY <4>1, <4>2
        <4>4. QED
          BY <4>3 DEF M
      <3>6. trigBy' \in [Ids -> 0..Len(orders')]
        BY <1>10, <3>3 DEF CreateOrder, table, IInv, TypeOK
      <3>5. QED
        BY <1>10, <2>1, <3>2, <3>4, <3>6 DEF CreateOrder, Write, table, env, IInv, TypeOK, Steps
    <2>2. CASE ~ok
      BY <1>10, <2>2, WriteType DEF CreateOrder, table, env, IInv, TypeOK, Steps
    <2>3. QED
      BY <2>1, <2>2
<1>11. ASSUME NEW c \in Checkers, NEW accepted \in BOOLEAN, NEW ok \in BOOLEAN, PlaceOrder(c, accepted, ok)
        PROVE  TypeOK'
    <2>1. executed' \in [Ids \X Checkers -> Nat]
      <3>1. cur[c] \in Ids
        BY <1>11 DEF PlaceOrder, IInv, TypeOK, PassOK, Statuses, Steps, Executing, HoldsRow
      <3>2. QED
        BY <1>11, <3>1 DEF PlaceOrder, IInv, TypeOK
    <2>2. QED
      BY <1>11, <2>1 DEF PlaceOrder, table, env, IInv, TypeOK, Steps
<1>12. ASSUME NEW c \in Checkers, NEW ok \in BOOLEAN, UpdateStatus(c, ok)
        PROVE  TypeOK'
    <2>1. orders' \in Seq(OrderRow) /\ Len(orders') = Len(orders)
      <3>1. row[c] \in DOMAIN orders /\ orders \in Seq(OrderRow)
        BY <1>12 DEF UpdateStatus, IInv, TypeOK, PassOK, HoldsRow
      <3>2. PICK s \in {"new", "filled"} :
                orders' = IF ok THEN [orders EXCEPT ![row[c]].status = s] ELSE orders
        BY <1>12 DEF UpdateStatus
      <3>3. CASE ok
        <4>1. orders' = WithStatus(orders, row[c], s)
          BY <3>2, <3>3 DEF WithStatus
        <4>2. QED
          BY <3>1, <4>1, RowUpdate
      <3>4. CASE ~ok
        BY <3>1, <3>2, <3>4
      <3>5. QED
        BY <3>3, <3>4
    <2>2. QED
      BY <1>12, <2>1 DEF UpdateStatus, Write, table, env, IInv, TypeOK, Steps
<1>13. ASSUME NEW c \in Checkers, NEW ok \in BOOLEAN, MarkTriggered(c, ok)
        PROVE  TypeOK'
    BY <1>13 DEF MarkTriggered, Return, Write, env, IInv, TypeOK, PassOK, Statuses, Steps, Executing, HoldsRow
<1>14. ASSUME NEW c \in Checkers, NEW ok \in BOOLEAN, RejectOrder(c, ok)
        PROVE  TypeOK'
    <2>1. orders' \in Seq(OrderRow) /\ Len(orders') = Len(orders)
      <3>1. row[c] \in DOMAIN orders /\ orders \in Seq(OrderRow)
        BY <1>14 DEF RejectOrder, IInv, TypeOK, PassOK, HoldsRow
      <3>2. orders' = WithStatus(orders, row[c], "rejected") \/ orders' = orders
        BY <1>14 DEF RejectOrder, WithStatus
      <3>3. QED
        BY <3>1, <3>2, RowUpdate
    <2>2. QED
      BY <1>14, <2>1 DEF RejectOrder, Write, table, env, IInv, TypeOK, Steps
<1>15. ASSUME NEW c \in Checkers, NEW ok \in BOOLEAN, MarkFailed(c, ok)
        PROVE  TypeOK'
    BY <1>15 DEF MarkFailed, Return, Write, env, IInv, TypeOK, PassOK, Statuses, Steps, Executing, HoldsRow
<1>16. CASE Shutdown
    BY <1>16 DEF Shutdown, table, env, local, IInv, TypeOK, PassOK, Statuses, Steps, Executing, HoldsRow
<1>17. CASE Restart
    <2>1. /\ pc' \in [Checkers -> Steps] /\ cur' \in [Checkers -> Ids \cup {0}]
          /\ todo' \in [Checkers -> SUBSET Ids]
          /\ row' \in [Checkers -> 0..Len(orders)]
      BY <1>17, LenProperties DEF Restart, IInv, TypeOK, PassOK, Statuses, Steps, Executing, HoldsRow
    <2>2. snap' \in [Checkers -> [Ids -> Nat]]
          /\ seen' \in [Checkers -> [Symbols -> Prices \cup {0}]]
      BY <1>17, EmptyType DEF Restart
    <2>3. faults' \in 0..MaxFaults /\ stopping' \in BOOLEAN
      <3>1. CASE stopping
        BY <1>17, <3>1 DEF Restart, IInv, TypeOK
      <3>2. CASE ~stopping
        <4>1. faults < MaxFaults /\ faults' = faults + 1 /\ stopping' = FALSE
          BY <1>17, <3>2 DEF Restart
        <4>2. faults \in 0..MaxFaults
          BY DEF IInv, TypeOK
        <4>3. faults' \in 0..MaxFaults
          BY <4>1, <4>2
        <4>4. stopping' \in BOOLEAN
          BY <4>1, Zenon
        <4>5. QED
          BY <4>3, <4>4
      <3>3. QED
        BY <3>1, <3>2
    <2>4. QED
      BY <1>17, <2>1, <2>2, <2>3 DEF Restart, table, env, IInv, TypeOK, PassOK, Statuses, Steps, Executing, HoldsRow
<1>18. CASE UNCHANGED vars
    BY <1>18 DEF vars, table, env, local, IInv, TypeOK, PassOK, Statuses, Steps, Executing, HoldsRow
<1>19. QED
    BY <1>1, <1>2, <1>3, <1>4, <1>5, <1>6, <1>7, <1>8, <1>9, <1>10, <1>11, <1>12, <1>13, <1>14, <1>15, <1>16, <1>17, <1>18 DEF Next, Step
LEMMA RowPositive ==
    ASSUME IInv
    PROVE  \A d \in Checkers : pc[d] \in HoldsRow => row[d] \in DOMAIN orders /\ row[d] # 0
BY LenProperties DEF IInv, TypeOK, PassOK

LEMMA StepPass == IInv /\ [Next]_vars => PassOK'
<1> SUFFICES ASSUME IInv, [Next]_vars PROVE PassOK'
  OBVIOUS
<1> USE IdsAssumption
<1>1. ASSUME NEW o \in Ids, NEW r \in Requests, Create(o, r)
        PROVE  PassOK'
    BY <1>1 DEF Create, env, local, IInv, TypeOK, PassOK, Statuses, Steps, Executing, HoldsRow
<1>2. ASSUME NEW o \in Ids, Cancel(o)
        PROVE  PassOK'
    BY <1>2 DEF Cancel, env, local, IInv, TypeOK, PassOK, Statuses, Steps, Executing, HoldsRow
<1>3. ASSUME NEW s \in Symbols, NEW p \in Prices \cup {0}, PriceMove(s, p)
        PROVE  PassOK'
    BY <1>3 DEF PriceMove, table, local, IInv, TypeOK, PassOK, Statuses, Steps, Executing, HoldsRow
<1>4. ASSUME NEW c \in Checkers, ListActive(c)
        PROVE  PassOK'
    BY <1>4 DEF ListActive, table, env, IInv, TypeOK, PassOK, Statuses, Steps, Executing, HoldsRow
<1>5. ASSUME NEW c \in Checkers, GetLivePrices(c)
        PROVE  PassOK'
    BY <1>5 DEF GetLivePrices, table, env, IInv, TypeOK, PassOK, Statuses, Steps, Executing, HoldsRow
<1>6. ASSUME NEW c \in Checkers, Leave(c)
        PROVE  PassOK'
    BY <1>6 DEF Leave, table, env, IInv, TypeOK, PassOK, Statuses, Steps, Executing, HoldsRow
<1>7. ASSUME NEW c \in Checkers, Skip(c)
        PROVE  PassOK'
    BY <1>7 DEF Skip, Heads, table, env, IInv, TypeOK, PassOK, Statuses, Steps, Executing, HoldsRow
<1>8. ASSUME NEW c \in Checkers, NEW ok \in BOOLEAN, Examine(c, ok)
        PROVE  PassOK'
    BY <1>8 DEF Examine, Heads, Write, env, IInv, TypeOK, PassOK, Statuses, Steps, Executing, HoldsRow
<1>9. ASSUME NEW c \in Checkers, Credentials(c)
        PROVE  PassOK'
    BY <1>9 DEF Credentials, table, env, IInv, TypeOK, PassOK, Statuses, Steps, Executing, HoldsRow
<1>10. ASSUME NEW c \in Checkers, NEW ok \in BOOLEAN, CreateOrder(c, ok)
        PROVE  PassOK'
    <2>1. CASE ok
      <3> DEFINE r == [smart |-> cur[c], status |-> "new"]
      <3>1. r \in OrderRow /\ orders' = Append(orders, r) /\ orders \in Seq(OrderRow)
        BY <1>10, <2>1 DEF CreateOrder, OrderRow, IInv, TypeOK, PassOK, Executing
      <3>2. /\ Len(orders) + 1 \in DOMAIN orders' /\ DOMAIN orders \subseteq DOMAIN orders'
            /\ orders'[Len(orders) + 1] = r /\ Len(orders) + 1 # 0
            /\ \A i \in DOMAIN orders : orders'[i] = orders[i]
        BY <3>1, RowInsert
      <3>3. \A d \in Checkers : row[d] # Len(orders) + 1
        BY <3>1, LenProperties DEF IInv, TypeOK
      <3>4. row' = [row EXCEPT ![c] = Len(orders) + 1] /\ pc' = [pc EXCEPT ![c] = "place"]
            /\ cur[c] \in Ids /\ cur' = cur
        BY <1>10, <2>1 DEF CreateOrder, IInv, TypeOK, PassOK, Statuses, Steps, Executing, HoldsRow
      <3>5. \A d \in Checkers : pc'[d] \in HoldsRow =>
                /\ row'[d] \in DOMAIN orders'
                /\ orders'[row'[d]] \in [smart : {cur'[d]}, status : {"new", "filled"}]
                /\ \A e \in Checkers \ {d} : row'[e] # row'[d]
        <4> SUFFICES ASSUME NEW d \in Checkers, pc'[d] \in HoldsRow
                     PROVE  /\ row'[d] \in DOMAIN orders'
                            /\ orders'[row'[d]] \in [smart : {cur'[d]}, status : {"new", "filled"}]
                            /\ \A e \in Checkers \ {d} : row'[e] # row'[d]
          OBVIOUS
        <4>1. CASE d = c
          BY <3>2, <3>3, <3>4, <4>1 DEF IInv, TypeOK
        <4>2. CASE d # c
          BY <3>2, <3>3, <3>4, <4>2 DEF IInv, TypeOK, PassOK
        <4>3. QED
          BY <4>1, <4>2
      <3>6. QED
        BY <1>10, <3>4, <3>5 DEF CreateOrder, table, env, IInv, TypeOK, PassOK, Executing
    <2>2. CASE ~ok
      BY <1>10, <2>2 DEF CreateOrder, table, env, IInv, TypeOK, PassOK, Statuses, Steps, Executing, HoldsRow
    <2>3. QED
      BY <2>1, <2>2
<1>11. ASSUME NEW c \in Checkers, NEW accepted \in BOOLEAN, NEW ok \in BOOLEAN, PlaceOrder(c, accepted, ok)
        PROVE  PassOK'
    BY <1>11 DEF PlaceOrder, table, env, IInv, TypeOK, PassOK, Statuses, Steps, Executing, HoldsRow
<1>12. ASSUME NEW c \in Checkers, NEW ok \in BOOLEAN, UpdateStatus(c, ok)
        PROVE  PassOK'
    <2>1. PICK s \in {"new", "filled", "rejected"} :
              /\ s # "rejected"
              /\ orders' = WithStatus(orders, row[c], s) \/ orders' = orders
      BY <1>12 DEF UpdateStatus, WithStatus
    <2>2. row[c] \in DOMAIN orders /\ orders \in Seq(OrderRow) /\ orders[row[c]].smart = cur[c]
      BY <1>12 DEF UpdateStatus, IInv, TypeOK, PassOK, HoldsRow
    <2>3. /\ DOMAIN orders' = DOMAIN orders
          /\ \A j \in DOMAIN orders : j # row[c] => orders'[j] = orders[j]
          /\ orders'[row[c]] \in [smart : {cur[c]}, status : {"new", "filled"}]
      <3>1. CASE orders' = WithStatus(orders, row[c], s)
        <4> DEFINE u == WithStatus(orders, row[c], s)
        <4>1. /\ DOMAIN u = DOMAIN orders
              /\ u[row[c]] = [smart |-> cur[c], status |-> s]
              /\ \A j \in DOMAIN orders : j # row[c] => u[j] = orders[j]
          <5>1. u[row[c]] = [smart |-> orders[row[c]].smart, status |-> s]
            BY <2>2, RowUpdated
          <5>2. /\ DOMAIN u = DOMAIN orders
                /\ \A j \in DOMAIN orders : j # row[c] => u[j] = orders[j]
            BY <2>2, RowUpdate
          <5>3. QED
            BY <2>2, <5>1, <5>2
        <4> HIDE DEF u
        <4>2. QED
          BY <2>1, <3>1, <4>1 DEF u
      <3>2. CASE orders' = orders
        BY <1>12, <3>2 DEF UpdateStatus, IInv, PassOK, HoldsRow
      <3>3. QED
        BY <2>1, <3>1, <3>2
    <2>4. row' = row /\ cur' = cur /\ pc' = [pc EXCEPT ![c] = "mark"] /\ pc[c] = "record"
      BY <1>12 DEF UpdateStatus
    <2>5. ASSUME NEW d \in Checkers, pc'[d] \in HoldsRow
          PROVE  /\ row'[d] \in DOMAIN orders'
                 /\ orders'[row'[d]] \in [smart : {cur'[d]}, status : {"new", "filled"}]
                 /\ \A e \in Checkers \ {d} : row'[e] # row'[d]
      <3>1. pc[d] \in HoldsRow
        BY <2>4, <2>5 DEF IInv, TypeOK, HoldsRow
      <3>2. CASE d = c
        BY <2>3, <2>4, <3>1, <3>2 DEF IInv, PassOK
      <3>3. CASE d # c
        BY <1>12, <2>3, <2>4, <3>1, <3>3 DEF IInv, PassOK, HoldsRow
      <3>4. QED
        BY <3>2, <3>3
    <2>6. /\ \A o \in Ids : status'[o] # "none" => req'[o] \in Requests
          /\ \A d \in Checkers : \A o \in todo'[d] : status'[o] # "none"
      BY <1>12 DEF UpdateStatus, table, IInv, PassOK
    <2>7. \A d \in Checkers : pc'[d] \in Executing => cur'[d] \in Ids /\ status'[cur'[d]] # "none"
      BY <1>12, <2>4 DEF UpdateStatus, table, IInv, TypeOK, PassOK, Executing
    <2>8. QED
      BY <2>5, <2>6, <2>7 DEF PassOK
<1>13. ASSUME NEW c \in Checkers, NEW ok \in BOOLEAN, MarkTriggered(c, ok)
        PROVE  PassOK'
    <2>1. \A d \in Checkers : pc[d] \in HoldsRow => row[d] # 0
      BY RowPositive
    <2>2. QED
      BY <1>13, <2>1 DEF MarkTriggered, Return, env, IInv, TypeOK, PassOK, Statuses, Steps, Executing, HoldsRow
<1>14. ASSUME NEW c \in Checkers, NEW ok \in BOOLEAN, RejectOrder(c, ok)
        PROVE  PassOK'
    BY <1>14 DEF RejectOrder, Write, table, env, IInv, TypeOK, PassOK, Statuses, Steps, Executing, HoldsRow
<1>15. ASSUME NEW c \in Checkers, NEW ok \in BOOLEAN, MarkFailed(c, ok)
        PROVE  PassOK'
    <2>1. \A d \in Checkers : pc[d] \in HoldsRow => row[d] # 0
      BY RowPositive
    <2>2. QED
      BY <1>15, <2>1 DEF MarkFailed, Return, env, IInv, TypeOK, PassOK, Statuses, Steps, Executing, HoldsRow
<1>16. CASE Shutdown
    BY <1>16 DEF Shutdown, table, env, local, IInv, TypeOK, PassOK, Statuses, Steps, Executing, HoldsRow
<1>17. CASE Restart
    BY <1>17 DEF Restart, table, env, IInv, TypeOK, PassOK, Statuses, Steps, Executing, HoldsRow
<1>18. CASE UNCHANGED vars
    BY <1>18 DEF vars, table, env, local, IInv, TypeOK, PassOK, Statuses, Steps, Executing, HoldsRow
<1>19. QED
    BY <1>1, <1>2, <1>3, <1>4, <1>5, <1>6, <1>7, <1>8, <1>9, <1>10, <1>11, <1>12, <1>13, <1>14, <1>15, <1>16, <1>17, <1>18 DEF Next, Step
LEMMA InductiveInv == Spec => []IInv
<1>1. IInv /\ [Next]_vars => IInv'
  BY StepType, StepPass DEF IInv
<1>2. QED
  BY InitInv, <1>1, PTL DEF Spec

(***************************************************************************)
(* The tables, the exchange and every checker's local state have the types *)
(* of their columns and variables, and no order id they hold dangles.      *)
(***************************************************************************)
THEOREM TypeCorrect == Spec => []TypeOK
<1>1. IInv => TypeOK
  BY DEF IInv
<1>2. QED
  BY InductiveInv, <1>1, PTL

(***************************************************************************)
(* A pass examines and executes only orders that exist, and each orders    *)
(* row about to be written belongs to one checker and to its smart order:  *)
(* two checkers never share a row, whatever the interleaving.              *)
(***************************************************************************)
THEOREM PassCorrect == Spec => []PassOK
<1>1. IInv => PassOK
  BY DEF IInv
<1>2. QED
  BY InductiveInv, <1>1, PTL

-----------------------------------------------------------------------------
(***************************************************************************)
(* How often a checker places an order.  A checker that still has an order *)
(* in front of it, and an order that is still open, have not cost an       *)
(* execution since the last failure; failures announced by SIGTERM count   *)
(* once the process has ended.                                             *)
(***************************************************************************)
Spent == IF stopping THEN faults - 1 ELSE faults

Before(c, o) == o \in todo[c] \/ (cur[c] = o /\ pc[c] \in {"creds", "create", "place"})
After(c, o)  == cur[c] = o /\ pc[c] \in {"record", "mark", "reject", "fail"}

OnceInv ==
    /\ stopping => faults > 0
    /\ \A c \in Checkers : /\ cur[c] \notin todo[c]
                           /\ pc[c] \notin Executing => cur[c] = 0
    /\ \A o \in Ids, c \in Checkers :
        /\ executed[<<o, c>>] <= Spent + 1
        /\ Before(c, o) => executed[<<o, c>>] <= Spent
        /\ status[o] \in {"none", "active"} /\ ~After(c, o) => executed[<<o, c>>] <= Spent

LEMMA InitOnce == Init => OnceInv
BY DEF Init, OnceInv, Spent, Before, After, Executing

LEMMA StepOnce == IInv /\ OnceInv /\ [Next]_vars => OnceInv'
<1> SUFFICES ASSUME IInv, OnceInv, [Next]_vars PROVE OnceInv'
  OBVIOUS
<1> USE IdsAssumption, BoundsAssumption
<1>1. ASSUME NEW o \in Ids, NEW r \in Requests, Create(o, r)
        PROVE  OnceInv'
    BY <1>1 DEF Create, env, local, IInv, TypeOK, PassOK, OnceInv, Spent, Before, After, Statuses, Steps, Executing
<1>2. ASSUME NEW o \in Ids, Cancel(o)
        PROVE  OnceInv'
    BY <1>2 DEF Cancel, env, local, IInv, TypeOK, PassOK, OnceInv, Spent, Before, After, Statuses, Steps, Executing
<1>3. ASSUME NEW s \in Symbols, NEW p \in Prices \cup {0}, PriceMove(s, p)
        PROVE  OnceInv'
    BY <1>3 DEF PriceMove, table, local, IInv, TypeOK, PassOK, OnceInv, Spent, Before, After, Statuses, Steps, Executing
<1>4. ASSUME NEW c \in Checkers, ListActive(c)
        PROVE  OnceInv'
    BY <1>4 DEF ListActive, table, env, IInv, TypeOK, PassOK, OnceInv, Spent, Before, After, Statuses, Steps, Executing
<1>5. ASSUME NEW c \in Checkers, GetLivePrices(c)
        PROVE  OnceInv'
    BY <1>5 DEF GetLivePrices, table, env, IInv, TypeOK, PassOK, OnceInv, Spent, Before, After, Statuses, Steps, Executing
<1>6. ASSUME NEW c \in Checkers, Leave(c)
        PROVE  OnceInv'
    BY <1>6 DEF Leave, table, env, IInv, TypeOK, PassOK, OnceInv, Spent, Before, After, Statuses, Steps, Executing
<1>7. ASSUME NEW c \in Checkers, Skip(c)
        PROVE  OnceInv'
    BY <1>7 DEF Skip, Heads, table, env, IInv, TypeOK, PassOK, OnceInv, Spent, Before, After, Statuses, Steps, Executing
<1>8. ASSUME NEW c \in Checkers, NEW ok \in BOOLEAN, Examine(c, ok)
        PROVE  OnceInv'
    <2>1. PICK p \in Heads(c) : Examine(c, ok)!2!(p)
      BY <1>8 DEF Examine
    <2>2. p \in Ids /\ p # 0 /\ p \in todo[c]
      BY <2>1 DEF Heads, IInv, TypeOK
    <2>3. /\ todo' = [todo EXCEPT ![c] = @ \ {p}] /\ cur' = [cur EXCEPT ![c] = cur'[c]]
          /\ cur[c] = 0
          /\ \/ pc' = [pc EXCEPT ![c] = "creds"] /\ cur'[c] = p
             \/ pc' = [pc EXCEPT ![c] = "loop"] /\ cur'[c] = 0
      BY <1>8, <2>1 DEF Examine, IInv, TypeOK, OnceInv, Executing
    <2>4. Spent <= Spent' /\ Spent \in Int /\ Spent' \in Int /\ (stopping' => faults' > 0)
      BY <1>8, <2>1 DEF Examine, Write, Spent, IInv, TypeOK, OnceInv
    <2>5. executed' = executed /\ status' = status
      BY <1>8 DEF Examine, env
    <2> HIDE DEF Spent
    <2>6. \A d \in Checkers : cur'[d] \notin todo'[d] /\ (pc'[d] \notin Executing => cur'[d] = 0)
      BY <2>2, <2>3 DEF IInv, TypeOK, OnceInv, Executing
    <2>7. ASSUME NEW o \in Ids, NEW d \in Checkers
          PROVE  /\ Before(d, o)' => Before(d, o)
                 /\ After(d, o) => After(d, o)'
      BY <2>2, <2>3 DEF Before, After, IInv, TypeOK
    <2>8. ASSUME NEW o \in Ids, NEW d \in Checkers
          PROVE  executed[<<o, d>>] \in Nat
      BY DEF IInv, TypeOK
    <2>9. ASSUME NEW o \in Ids, NEW d \in Checkers
          PROVE  /\ executed'[<<o, d>>] <= Spent' + 1
                 /\ Before(d, o)' => executed'[<<o, d>>] <= Spent'
                 /\ status'[o] \in {"none", "active"} /\ ~After(d, o)' => executed'[<<o, d>>] <= Spent'
      <3>1. /\ executed[<<o, d>>] <= Spent + 1
            /\ Before(d, o) => executed[<<o, d>>] <= Spent
            /\ status[o] \in {"none", "active"} /\ ~After(d, o) => executed[<<o, d>>] <= Spent
        BY DEF OnceInv
      <3>2. /\ executed'[<<o, d>>] = executed[<<o, d>>] /\ status'[o] = status[o]
            /\ executed[<<o, d>>] \in Nat /\ Spent \in Int /\ Spent' \in Int /\ Spent <= Spent'
        BY <2>4, <2>5, <2>8
      <3>3. /\ Before(d, o)' => Before(d, o)
            /\ After(d, o) => After(d, o)'
        BY <2>7
      <3>4. QED
        BY <3>1, <3>2, <3>3
    <2>10. QED
      BY <2>4, <2>6, <2>9 DEF OnceInv
<1>9. ASSUME NEW c \in Checkers, Credentials(c)
        PROVE  OnceInv'
    BY <1>9 DEF Credentials, table, env, IInv, TypeOK, PassOK, OnceInv, Spent, Before, After, Statuses, Steps, Executing
<1>10. ASSUME NEW c \in Checkers, NEW ok \in BOOLEAN, CreateOrder(c, ok)
        PROVE  OnceInv'
    <2>1. /\ todo' = todo /\ cur' = cur /\ executed' = executed /\ status' = status
          /\ pc[c] = "create" /\ (pc' = [pc EXCEPT ![c] = "place"] \/ pc' = [pc EXCEPT ![c] = "fail"])
      BY <1>10 DEF CreateOrder, table, env
    <2>2. Spent <= Spent' /\ Spent \in Int /\ Spent' \in Int /\ (stopping' => faults' > 0)
      BY <1>10 DEF CreateOrder, Write, Spent, IInv, TypeOK, OnceInv
    <2> HIDE DEF Spent
    <2>3. \A d \in Checkers : cur'[d] \notin todo'[d] /\ (pc'[d] \notin Executing => cur'[d] = 0)
      BY <2>1 DEF IInv, TypeOK, OnceInv, Executing
    <2>4. ASSUME NEW o \in Ids, NEW d \in Checkers
          PROVE  /\ Before(d, o)' => Before(d, o)
                 /\ After(d, o) => After(d, o)'
      BY <2>1 DEF Before, After, IInv, TypeOK
    <2>5. ASSUME NEW o \in Ids, NEW d \in Checkers
          PROVE  executed[<<o, d>>] \in Nat
      BY DEF IInv, TypeOK
    <2>6. ASSUME NEW o \in Ids, NEW d \in Checkers
          PROVE  /\ executed'[<<o, d>>] <= Spent' + 1
                 /\ Before(d, o)' => executed'[<<o, d>>] <= Spent'
                 /\ status'[o] \in {"none", "active"} /\ ~After(d, o)' => executed'[<<o, d>>] <= Spent'
      <3>1. /\ executed[<<o, d>>] <= Spent + 1
            /\ Before(d, o) => executed[<<o, d>>] <= Spent
            /\ status[o] \in {"none", "active"} /\ ~After(d, o) => executed[<<o, d>>] <= Spent
        BY DEF OnceInv
      <3>2. /\ executed'[<<o, d>>] = executed[<<o, d>>] /\ status'[o] = status[o]
            /\ executed[<<o, d>>] \in Nat /\ Spent \in Int /\ Spent' \in Int /\ Spent <= Spent'
        BY <2>1, <2>2, <2>5
      <3>3. /\ Before(d, o)' => Before(d, o)
            /\ After(d, o) => After(d, o)'
        BY <2>4
      <3>4. QED
        BY <3>1, <3>2, <3>3
    <2>7. QED
      BY <2>2, <2>3, <2>6 DEF OnceInv
<1>11. ASSUME NEW c \in Checkers, NEW accepted \in BOOLEAN, NEW ok \in BOOLEAN, PlaceOrder(c, accepted, ok)
        PROVE  OnceInv'
    <2>1. /\ todo' = todo /\ cur' = cur /\ status' = status
          /\ faults' = faults /\ stopping' = stopping
          /\ pc[c] = "place" /\ (pc' = [pc EXCEPT ![c] = "record"] \/ pc' = [pc EXCEPT ![c] = "reject"])
      BY <1>11 DEF PlaceOrder, table
    <2>2. Spent' = Spent /\ Spent \in Int /\ (stopping' => faults' > 0)
      BY <2>1 DEF Spent, IInv, TypeOK, OnceInv
    <2>3. cur[c] \in Ids /\ Before(c, cur[c]) /\ cur[c] \notin todo[c]
      BY <2>1 DEF Before, IInv, PassOK, OnceInv, Executing
    <2> HIDE DEF Spent
    <2>4. \A d \in Checkers : cur'[d] \notin todo'[d] /\ (pc'[d] \notin Executing => cur'[d] = 0)
      BY <2>1 DEF IInv, TypeOK, OnceInv, Executing
    <2>5. ASSUME NEW o \in Ids, NEW d \in Checkers
          PROVE  /\ Before(d, o)' => Before(d, o) /\ <<o, d>> # <<cur[c], c>>
                 /\ After(d, o) => After(d, o)'
      BY <2>1, <2>3 DEF Before, After, IInv, TypeOK
    <2>6. ASSUME NEW o \in Ids, o = cur[c]
          PROVE  After(c, o)' /\ Before(c, o)
      BY <2>1, <2>6 DEF After, Before, IInv, TypeOK
    <2>7. ASSUME NEW o \in Ids, NEW d \in Checkers
          PROVE  /\ executed[<<o, d>>] \in Nat
                 /\ executed'[<<o, d>>] \in {executed[<<o, d>>], executed[<<o, d>>] + 1}
                 /\ executed'[<<o, d>>] # executed[<<o, d>>] => o = cur[c] /\ d = c
      <3>1. executed[<<o, d>>] \in Nat /\ <<o, d>> \in Ids \X Checkers
        BY DEF IInv, TypeOK
      <3>2. CASE executed' = executed
        BY <3>1, <3>2
      <3>3. CASE executed' = [executed EXCEPT ![<<cur[c], c>>] = @ + 1]
        BY <2>3, <3>1, <3>3 DEF IInv, TypeOK
      <3>4. QED
        BY <1>11, <3>2, <3>3 DEF PlaceOrder
    <2>8. ASSUME NEW o \in Ids, NEW d \in Checkers
          PROVE  /\ executed'[<<o, d>>] <= Spent + 1
                 /\ Before(d, o)' => executed'[<<o, d>>] <= Spent
                 /\ status[o] \in {"none", "active"} /\ ~After(d, o)' => executed'[<<o, d>>] <= Spent
      <3>1. CASE o = cur[c] /\ d = c
        <4>1. After(d, o)' /\ Before(d, o)
          BY <2>6, <3>1
        <4>2. ~Before(d, o)'
          BY <2>5, <3>1
        <4>3. executed[<<o, d>>] <= Spent
          BY <4>1 DEF OnceInv
        <4>4. QED
          BY <2>2, <2>7, <4>1, <4>2, <4>3
      <3>2. CASE ~(o = cur[c] /\ d = c)
        <4>1. executed'[<<o, d>>] = executed[<<o, d>>]
          BY <2>7, <3>2
        <4>2. QED
          BY <2>2, <2>5, <2>7, <4>1 DEF OnceInv
      <3>3. QED
        BY <3>1, <3>2
    <2>9. QED
      BY <2>1, <2>2, <2>4, <2>8 DEF OnceInv
<1>12. ASSUME NEW c \in Checkers, NEW ok \in BOOLEAN, UpdateStatus(c, ok)
        PROVE  OnceInv'
    <2>1. /\ todo' = todo /\ cur' = cur /\ executed' = executed /\ status' = status
          /\ pc[c] = "record" /\ pc' = [pc EXCEPT ![c] = "mark"]
      BY <1>12 DEF UpdateStatus, table, env
    <2>2. Spent <= Spent' /\ Spent \in Int /\ Spent' \in Int /\ (stopping' => faults' > 0)
      BY <1>12 DEF UpdateStatus, Write, Spent, IInv, TypeOK, OnceInv
    <2> HIDE DEF Spent
    <2>3. \A d \in Checkers : cur'[d] \notin todo'[d] /\ (pc'[d] \notin Executing => cur'[d] = 0)
      BY <2>1 DEF IInv, TypeOK, OnceInv, Executing
    <2>4. ASSUME NEW o \in Ids, NEW d \in Checkers
          PROVE  /\ Before(d, o)' => Before(d, o)
                 /\ After(d, o) => After(d, o)'
      BY <2>1 DEF Before, After, IInv, TypeOK
    <2>5. ASSUME NEW o \in Ids, NEW d \in Checkers
          PROVE  executed[<<o, d>>] \in Nat
      BY DEF IInv, TypeOK
    <2>6. ASSUME NEW o \in Ids, NEW d \in Checkers
          PROVE  /\ executed'[<<o, d>>] <= Spent' + 1
                 /\ Before(d, o)' => executed'[<<o, d>>] <= Spent'
                 /\ status'[o] \in {"none", "active"} /\ ~After(d, o)' => executed'[<<o, d>>] <= Spent'
      <3>1. /\ executed[<<o, d>>] <= Spent + 1
            /\ Before(d, o) => executed[<<o, d>>] <= Spent
            /\ status[o] \in {"none", "active"} /\ ~After(d, o) => executed[<<o, d>>] <= Spent
        BY DEF OnceInv
      <3>2. /\ executed'[<<o, d>>] = executed[<<o, d>>] /\ status'[o] = status[o]
            /\ executed[<<o, d>>] \in Nat /\ Spent \in Int /\ Spent' \in Int /\ Spent <= Spent'
        BY <2>1, <2>2, <2>5
      <3>3. /\ Before(d, o)' => Before(d, o)
            /\ After(d, o) => After(d, o)'
        BY <2>4
      <3>4. QED
        BY <3>1, <3>2, <3>3
    <2>7. QED
      BY <2>2, <2>3, <2>6 DEF OnceInv
<1>13. ASSUME NEW c \in Checkers, NEW ok \in BOOLEAN, MarkTriggered(c, ok)
        PROVE  OnceInv'
    BY <1>13 DEF MarkTriggered, Return, Write, env, IInv, TypeOK, PassOK, OnceInv, Spent, Before, After, Statuses, Steps, Executing
<1>14. ASSUME NEW c \in Checkers, NEW ok \in BOOLEAN, RejectOrder(c, ok)
        PROVE  OnceInv'
    <2>1. /\ todo' = todo /\ cur' = cur /\ executed' = executed /\ status' = status
          /\ pc[c] = "reject" /\ pc' = [pc EXCEPT ![c] = "fail"]
      BY <1>14 DEF RejectOrder, table, env
    <2>2. Spent <= Spent' /\ Spent \in Int /\ Spent' \in Int /\ (stopping' => faults' > 0)
      BY <1>14 DEF RejectOrder, Write, Spent, IInv, TypeOK, OnceInv
    <2> HIDE DEF Spent
    <2>3. \A d \in Checkers : cur'[d] \notin todo'[d] /\ (pc'[d] \notin Executing => cur'[d] = 0)
      BY <2>1 DEF IInv, TypeOK, OnceInv, Executing
    <2>4. ASSUME NEW o \in Ids, NEW d \in Checkers
          PROVE  /\ Before(d, o)' => Before(d, o)
                 /\ After(d, o) => After(d, o)'
      BY <2>1 DEF Before, After, IInv, TypeOK
    <2>5. ASSUME NEW o \in Ids, NEW d \in Checkers
          PROVE  executed[<<o, d>>] \in Nat
      BY DEF IInv, TypeOK
    <2>6. ASSUME NEW o \in Ids, NEW d \in Checkers
          PROVE  /\ executed'[<<o, d>>] <= Spent' + 1
                 /\ Before(d, o)' => executed'[<<o, d>>] <= Spent'
                 /\ status'[o] \in {"none", "active"} /\ ~After(d, o)' => executed'[<<o, d>>] <= Spent'
      <3>1. /\ executed[<<o, d>>] <= Spent + 1
            /\ Before(d, o) => executed[<<o, d>>] <= Spent
            /\ status[o] \in {"none", "active"} /\ ~After(d, o) => executed[<<o, d>>] <= Spent
        BY DEF OnceInv
      <3>2. /\ executed'[<<o, d>>] = executed[<<o, d>>] /\ status'[o] = status[o]
            /\ executed[<<o, d>>] \in Nat /\ Spent \in Int /\ Spent' \in Int /\ Spent <= Spent'
        BY <2>1, <2>2, <2>5
      <3>3. /\ Before(d, o)' => Before(d, o)
            /\ After(d, o) => After(d, o)'
        BY <2>4
      <3>4. QED
        BY <3>1, <3>2, <3>3
    <2>7. QED
      BY <2>2, <2>3, <2>6 DEF OnceInv
<1>15. ASSUME NEW c \in Checkers, NEW ok \in BOOLEAN, MarkFailed(c, ok)
        PROVE  OnceInv'
    BY <1>15 DEF MarkFailed, Return, Write, env, IInv, TypeOK, PassOK, OnceInv, Spent, Before, After, Statuses, Steps, Executing
<1>16. CASE Shutdown
    BY <1>16 DEF Shutdown, table, env, local, IInv, TypeOK, PassOK, OnceInv, Spent, Before, After, Statuses, Steps, Executing
<1>17. CASE Restart
    BY <1>17 DEF Restart, table, env, IInv, TypeOK, PassOK, OnceInv, Spent, Before, After, Statuses, Steps, Executing
<1>18. CASE UNCHANGED vars
    BY <1>18 DEF vars, table, env, local, IInv, TypeOK, PassOK, OnceInv, Spent, Before, After, Statuses, Steps, Executing
<1>19. QED
    BY <1>1, <1>2, <1>3, <1>4, <1>5, <1>6, <1>7, <1>8, <1>9, <1>10, <1>11, <1>12, <1>13, <1>14, <1>15, <1>16, <1>17, <1>18 DEF Next, Step

(***************************************************************************)
(* No checker executes a smart order twice, except once per failure.       *)
(***************************************************************************)
THEOREM OncePerChecker == Spec => []AtMostOncePerChecker
<1>1. IInv /\ OnceInv /\ [Next]_vars => (IInv /\ OnceInv)'
  BY StepType, StepPass, StepOnce DEF IInv
<1>2. IInv /\ OnceInv => AtMostOncePerChecker
  <2> SUFFICES ASSUME IInv, OnceInv, NEW o \in Ids, NEW c \in Checkers
               PROVE  executed[<<o, c>>] <= 1 + faults
    BY DEF AtMostOncePerChecker
  <2>1. faults \in Nat /\ executed[<<o, c>>] \in Nat
    BY BoundsAssumption DEF IInv, TypeOK
  <2>2. QED
    BY <2>1 DEF OnceInv, Spent
<1>3. QED
  BY InitInv, InitOnce, <1>1, <1>2, PTL DEF Spec


-----------------------------------------------------------------------------
(***************************************************************************)
(* A smart order on nobody's list is touched by nobody.                    *)
(***************************************************************************)
LEMMA StepGone ==
    ASSUME IInv, [Next]_vars, NEW g \in Ids, Gone(g)
    PROVE  Gone(g)'
<1> USE IdsAssumption
<1>1. ASSUME NEW o \in Ids, NEW r \in Requests, Create(o, r)
      PROVE  Gone(g)'
  BY <1>1 DEF Create, env, local, Gone, IInv, TypeOK, PassOK, Executing
<1>2. ASSUME NEW o \in Ids, Cancel(o)
      PROVE  Gone(g)'
  BY <1>2 DEF Cancel, env, local, Gone, IInv, TypeOK, PassOK, Executing
<1>3. ASSUME NEW s \in Symbols, NEW p \in Prices \cup {0}, PriceMove(s, p)
      PROVE  Gone(g)'
  BY <1>3 DEF PriceMove, table, local, Gone, IInv, TypeOK, PassOK, Executing
<1>4. ASSUME NEW c \in Checkers, ListActive(c)
      PROVE  Gone(g)'
  BY <1>4 DEF ListActive, table, env, Gone, IInv, TypeOK, PassOK, Executing
<1>5. ASSUME NEW c \in Checkers, GetLivePrices(c)
      PROVE  Gone(g)'
  BY <1>5 DEF GetLivePrices, table, env, Gone, IInv, TypeOK, PassOK, Executing
<1>6. ASSUME NEW c \in Checkers, Leave(c)
      PROVE  Gone(g)'
  BY <1>6 DEF Leave, table, env, Gone, IInv, TypeOK, PassOK, Executing
<1>7. ASSUME NEW c \in Checkers, Skip(c)
      PROVE  Gone(g)'
  BY <1>7 DEF Skip, Heads, table, env, Gone, IInv, TypeOK, PassOK, Executing
<1>8. ASSUME NEW c \in Checkers, NEW ok \in BOOLEAN, Examine(c, ok)
      PROVE  Gone(g)'
  BY <1>8 DEF Examine, Heads, env, Gone, IInv, TypeOK, PassOK, Executing
<1>9. ASSUME NEW c \in Checkers, Credentials(c)
      PROVE  Gone(g)'
  BY <1>9 DEF Credentials, table, env, Gone, IInv, TypeOK, PassOK, Executing
<1>10. ASSUME NEW c \in Checkers, NEW ok \in BOOLEAN, CreateOrder(c, ok)
      PROVE  Gone(g)'
  BY <1>10 DEF CreateOrder, table, env, Gone, IInv, TypeOK, PassOK, Executing
<1>11. ASSUME NEW c \in Checkers, NEW accepted \in BOOLEAN, NEW ok \in BOOLEAN, PlaceOrder(c, accepted, ok)
      PROVE  Gone(g)'
  BY <1>11 DEF PlaceOrder, table, env, Gone, IInv, TypeOK, PassOK, Executing
<1>12. ASSUME NEW c \in Checkers, NEW ok \in BOOLEAN, UpdateStatus(c, ok)
      PROVE  Gone(g)'
  BY <1>12 DEF UpdateStatus, table, env, Gone, IInv, TypeOK, PassOK, Executing
<1>13. ASSUME NEW c \in Checkers, NEW ok \in BOOLEAN, MarkTriggered(c, ok)
      PROVE  Gone(g)'
  BY <1>13 DEF MarkTriggered, Return, env, Gone, IInv, TypeOK, PassOK, Executing
<1>14. ASSUME NEW c \in Checkers, NEW ok \in BOOLEAN, RejectOrder(c, ok)
      PROVE  Gone(g)'
  BY <1>14 DEF RejectOrder, table, env, Gone, IInv, TypeOK, PassOK, Executing
<1>15. ASSUME NEW c \in Checkers, NEW ok \in BOOLEAN, MarkFailed(c, ok)
      PROVE  Gone(g)'
  BY <1>15 DEF MarkFailed, Return, env, Gone, IInv, TypeOK, PassOK, Executing
<1>16. ASSUME Shutdown
      PROVE  Gone(g)'
  BY <1>16 DEF Shutdown, table, env, local, Gone, IInv, TypeOK, PassOK, Executing
<1>17. ASSUME Restart
      PROVE  Gone(g)'
  BY <1>17 DEF Restart, table, env, Gone, IInv, TypeOK, PassOK, Executing
<1>18. ASSUME UNCHANGED vars
      PROVE  Gone(g)'
  BY <1>18 DEF vars, table, env, local, Gone, IInv, TypeOK, PassOK, Executing
<1>19. QED
  BY <1>1, <1>2, <1>3, <1>4, <1>5, <1>6, <1>7, <1>8, <1>9, <1>10, <1>11, <1>12, <1>13, <1>14, <1>15, <1>16, <1>17, <1>18 DEF Next, Step

(***************************************************************************)
(* A cancel that no pass overlaps stays: no checker writes that row again, *)
(* whatever fails and however many checkers there are.                     *)
(***************************************************************************)
THEOREM CancelStays == Spec => CancelIsFinal
<1>1. IInv /\ [Next]_vars => [\A o \in Ids : Gone(o) => Gone(o)']_vars
  BY StepGone
<1>2. QED
  BY InductiveInv, <1>1, PTL DEF Spec, CancelIsFinal

-----------------------------------------------------------------------------
(***************************************************************************)
(* TriggeredHasOrder is inductive only together with two facts: whatever   *)
(* row a smart order names is its own and was not refused, whether or not  *)
(* it is triggered by now, and the row a checker still has to write is     *)
(* named by no smart order.                                                *)
(***************************************************************************)
Named(o) == /\ trigBy[o] \in DOMAIN orders
            /\ orders[trigBy[o]].smart = o /\ orders[trigBy[o]].status # "rejected"

RowsInv ==
    /\ \A o \in Ids : trigBy[o] # 0 => Named(o)
    /\ \A o \in Ids : status[o] = "triggered" => trigBy[o] # 0
    /\ \A c \in Checkers : pc[c] \in HoldsRow => \A o \in Ids : trigBy[o] # row[c]

LEMMA InitRows == Init => RowsInv
BY DEF Init, RowsInv, HoldsRow

(***************************************************************************)
(* A step that names no row and leaves every row that is named as it is,   *)
(* and gives a checker no row but a new one, preserves RowsInv.            *)
(***************************************************************************)
LEMMA RowsKept ==
    ASSUME RowsInv, trigBy' = trigBy,
           \A o \in Ids : status'[o] = "triggered" => status[o] = "triggered",
           \A o \in Ids : trigBy[o] # 0 => /\ trigBy[o] \in DOMAIN orders'
                                           /\ orders'[trigBy[o]] = orders[trigBy[o]],
           \A c \in Checkers : pc'[c] \in HoldsRow =>
                \/ pc[c] \in HoldsRow /\ row'[c] = row[c]
                \/ \A o \in Ids : trigBy[o] # row'[c]
    PROVE  RowsInv'
BY DEF RowsInv, Named

LEMMA StepRows ==
    ASSUME IInv, RowsInv, [Next]_vars
    PROVE  RowsInv'
<1> USE IdsAssumption
<1>0. \A o \in Ids : trigBy[o] # 0 => trigBy[o] \in DOMAIN orders
  BY DEF RowsInv, Named
<1>1. ASSUME NEW o \in Ids, NEW r \in Requests, Create(o, r)
      PROVE  RowsInv'
  BY <1>0, <1>1, RowsKept DEF Create, env, local, IInv, TypeOK, HoldsRow
<1>2. ASSUME NEW o \in Ids, Cancel(o)
      PROVE  RowsInv'
  BY <1>0, <1>2, RowsKept DEF Cancel, env, local, IInv, TypeOK, HoldsRow
<1>3. ASSUME NEW s \in Symbols, NEW p \in Prices \cup {0}, PriceMove(s, p)
      PROVE  RowsInv'
  BY <1>0, <1>3, RowsKept DEF PriceMove, table, local, IInv, TypeOK, HoldsRow
<1>4. ASSUME NEW c \in Checkers, ListActive(c)
      PROVE  RowsInv'
  BY <1>0, <1>4, RowsKept DEF ListActive, table, env, IInv, TypeOK, HoldsRow
<1>5. ASSUME NEW c \in Checkers, GetLivePrices(c)
      PROVE  RowsInv'
  BY <1>0, <1>5, RowsKept DEF GetLivePrices, table, env, IInv, TypeOK, HoldsRow
<1>6. ASSUME NEW c \in Checkers, Leave(c)
      PROVE  RowsInv'
  BY <1>0, <1>6, RowsKept DEF Leave, table, env, IInv, TypeOK, HoldsRow
<1>7. ASSUME NEW c \in Checkers, Skip(c)
      PROVE  RowsInv'
  BY <1>0, <1>7, RowsKept DEF Skip, table, env, IInv, TypeOK, HoldsRow
<1>8. ASSUME NEW c \in Checkers, NEW ok \in BOOLEAN, Examine(c, ok)
      PROVE  RowsInv'
  BY <1>0, <1>8, RowsKept DEF Examine, Heads, env, IInv, TypeOK, HoldsRow
<1>9. ASSUME NEW c \in Checkers, Credentials(c)
      PROVE  RowsInv'
  BY <1>0, <1>9, RowsKept DEF Credentials, table, env, IInv, TypeOK, HoldsRow
<1>10. ASSUME NEW c \in Checkers, NEW ok \in BOOLEAN, CreateOrder(c, ok)
      PROVE  RowsInv'
  <2>1. orders \in Seq(OrderRow) /\ cur[c] \in Ids
    BY <1>10 DEF CreateOrder, IInv, TypeOK, PassOK, Executing
  <2>2. CASE ok
    <3> DEFINE r == [smart |-> cur[c], status |-> "new"]
    <3>1. r \in OrderRow /\ orders' = Append(orders, r)
      BY <1>10, <2>1, <2>2 DEF CreateOrder, OrderRow
    <3>2. /\ DOMAIN orders \subseteq DOMAIN orders' /\ Len(orders) + 1 \notin DOMAIN orders
          /\ \A i \in DOMAIN orders : orders'[i] = orders[i] /\ Len(orders) + 1 # 0
      BY <2>1, <3>1, RowInsert
    <3>3. \A o \in Ids : trigBy[o] # Len(orders) + 1
      BY <2>1, <3>2, LenProperties DEF IInv, TypeOK
    <3>4. /\ trigBy' = trigBy /\ status' = status
          /\ \A d \in Checkers : pc'[d] \in HoldsRow =>
                \/ pc[d] \in HoldsRow /\ row'[d] = row[d]
                \/ row'[d] = Len(orders) + 1
      BY <1>10, <2>2 DEF CreateOrder, table, IInv, TypeOK, HoldsRow
    <3>5. QED
      BY <1>0, <3>2, <3>3, <3>4, RowsKept
  <2>3. CASE ~ok
    BY <1>0, <1>10, <2>3, RowsKept DEF CreateOrder, table, IInv, TypeOK, HoldsRow
  <2>4. QED
    BY <2>2, <2>3
<1>11. ASSUME NEW c \in Checkers, NEW accepted \in BOOLEAN, NEW ok \in BOOLEAN, PlaceOrder(c, accepted, ok)
      PROVE  RowsInv'
  BY <1>0, <1>11, RowsKept DEF PlaceOrder, table, env, IInv, TypeOK, HoldsRow
<1>12. ASSUME NEW c \in Checkers, NEW ok \in BOOLEAN, UpdateStatus(c, ok)
      PROVE  RowsInv'
  <2>1. orders \in Seq(OrderRow) /\ row[c] \in DOMAIN orders /\ pc[c] = "record"
    BY <1>12 DEF UpdateStatus, IInv, TypeOK, PassOK, HoldsRow
  <2>2. PICK s \in {"new", "filled", "rejected"} :
            orders' = WithStatus(orders, row[c], s) \/ orders' = orders
    <3>1. PICK s \in {"new", "filled"} :
              orders' = IF ok THEN [orders EXCEPT ![row[c]].status = s] ELSE orders
      BY <1>12 DEF UpdateStatus
    <3>2. s \in {"new", "filled", "rejected"}
      OBVIOUS
    <3>3. QED
      BY <3>1, <3>2 DEF WithStatus
  <2>3. /\ DOMAIN orders' = DOMAIN orders
        /\ \A i \in DOMAIN orders : i # row[c] => orders'[i] = orders[i]
    <3> DEFINE u == WithStatus(orders, row[c], s)
    <3>1. DOMAIN u = DOMAIN orders /\ \A i \in DOMAIN orders : i # row[c] => u[i] = orders[i]
      BY <2>1, RowUpdate
    <3>2. orders' = u \/ orders' = orders
      BY <2>2
    <3> HIDE DEF u
    <3>3. QED
      BY <3>1, <3>2
  <2>4. \A o \in Ids : trigBy[o] # row[c]
    BY <2>1 DEF RowsInv, HoldsRow
  <2>5. /\ trigBy' = trigBy /\ status' = status /\ row' = row
        /\ \A d \in Checkers : pc'[d] \in HoldsRow => pc[d] \in HoldsRow
    BY <1>12 DEF UpdateStatus, table, IInv, TypeOK, HoldsRow
  <2>6. QED
    BY <1>0, <2>3, <2>4, <2>5, RowsKept
<1>13. ASSUME NEW c \in Checkers, NEW ok \in BOOLEAN, MarkTriggered(c, ok)
      PROVE  RowsInv'
  <2>1. /\ cur[c] \in Ids /\ row[c] \in DOMAIN orders /\ row[c] # 0 /\ pc[c] = "mark"
        /\ orders[row[c]].smart = cur[c] /\ orders[row[c]].status # "rejected"
        /\ \A d \in Checkers \ {c} : row[d] # row[c]
    BY <1>13, RowPositive DEF MarkTriggered, IInv, PassOK, Executing, HoldsRow
  <2>2. /\ orders' = orders
        /\ \A d \in Checkers : pc'[d] \in HoldsRow => d # c /\ pc[d] \in HoldsRow /\ row'[d] = row[d]
    BY <1>13 DEF MarkTriggered, Return, IInv, TypeOK, HoldsRow
  <2>3. CASE ok
    <3>1. status' = [status EXCEPT ![cur[c]] = "triggered"] /\ trigBy' = [trigBy EXCEPT ![cur[c]] = row[c]]
      BY <1>13, <2>3 DEF MarkTriggered
    <3>2. ASSUME NEW o \in Ids
          PROVE  /\ trigBy'[o] # 0 => Named(o)'
                 /\ status'[o] = "triggered" => trigBy'[o] # 0
      <4>1. CASE o = cur[c]
        BY <2>1, <2>2, <3>1, <4>1 DEF Named, IInv, TypeOK
      <4>2. CASE o # cur[c]
        <5>1. trigBy'[o] = trigBy[o] /\ status'[o] = status[o]
          BY <3>1, <4>2
        <5>2. QED
          BY <2>2, <5>1 DEF Named, RowsInv
      <4>3. QED
        BY <4>1, <4>2
    <3>3. ASSUME NEW d \in Checkers, pc'[d] \in HoldsRow, NEW o \in Ids
          PROVE  trigBy'[o] # row'[d]
      BY <2>1, <2>2, <3>1, <3>3 DEF RowsInv, IInv, TypeOK
    <3>4. QED
      BY <3>2, <3>3 DEF RowsInv
  <2>4. CASE ~ok
    <3>1. trigBy' = trigBy /\ status' = status
      BY <1>13, <2>4 DEF MarkTriggered
    <3>2. QED
      BY <1>0, <2>2, <3>1, RowsKept
  <2>5. QED
    BY <2>3, <2>4
<1>14. ASSUME NEW c \in Checkers, NEW ok \in BOOLEAN, RejectOrder(c, ok)
      PROVE  RowsInv'
  <2>1. orders \in Seq(OrderRow) /\ row[c] \in DOMAIN orders /\ pc[c] = "reject"
    BY <1>14 DEF RejectOrder, IInv, TypeOK, PassOK, HoldsRow
  <2>2. PICK s \in {"new", "filled", "rejected"} :
            orders' = WithStatus(orders, row[c], s) \/ orders' = orders
    BY <1>14 DEF RejectOrder, WithStatus
  <2>3. /\ DOMAIN orders' = DOMAIN orders
        /\ \A i \in DOMAIN orders : i # row[c] => orders'[i] = orders[i]
    <3> DEFINE u == WithStatus(orders, row[c], s)
    <3>1. DOMAIN u = DOMAIN orders /\ \A i \in DOMAIN orders : i # row[c] => u[i] = orders[i]
      BY <2>1, RowUpdate
    <3>2. orders' = u \/ orders' = orders
      BY <2>2
    <3> HIDE DEF u
    <3>3. QED
      BY <3>1, <3>2
  <2>4. \A o \in Ids : trigBy[o] # row[c]
    BY <2>1 DEF RowsInv, HoldsRow
  <2>5. /\ trigBy' = trigBy /\ status' = status /\ row' = row
        /\ \A d \in Checkers : pc'[d] \in HoldsRow => pc[d] \in HoldsRow
    BY <1>14 DEF RejectOrder, table, IInv, TypeOK, HoldsRow
  <2>6. QED
    BY <1>0, <2>3, <2>4, <2>5, RowsKept
<1>15. ASSUME NEW c \in Checkers, NEW ok \in BOOLEAN, MarkFailed(c, ok)
      PROVE  RowsInv'
  BY <1>0, <1>15, RowsKept DEF MarkFailed, Return, env, IInv, TypeOK, HoldsRow
<1>16. ASSUME Shutdown
      PROVE  RowsInv'
  BY <1>0, <1>16, RowsKept DEF Shutdown, table, env, local, IInv, TypeOK, HoldsRow
<1>17. ASSUME Restart
      PROVE  RowsInv'
  BY <1>0, <1>17, RowsKept DEF Restart, table, env, IInv, TypeOK, HoldsRow
<1>18. ASSUME UNCHANGED vars
      PROVE  RowsInv'
  BY <1>0, <1>18, RowsKept DEF vars, table, env, local, IInv, TypeOK, HoldsRow
<1>19. QED
  BY <1>1, <1>2, <1>3, <1>4, <1>5, <1>6, <1>7, <1>8, <1>9, <1>10, <1>11, <1>12, <1>13, <1>14, <1>15, <1>16, <1>17, <1>18 DEF Next, Step

(***************************************************************************)
(* A triggered smart order names an orders row of its own that no exchange *)
(* refused, however its checkers, restarts and failed writes interleave.   *)
(***************************************************************************)
THEOREM TriggeredNamesOrder == Spec => []TriggeredHasOrder
<1>1. IInv /\ RowsInv /\ [Next]_vars => (IInv /\ RowsInv)'
  BY StepType, StepPass, StepRows DEF IInv
<1>2. IInv /\ RowsInv => TriggeredHasOrder
  BY DEF IInv, TypeOK, RowsInv, Named, TriggeredHasOrder
<1>3. QED
  BY InitInv, InitRows, <1>1, <1>2, PTL DEF Spec

-----------------------------------------------------------------------------
(***************************************************************************)
(* Rows and executions.  A checker that has inserted its row and has not   *)
(* called the exchange yet has a claim on a row no execution uses: counted *)
(* together, executions and claims of an order are never more than its     *)
(* rows.  A restart loses claims, and never an execution or a row.         *)
(***************************************************************************)
Claimed(o, c) == executed[<<o, c>>] + (IF pc[c] = "place" /\ cur[c] = o THEN 1 ELSE 0)
Claims(o)     == UNION {{c} \X (1..Claimed(o, c)) : c \in Checkers}

ClaimsInv ==
    \A o \in Ids : IsFiniteSet(Claims(o)) /\ Cardinality(Claims(o)) <= Cardinality(Rows(o))

LEMMA ClaimedType ==
    ASSUME TypeOK, NEW o \in Ids, NEW c \in Checkers
    PROVE  executed[<<o, c>>] \in Nat /\ Claimed(o, c) \in Nat /\ executed[<<o, c>>] <= Claimed(o, c)
BY DEF TypeOK, Claimed

LEMMA SelectionFinite ==
    ASSUME NEW t \in Seq(OrderRow), NEW o
    PROVE  LET S == {i \in DOMAIN t : t[i].smart = o}
           IN  IsFiniteSet(S) /\ Cardinality(S) \in Nat
<1> DEFINE S == {i \in DOMAIN t : t[i].smart = o}
<1>1. S \in SUBSET (1..Len(t)) /\ Len(t) \in Int
  BY LenProperties
<1>2. IsFiniteSet(1..Len(t))
  BY <1>1, FS_Interval
<1> HIDE DEF S
<1>3. IsFiniteSet(S)
  BY <1>1, <1>2, FS_Subset
<1>4. Cardinality(S) \in Nat
  BY <1>3, FS_CardinalityType
<1>5. QED
  BY <1>3, <1>4 DEF S

LEMMA RowsFinite ==
    ASSUME TypeOK, NEW o
    PROVE  IsFiniteSet(Rows(o)) /\ Cardinality(Rows(o)) \in Nat
BY SelectionFinite DEF TypeOK, Rows

LEMMA InitClaims == Init => ClaimsInv
<1> SUFFICES ASSUME Init, NEW o \in Ids
             PROVE  IsFiniteSet(Claims(o)) /\ Cardinality(Claims(o)) <= Cardinality(Rows(o))
  BY DEF ClaimsInv
<1>1. ASSUME NEW c \in Checkers PROVE 1..Claimed(o, c) = {}
  BY DEF Init, Claimed
<1>2. Claims(o) = {}
  BY <1>1 DEF Claims
<1>3. Cardinality(Rows(o)) \in Nat
  BY InitInv, RowsFinite DEF IInv
<1>4. QED
  BY <1>2, <1>3, FS_EmptySet

(***************************************************************************)
(* A step that adds neither a claim nor an execution of o and keeps its    *)
(* rows.                                                                   *)
(***************************************************************************)
LEMMA ClaimsShrink ==
    ASSUME TypeOK, TypeOK', NEW o \in Ids,
           IsFiniteSet(Claims(o)), Cardinality(Claims(o)) <= Cardinality(Rows(o)),
           \A c \in Checkers : Claimed(o, c)' <= Claimed(o, c),
           Rows(o) \subseteq Rows(o)'
    PROVE  IsFiniteSet(Claims(o)') /\ Cardinality(Claims(o)') <= Cardinality(Rows(o)')
<1>1. ASSUME NEW c \in Checkers PROVE 1..Claimed(o, c)' \subseteq 1..Claimed(o, c)
  <2>1. Claimed(o, c) \in Nat
    BY ClaimedType
  <2>2. Claimed(o, c)' \in Nat
    <3>1. executed'[<<o, c>>] \in Nat
      BY DEF TypeOK
    <3>2. QED
      BY <3>1 DEF Claimed
  <2>3. QED
    BY <2>1, <2>2
<1>2. Claims(o)' \subseteq Claims(o)
  BY <1>1 DEF Claims
<1>3. IsFiniteSet(Claims(o)') /\ Cardinality(Claims(o)') <= Cardinality(Claims(o))
  BY <1>2, FS_Subset
<1>4. IsFiniteSet(Rows(o)') /\ Cardinality(Rows(o)') \in Nat
  <2>1. orders' \in Seq(OrderRow)
    BY DEF TypeOK
  <2>2. QED
    BY <2>1, SelectionFinite DEF Rows
<1>5. Cardinality(Rows(o)) <= Cardinality(Rows(o)')
  BY <1>4, FS_Subset
<1>6. Cardinality(Rows(o)) \in Nat /\ Cardinality(Claims(o)) \in Nat /\ Cardinality(Claims(o)') \in Nat
  BY <1>3, RowsFinite, FS_CardinalityType
<1>7. QED
  BY <1>3, <1>4, <1>5, <1>6

LEMMA OneMore ==
    ASSUME NEW S, NEW T, NEW x, IsFiniteSet(S), T = S \cup {x}, x \notin S
    PROVE  IsFiniteSet(T) /\ Cardinality(T) = Cardinality(S) + 1
BY FS_AddElement

(***************************************************************************)
(* The INSERT: a claim more, and a row more.                               *)
(***************************************************************************)
LEMMA ClaimMade ==
    ASSUME IInv, NEW c \in Checkers, CreateOrder(c, TRUE), NEW o, o = cur[c],
           IsFiniteSet(Claims(o)), Cardinality(Claims(o)) <= Cardinality(Rows(o))
    PROVE  IsFiniteSet(Claims(o)') /\ Cardinality(Claims(o)') <= Cardinality(Rows(o)')
<1> DEFINE n == Claimed(o, c)
           r == [smart |-> o, status |-> "new"]
<1>1. /\ o \in Ids /\ cur' = cur /\ executed' = executed /\ pc[c] = "create"
      /\ pc' = [pc EXCEPT ![c] = "place"] /\ orders' = Append(orders, r)
      /\ r \in OrderRow /\ orders \in Seq(OrderRow)
  BY DEF CreateOrder, IInv, TypeOK, PassOK, Executing, OrderRow
<1>2. /\ n \in Nat /\ Claimed(o, c)' = n + 1
      /\ \A d \in Checkers \ {c} : Claimed(o, d)' = Claimed(o, d)
  <2>1. n \in Nat
    BY <1>1, ClaimedType DEF IInv
  <2>2. pc' = [pc EXCEPT ![c] = "place"] /\ pc \in [Checkers -> Steps] /\ pc[c] = "create"
    BY <1>1 DEF IInv, TypeOK
  <2>3. Claimed(o, c)' = executed[<<o, c>>] + 1 /\ n = executed[<<o, c>>] + 0
    BY <1>1, <2>2 DEF Claimed
  <2>4. executed[<<o, c>>] \in Nat
    BY <1>1 DEF IInv, TypeOK
  <2>5. ASSUME NEW d \in Checkers \ {c} PROVE Claimed(o, d)' = Claimed(o, d)
    BY <1>1, <2>2 DEF Claimed
  <2>6. QED
    BY <2>1, <2>3, <2>4, <2>5
<1>3. Claims(o)' = Claims(o) \cup {<<c, n + 1>>} /\ <<c, n + 1>> \notin Claims(o)
  <2> HIDE DEF n
  <2>0. n = Claimed(o, c)
    BY DEF n
  <2>1. 1..(n + 1) = (1..n) \cup {n + 1} /\ n + 1 \notin 1..n
    BY <1>2
  <2>2. ASSUME NEW d \in Checkers
        PROVE  1..Claimed(o, d)' = IF d = c THEN (1..n) \cup {n + 1} ELSE 1..Claimed(o, d)
    BY <1>2, <2>1
  <2>3. Claims(o)' = UNION {{d} \X (1..Claimed(o, d)') : d \in Checkers}
    BY DEF Claims
  <2>4. ASSUME NEW p
        PROVE  /\ p \in Claims(o)' <=> \E d \in Checkers : p \in {d} \X (1..Claimed(o, d)')
               /\ p \in Claims(o) <=> \E d \in Checkers : p \in {d} \X (1..Claimed(o, d))
    BY <2>3 DEF Claims
  <2>5. <<c, n + 1>> \notin Claims(o)
    BY <2>0, <2>1, <2>4
  <2>6. ASSUME NEW p PROVE p \in Claims(o)' <=> p \in Claims(o) \/ p = <<c, n + 1>>
    <3>1. ASSUME NEW d \in Checkers, d # c
          PROVE  {d} \X (1..Claimed(o, d)') = {d} \X (1..Claimed(o, d))
      BY <2>2, <3>1
    <3>2. {c} \X (1..Claimed(o, c)') = ({c} \X (1..n)) \cup {<<c, n + 1>>}
      <4>1. 1..Claimed(o, c)' = (1..n) \cup {n + 1}
        BY <2>2
      <4>2. QED
        BY <4>1
    <3>3. QED
      BY <2>0, <2>4, <3>1, <3>2
  <2>7. QED
    BY <2>5, <2>6
<1>4. Rows(o)' = Rows(o) \cup {Len(orders) + 1} /\ Len(orders) + 1 \notin Rows(o)
  BY <1>1, RowInsert DEF Rows
<1>5. /\ IsFiniteSet(Claims(o)') /\ Cardinality(Claims(o)') = Cardinality(Claims(o)) + 1
      /\ Cardinality(Rows(o)') = Cardinality(Rows(o)) + 1
  <2> HIDE DEF n
  <2>1. IsFiniteSet(Rows(o)) /\ IsFiniteSet(Claims(o))
    BY RowsFinite DEF IInv
  <2>2. IsFiniteSet(Claims(o)') /\ Cardinality(Claims(o)') = Cardinality(Claims(o)) + 1
    BY <1>3, <2>1, OneMore
  <2>3. Cardinality(Rows(o)') = Cardinality(Rows(o)) + 1
    BY <1>4, <2>1, OneMore
  <2>4. QED
    BY <2>2, <2>3
<1>6. Cardinality(Rows(o)) \in Nat /\ Cardinality(Claims(o)) \in Nat
  BY RowsFinite, FS_CardinalityType DEF IInv
<1>7. QED
  BY <1>5, <1>6

(***************************************************************************)
(* Updating the status of a row leaves the rows of every order as they     *)
(* are.                                                                    *)
(***************************************************************************)
LEMMA RowsUpdated ==
    ASSUME TypeOK, NEW i \in DOMAIN orders, NEW s \in {"new", "filled", "rejected"}, NEW o,
           orders' = WithStatus(orders, i, s) \/ orders' = orders
    PROVE  Rows(o) \subseteq Rows(o)'
<1>1. CASE orders' = orders
  BY <1>1 DEF Rows
<1>2. CASE orders' = WithStatus(orders, i, s)
  <2>1. /\ DOMAIN orders' = DOMAIN orders
        /\ \A j \in DOMAIN orders : j # i => orders'[j] = orders[j]
        /\ orders'[i].smart = orders[i].smart
    <3>1. orders \in Seq(OrderRow)
      BY DEF TypeOK
    <3>2. orders'[i] = [smart |-> orders[i].smart, status |-> s]
      BY <1>2, <3>1, RowUpdated
    <3>3. orders'[i].smart = orders[i].smart
      BY <3>2
    <3>4. QED
      BY <1>2, <3>1, <3>3, RowUpdate
  <2>2. ASSUME NEW j \in DOMAIN orders PROVE orders'[j].smart = orders[j].smart
    BY <2>1
  <2>3. QED
    BY <2>1, <2>2 DEF Rows
<1>3. QED
  BY <1>1, <1>2

LEMMA StepClaims == IInv /\ ClaimsInv /\ [Next]_vars => ClaimsInv'
<1> SUFFICES ASSUME IInv, ClaimsInv, [Next]_vars, NEW o \in Ids
             PROVE  IsFiniteSet(Claims(o)') /\ Cardinality(Claims(o)') <= Cardinality(Rows(o)')
  BY DEF ClaimsInv
<1> DEFINE Goal == IsFiniteSet(Claims(o)') /\ Cardinality(Claims(o)') <= Cardinality(Rows(o)')
<1>0. /\ TypeOK /\ TypeOK' /\ o # 0
      /\ IsFiniteSet(Claims(o)) /\ Cardinality(Claims(o)) <= Cardinality(Rows(o))
      /\ \A c \in Checkers : executed[<<o, c>>] \in Nat /\ Claimed(o, c) \in Nat
  BY StepType, ClaimedType, IdsAssumption DEF IInv, ClaimsInv, TypeOK
<1>a. ASSUME Rows(o) \subseteq Rows(o)', \A c \in Checkers : Claimed(o, c)' <= Claimed(o, c)
      PROVE  Goal
  BY <1>0, <1>a, ClaimsShrink
<1>b. ASSUME orders' = orders \/ Rows(o) \subseteq Rows(o)', executed' = executed,
             \A c \in Checkers : pc'[c] = "place" /\ cur'[c] = o => pc[c] = "place" /\ cur[c] = o
      PROVE  Goal
  <2>1. Rows(o) \subseteq Rows(o)'
    BY <1>b DEF Rows
  <2>2. ASSUME NEW c \in Checkers PROVE Claimed(o, c)' <= Claimed(o, c)
    BY <1>0, <1>b DEF Claimed
  <2>3. QED
    BY <1>a, <2>1, <2>2
<1>1. ASSUME NEW p \in Ids, (\E r \in Requests : Create(p, r)) \/ Cancel(p) PROVE Goal
  BY <1>1, <1>b DEF Create, Cancel, local
<1>2. ASSUME NEW s \in Symbols, NEW p \in Prices \cup {0}, PriceMove(s, p) PROVE Goal
  BY <1>2, <1>b DEF PriceMove, local
<1>3. ASSUME NEW c \in Checkers,
             ListActive(c) \/ GetLivePrices(c) \/ Leave(c) \/ Skip(c) \/ Credentials(c)
      PROVE  Goal
  <2>1. /\ orders' = orders /\ executed' = executed /\ cur' = cur
        /\ \A d \in Checkers : pc'[d] = "place" => pc[d] = "place"
    BY <1>3 DEF ListActive, GetLivePrices, Leave, Skip, Credentials, IInv, TypeOK
  <2>2. QED
    BY <2>1, <1>b
<1>4. ASSUME NEW c \in Checkers, NEW ok \in BOOLEAN, Examine(c, ok) PROVE Goal
  <2>1. /\ orders' = orders /\ executed' = executed
        /\ \A d \in Checkers : pc'[d] = "place" => pc[d] = "place" /\ cur'[d] = cur[d]
    BY <1>4 DEF Examine, env, IInv, TypeOK
  <2>2. QED
    BY <2>1, <1>b
<1>5. ASSUME NEW c \in Checkers, NEW ok \in BOOLEAN, CreateOrder(c, ok) PROVE Goal
  <2>1. CASE ok /\ cur[c] = o
    <3>1. CreateOrder(c, TRUE)
      BY <1>5, <2>1
    <3>2. QED
      BY <1>0, <2>1, <3>1, ClaimMade
  <2>2. CASE ok /\ cur[c] # o
    <3> DEFINE r == [smart |-> cur[c], status |-> "new"]
    <3>1. /\ orders' = Append(orders, r) /\ r \in OrderRow /\ orders \in Seq(OrderRow)
          /\ executed' = executed /\ cur' = cur /\ pc' = [pc EXCEPT ![c] = "place"]
      BY <1>5, <2>2 DEF CreateOrder, OrderRow, IInv, TypeOK, PassOK, Executing
    <3>2. Rows(o) \subseteq Rows(o)'
      BY <3>1, RowInsert DEF Rows
    <3>3. \A d \in Checkers : pc'[d] = "place" /\ cur'[d] = o => pc[d] = "place" /\ cur[d] = o
      BY <2>2, <3>1 DEF IInv, TypeOK
    <3>4. QED
      BY <1>b, <3>1, <3>2, <3>3
  <2>3. CASE ~ok
    BY <1>5, <2>3, <1>b DEF CreateOrder, IInv, TypeOK
  <2>4. QED
    BY <2>1, <2>2, <2>3
<1>6. ASSUME NEW c \in Checkers, NEW accepted \in BOOLEAN, NEW ok \in BOOLEAN, PlaceOrder(c, accepted, ok)
      PROVE  Goal
  <2>1. /\ pc[c] = "place" /\ cur' = cur /\ orders' = orders /\ cur[c] \in Ids
        /\ pc \in [Checkers -> Steps] /\ executed \in [Ids \X Checkers -> Nat]
        /\ \/ pc' = [pc EXCEPT ![c] = "record"]
           \/ pc' = [pc EXCEPT ![c] = "reject"]
        /\ \/ executed' = executed
           \/ executed' = [executed EXCEPT ![<<cur[c], c>>] = @ + 1]
    BY <1>6 DEF PlaceOrder, IInv, TypeOK, PassOK, Executing
  <2>2. ASSUME NEW d \in Checkers PROVE Claimed(o, d)' <= Claimed(o, d)
    <3>1. CASE d = c /\ cur[c] = o
      <4>1. Claimed(o, d) = executed[<<o, d>>] + 1 /\ Claimed(o, d)' = executed'[<<o, d>>] + 0
        BY <2>1, <3>1 DEF Claimed
      <4>2. executed'[<<o, d>>] \in {executed[<<o, d>>], executed[<<o, d>>] + 1}
        BY <2>1, <3>1
      <4>3. QED
        BY <1>0, <4>1, <4>2
    <3>2. CASE d = c /\ cur[c] # o
      <4>1. <<o, d>> # <<cur[c], c>> /\ <<o, d>> \in Ids \X Checkers
        BY <3>2
      <4>2. executed'[<<o, d>>] = executed[<<o, d>>]
        BY <2>1, <4>1
      <4>3. QED
        BY <1>0, <2>1, <3>2, <4>2 DEF Claimed
    <3>3. CASE d # c
      <4>1. <<o, d>> # <<cur[c], c>> /\ <<o, d>> \in Ids \X Checkers
        BY <3>3
      <4>2. executed'[<<o, d>>] = executed[<<o, d>>] /\ pc'[d] = pc[d]
        BY <2>1, <3>3, <4>1
      <4>3. QED
        BY <1>0, <2>1, <4>2 DEF Claimed
    <3>4. QED
      BY <3>1, <3>2, <3>3
  <2>3. QED
    BY <1>a, <2>1, <2>2 DEF Rows
<1>7. ASSUME NEW c \in Checkers, NEW ok \in BOOLEAN, UpdateStatus(c, ok) \/ RejectOrder(c, ok)
      PROVE  Goal
  <2>1. row[c] \in DOMAIN orders
    BY <1>7 DEF UpdateStatus, RejectOrder, IInv, PassOK, HoldsRow
  <2>2. PICK s \in {"new", "filled", "rejected"} :
            orders' = WithStatus(orders, row[c], s) \/ orders' = orders
    BY <1>7 DEF UpdateStatus, RejectOrder, WithStatus
  <2>3. Rows(o) \subseteq Rows(o)'
    BY <1>0, <2>1, <2>2, RowsUpdated
  <2>4. /\ executed' = executed /\ cur' = cur
        /\ \A d \in Checkers : pc'[d] = "place" => pc[d] = "place"
    BY <1>7 DEF UpdateStatus, RejectOrder, IInv, TypeOK
  <2>5. QED
    BY <1>b, <2>3, <2>4
<1>8. ASSUME NEW c \in Checkers, NEW ok \in BOOLEAN, MarkTriggered(c, ok) \/ MarkFailed(c, ok)
      PROVE  Goal
  <2>1. /\ orders' = orders /\ executed' = executed
        /\ \A d \in Checkers : pc'[d] = "place" => pc[d] = "place" /\ cur'[d] = cur[d]
    BY <1>8 DEF MarkTriggered, MarkFailed, Return, IInv, TypeOK
  <2>2. QED
    BY <1>b, <2>1
<1>9. ASSUME Shutdown \/ Restart \/ UNCHANGED vars PROVE Goal
  BY <1>9, <1>b DEF Shutdown, Restart, vars, local
<1>10. QED
  BY <1>1, <1>2, <1>3, <1>4, <1>5, <1>6, <1>7, <1>8, <1>9 DEF Next, Step

(***************************************************************************)
(* The exchange never holds more market orders of a smart order than there *)
(* are rows of it, for any number of checkers, restarts, lost answers and  *)
(* failed writes.                                                          *)
(***************************************************************************)
THEOREM ExecutionsHaveRows == Spec => []EveryExecutionHasRow
<1>1. IInv /\ ClaimsInv /\ [Next]_vars => (IInv /\ ClaimsInv)'
  BY StepType, StepPass, StepClaims DEF IInv
<1>2. IInv /\ ClaimsInv => EveryExecutionHasRow
  <2> SUFFICES ASSUME IInv, ClaimsInv, NEW o \in Ids
               PROVE  Cardinality(Executions(o)) <= Cardinality(Rows(o))
    BY DEF EveryExecutionHasRow
  <2>1. ASSUME NEW c \in Checkers PROVE 1..executed[<<o, c>>] \subseteq 1..Claimed(o, c)
    <3>1. executed[<<o, c>>] \in Nat /\ Claimed(o, c) \in Nat /\ executed[<<o, c>>] <= Claimed(o, c)
      BY ClaimedType DEF IInv
    <3>2. QED
      BY <3>1
  <2>2. Executions(o) \subseteq Claims(o)
    <3>1. ASSUME NEW p, p \in Executions(o) PROVE p \in Claims(o)
      <4>1. PICK c \in Checkers : p \in {c} \X (1..executed[<<o, c>>])
        BY <3>1 DEF Executions
      <4>2. p \in {c} \X (1..Claimed(o, c))
        BY <2>1, <4>1
      <4>3. QED
        BY <4>2 DEF Claims
    <3>2. QED
      BY <3>1
  <2>3. /\ IsFiniteSet(Claims(o)) /\ Cardinality(Claims(o)) <= Cardinality(Rows(o))
        /\ IsFiniteSet(Executions(o)) /\ Cardinality(Executions(o)) <= Cardinality(Claims(o))
    BY <2>2, FS_Subset DEF ClaimsInv
  <2>4. /\ Cardinality(Executions(o)) \in Nat /\ Cardinality(Claims(o)) \in Nat
        /\ Cardinality(Rows(o)) \in Nat
    BY <2>3, RowsFinite, FS_CardinalityType DEF IInv
  <2>5. QED
    BY <2>3, <2>4
<1>3. QED
  BY InitInv, InitClaims, <1>1, <1>2, PTL DEF Spec

-----------------------------------------------------------------------------
(***************************************************************************)
(* The checkers of a process are one goroutine, as those of cmd/server.    *)
(***************************************************************************)
OneChecker == \A c, d \in Checkers : c = d

(***************************************************************************)
(* Nobody else writes peak_price: what a pass still has to examine has the *)
(* peak that ListActive returned.                                          *)
(***************************************************************************)
PeakInv == \A c \in Checkers : \A o \in todo[c] : snap[c][o] = peak[o]

LEMMA InitPeak == Init => PeakInv
BY DEF Init, PeakInv

\* A price moves the peak of a rule one way only.
LEMMA NewPeakMoves ==
    ASSUME NEW r \in RequestType, NEW pk \in Nat, NEW price \in Nat, price > 0
    PROVE  IF r.type = "trailing_stop" /\ r.side = "buy"
           THEN pk # 0 => NewPeak(r, pk, price) # 0 /\ NewPeak(r, pk, price) <= pk
           ELSE NewPeak(r, pk, price) >= pk
<1>1. /\ r.type \in Types /\ r.side \in {"buy", "sell"}
  BY DEF RequestType, Sides
<1>2. QED
  BY <1>1 DEF NewPeak, Types

LEMMA StepPeak ==
    ASSUME OneChecker, IInv, PeakInv, [Next]_vars
    PROVE  PeakInv' /\ \A o \in Ids : PeakMoves(o)
<1>1. ASSUME UNCHANGED peak
      PROVE  \A o \in Ids : PeakMoves(o)
  BY <1>1 DEF PeakMoves, IInv, TypeOK
<1>2. ASSUME UNCHANGED <<peak, snap>>, \A c \in Checkers : todo'[c] \subseteq todo[c]
      PROVE  PeakInv' /\ \A o \in Ids : PeakMoves(o)
  BY <1>1, <1>2 DEF PeakInv
<1>3. ASSUME NEW c \in Checkers, ListActive(c)
      PROVE  PeakInv' /\ \A o \in Ids : PeakMoves(o)
  <2>1. snap' = [snap EXCEPT ![c] = peak] /\ peak' = peak
    BY <1>3 DEF ListActive, table
  <2>2. \A d \in Checkers : snap'[d] = peak
    BY <2>1 DEF OneChecker, IInv, TypeOK
  <2>3. QED
    BY <1>1, <2>1, <2>2 DEF PeakInv
<1>4. ASSUME NEW c \in Checkers, GetLivePrices(c) \/ Skip(c) \/ Credentials(c)
      PROVE  PeakInv' /\ \A o \in Ids : PeakMoves(o)
  BY <1>2, <1>4 DEF GetLivePrices, Skip, Credentials, table, IInv, TypeOK
<1>5. ASSUME NEW c \in Checkers, Leave(c)
      PROVE  PeakInv' /\ \A o \in Ids : PeakMoves(o)
  <2>1. \A d \in Checkers : todo'[d] = {}
    BY <1>5 DEF Leave, OneChecker, IInv, TypeOK
  <2>2. peak' = peak
    BY <1>5 DEF Leave, table
  <2>3. QED
    BY <1>1, <2>1, <2>2 DEF PeakInv
<1>6. ASSUME NEW c \in Checkers, NEW ok \in BOOLEAN, Examine(c, ok)
      PROVE  PeakInv' /\ \A o \in Ids : PeakMoves(o)
  <2> DEFINE price(o) == seen[c][req[o].symbol]
             pk(o)    == NewPeak(req[o], snap[c][o], price(o))
  <2>1. PICK o \in Heads(c) :
            /\ price(o) > 0
            /\ IF pk(o) # snap[c][o]
               THEN peak' = IF ok THEN [peak EXCEPT ![o] = pk(o)] ELSE peak
               ELSE peak' = peak
            /\ todo' = [todo EXCEPT ![c] = @ \ {o}]
    BY <1>6 DEF Examine
  <2>2. o \in todo[c] /\ o \in Ids /\ snap[c][o] = peak[o] /\ peak[o] \in Nat
    BY <2>1 DEF Heads, PeakInv, IInv, TypeOK
  <2>3. req[o] \in RequestType
    BY <2>2, RequestsAssumption DEF IInv, PassOK
  <2>4. price(o) \in Nat
    BY <2>3, PricesAssumption DEF RequestType, IInv, TypeOK
  <2>5. peak' = peak \/ peak' = [peak EXCEPT ![o] = NewPeak(req[o], peak[o], price(o))]
    BY <2>1, <2>2
  <2>6. \A p \in Ids : p # o => peak'[p] = peak[p]
    BY <2>5 DEF IInv, TypeOK
  <2>7. PeakMoves(o)
    <3>1. CASE peak' = peak
      BY <1>1, <2>2, <3>1
    <3>2. CASE peak'[o] = NewPeak(req[o], peak[o], price(o))
      <4>1. price(o) > 0
        BY <2>1
      <4> HIDE DEF price
      <4>2. QED
        BY <2>2, <2>3, <2>4, <3>2, <4>1, NewPeakMoves DEF PeakMoves
    <3>3. QED
      BY <2>2, <2>5, <3>1, <3>2 DEF IInv, TypeOK
  <2>8. ASSUME NEW p \in Ids
        PROVE  PeakMoves(p)
    <3>1. CASE p = o
      BY <2>7, <3>1
    <3>2. CASE p # o
      <4>1. peak'[p] = peak[p] /\ peak[p] \in Nat
        BY <2>6, <3>2 DEF IInv, TypeOK
      <4>2. QED
        BY <4>1 DEF PeakMoves
    <3>3. QED
      BY <3>1, <3>2
  <2>9. snap' = snap /\ \A d \in Checkers : todo'[d] = todo[d] \ {o}
    BY <1>6, <2>1 DEF Examine, OneChecker, IInv, TypeOK
  <2>10. PeakInv'
    BY <2>6, <2>9 DEF PeakInv, IInv, TypeOK
  <2>11. QED
    BY <2>8, <2>10
<1>7. ASSUME NEW c \in Checkers, NEW ok \in BOOLEAN, NEW accepted \in BOOLEAN,
             \/ CreateOrder(c, ok) \/ UpdateStatus(c, ok) \/ RejectOrder(c, ok)
             \/ MarkTriggered(c, ok) \/ MarkFailed(c, ok) \/ PlaceOrder(c, accepted, ok)
      PROVE  PeakInv' /\ \A o \in Ids : PeakMoves(o)
  <2>1. UNCHANGED <<peak, snap, todo>>
    BY <1>7 DEF CreateOrder, UpdateStatus, RejectOrder, MarkTriggered, MarkFailed, PlaceOrder, table
  <2>2. QED
    BY <1>2, <2>1
<1>8. ASSUME \/ \E o \in Ids : Cancel(o) \/ \E r \in Requests : Create(o, r)
             \/ \E s \in Symbols, p \in Prices \cup {0} : PriceMove(s, p)
             \/ Shutdown \/ UNCHANGED vars
      PROVE  PeakInv' /\ \A o \in Ids : PeakMoves(o)
  <2>1. UNCHANGED <<peak, snap, todo>>
    BY <1>8 DEF Cancel, Create, PriceMove, Shutdown, vars, table, local
  <2>2. QED
    BY <1>2, <2>1
<1>9. ASSUME Restart
      PROVE  PeakInv' /\ \A o \in Ids : PeakMoves(o)
  BY <1>1, <1>9 DEF Restart, PeakInv, table
<1>10. QED
  BY <1>3, <1>4, <1>5, <1>6, <1>7, <1>8, <1>9 DEF Next, Step

(***************************************************************************)
(* With one checker, peak_price moves one way only: up for a sell, down    *)
(* for a buy, whatever writes of it are lost, and across restarts.  (With  *)
(* two, the UpdatePeak of one may put back what the other has improved.)   *)
(***************************************************************************)
THEOREM PeakStaysExtreme == ASSUME OneChecker PROVE Spec => PeakIsExtreme
<1>1. OneChecker /\ IInv /\ PeakInv /\ [Next]_vars => PeakInv'
  BY StepPeak
<1>2. OneChecker /\ IInv /\ PeakInv /\ [Next]_vars => [\A o \in Ids : PeakMoves(o)]_vars
  BY StepPeak
<1>3. QED
  BY InductiveInv, InitPeak, <1>1, <1>2, OneChecker, PTL DEF Spec, PeakIsExtreme

(***************************************************************************)
(* One checker executes no smart order twice while nothing fails.  (Two    *)
(* checkers do: see the run smart_twice.)                                  *)
(***************************************************************************)
THEOREM OneCheckerExecutesOnce == ASSUME OneChecker PROVE Spec => []ExecutedOnce
<1>1. TypeOK /\ AtMostOncePerChecker => ExecutedOnce
  <2> SUFFICES ASSUME TypeOK, AtMostOncePerChecker, faults = 0, NEW o \in Ids,
                      NEW c \in Checkers, NEW d \in Checkers,
                      executed[<<o, c>>] > 0, executed[<<o, d>>] > 0
               PROVE  c = d /\ executed[<<o, c>>] = 1
    BY DEF ExecutedOnce
  <2>1. executed[<<o, c>>] \in Nat /\ executed[<<o, c>>] <= 1 + 0
    BY DEF TypeOK, AtMostOncePerChecker
  <2>2. c = d
    BY DEF OneChecker
  <2>3. QED
    BY <2>1, <2>2
<1>2. QED
  BY TypeCorrect, OncePerChecker, <1>1, PTL

-----------------------------------------------------------------------------
(***************************************************************************)
(* One checker, as cmd/server runs it, implements OneShot, for any orders, *)
(* requests and prices: every step of SmartOrders is a step of the promise *)
(* or changes nothing of it.                                               *)
(***************************************************************************)

(***************************************************************************)
(* Until something fails, what is on the checker's list is active or has   *)
(* just been cancelled, and the order it executes has left the list.       *)
(***************************************************************************)
ListInv(c) ==
    faults = 0 =>
        /\ ~stopping
        /\ pc[c] = "idle" => todo[c] = {}
        /\ cur[c] # 0 => pc[c] \in Executing /\ cur[c] \notin todo[c]
        /\ \A o \in todo[c] : status[o] \in {"active", "cancelled"}

(***************************************************************************)
(* Life of an order when there is one checker.                             *)
(***************************************************************************)
LifeOf(c, o) ==
    IF cur[c] = o THEN IF pc[c] \in {"record", "mark"} THEN "triggered" ELSE "executing"
    ELSE IF o \in todo[c] /\ status[o] = "cancelled" THEN "active" ELSE status[o]

LEMMA LifeIs ==
    ASSUME NEW c, Checkers = {c}, NEW o \in Ids
    PROVE  Life(o) = LifeOf(c, o) /\ Life(o)' = LifeOf(c, o)'
<1>1. Life(o) = LifeOf(c, o)
  BY DEF Life, LifeOf
<1>2. Life(o)' = LifeOf(c, o)'
  BY DEF Life, LifeOf
<1>3. QED
  BY <1>1, <1>2

LEMMA InitList == ASSUME NEW c, Checkers = {c} PROVE Init => ListInv(c)
BY DEF Init, ListInv

LEMMA FaultsGrow ==
    ASSUME IInv, [Next]_vars
    PROVE  faults \in Nat /\ faults' \in Nat /\ (faults' = 0 => faults = 0)
<1>1. faults \in Nat /\ faults' \in Nat
  BY StepType, BoundsAssumption DEF IInv, TypeOK
<1>2. ASSUME NEW ok \in BOOLEAN, Write(ok)
      PROVE  faults' \in {faults, faults + 1}
  BY <1>2 DEF Write
<1>3. ASSUME NEW c \in Checkers, Step(c)
      PROVE  faults' \in {faults, faults + 1}
  <2>1. CASE ListActive(c) \/ GetLivePrices(c) \/ Leave(c) \/ Skip(c) \/ Credentials(c)
    BY <2>1 DEF ListActive, GetLivePrices, Leave, Skip, Credentials
  <2>2. ASSUME NEW ok \in BOOLEAN, Examine(c, ok)
        PROVE  faults' \in {faults, faults + 1}
    BY <2>2, <1>2 DEF Examine
  <2>3. ASSUME NEW ok \in BOOLEAN,
               CreateOrder(c, ok) \/ UpdateStatus(c, ok) \/ MarkTriggered(c, ok)
                   \/ RejectOrder(c, ok) \/ MarkFailed(c, ok)
        PROVE  faults' \in {faults, faults + 1}
    BY <2>3, <1>2 DEF CreateOrder, UpdateStatus, MarkTriggered, RejectOrder, MarkFailed
  <2>4. ASSUME NEW ok \in BOOLEAN, NEW accepted \in BOOLEAN, PlaceOrder(c, accepted, ok)
        PROVE  faults' \in {faults, faults + 1}
    BY <2>4 DEF PlaceOrder
  <2>5. QED
    BY <1>3, <2>1, <2>2, <2>3, <2>4 DEF Step
<1>4. ASSUME NEW o \in Ids, Cancel(o) \/ \E r \in Requests : Create(o, r)
      PROVE  faults' = faults
  BY <1>4 DEF Cancel, Create
<1>5. ASSUME NEW s \in Symbols, NEW p \in Prices \cup {0}, PriceMove(s, p)
      PROVE  faults' = faults
  BY <1>5 DEF PriceMove
<1>6. ASSUME Shutdown \/ Restart
      PROVE  faults' \in {faults, faults + 1}
  BY <1>6 DEF Shutdown, Restart
<1>7. ASSUME UNCHANGED vars
      PROVE  faults' = faults
  BY <1>7 DEF vars
<1>8. faults' \in {faults, faults + 1}
  BY <1>3, <1>4, <1>5, <1>6, <1>7 DEF Next
<1>9. QED
  BY <1>1, <1>8

(***************************************************************************)
(* A write that costs no failure has happened.                             *)
(***************************************************************************)
LEMMA WriteDone ==
    ASSUME IInv, NEW ok \in BOOLEAN, Write(ok), faults = 0, faults' = 0
    PROVE  ok = TRUE
BY DEF Write
(***************************************************************************)
(* ListInv is inductive.                                                   *)
(***************************************************************************)
LEMMA StepList ==
    ASSUME NEW c, Checkers = {c}, IInv, ListInv(c), [Next]_vars
    PROVE  ListInv(c)'
<1> SUFFICES ASSUME faults' = 0
             PROVE  /\ ~stopping'
                    /\ pc'[c] = "idle" => todo'[c] = {}
                    /\ cur'[c] # 0 => pc'[c] \in Executing /\ cur'[c] \notin todo'[c]
                    /\ \A o \in todo'[c] : status'[o] \in {"active", "cancelled"}
  BY DEF ListInv
<1> DEFINE Goal == /\ ~stopping'
                   /\ pc'[c] = "idle" => todo'[c] = {}
                   /\ cur'[c] # 0 => pc'[c] \in Executing /\ cur'[c] \notin todo'[c]
                   /\ \A o \in todo'[c] : status'[o] \in {"active", "cancelled"}
<1>0. faults = 0 /\ c \in Checkers
  BY FaultsGrow
<1> USE <1>0, IdsAssumption
<1>1. ASSUME NEW o \in Ids, NEW r \in Requests, Create(o, r)
      PROVE  Goal
  BY <1>1 DEF Create, env, local, ListInv, IInv, TypeOK, PassOK, Executing, Steps, Statuses
<1>2. ASSUME NEW o \in Ids, Cancel(o)
      PROVE  Goal
  BY <1>2 DEF Cancel, env, local, ListInv, IInv, TypeOK, PassOK, Executing, Steps, Statuses
<1>3. ASSUME NEW s \in Symbols, NEW p \in Prices \cup {0}, PriceMove(s, p)
      PROVE  Goal
  BY <1>3 DEF PriceMove, table, local, ListInv, IInv, TypeOK, PassOK, Executing, Steps, Statuses
<1>4. ASSUME ListActive(c)
      PROVE  Goal
  BY <1>4 DEF ListActive, table, env, ListInv, IInv, TypeOK, PassOK, Executing, Steps, Statuses
<1>5. ASSUME GetLivePrices(c)
      PROVE  Goal
  BY <1>5 DEF GetLivePrices, table, env, ListInv, IInv, TypeOK, PassOK, Executing, Steps, Statuses
<1>6. ASSUME Leave(c)
      PROVE  Goal
  BY <1>6 DEF Leave, table, env, ListInv, IInv, TypeOK, PassOK, Executing, Steps, Statuses
<1>7. ASSUME Skip(c)
      PROVE  Goal
  BY <1>7 DEF Skip, Heads, table, env, ListInv, IInv, TypeOK, PassOK, Executing, Steps, Statuses
<1>8. ASSUME NEW ok \in BOOLEAN, Examine(c, ok)
      PROVE  Goal
  BY <1>8 DEF Examine, Heads, env, ListInv, IInv, TypeOK, PassOK, Executing, Steps, Statuses
<1>9. ASSUME Credentials(c)
      PROVE  Goal
  BY <1>9 DEF Credentials, table, env, ListInv, IInv, TypeOK, PassOK, Executing, Steps, Statuses
<1>10. ASSUME NEW ok \in BOOLEAN, CreateOrder(c, ok)
      PROVE  Goal
  BY <1>10 DEF CreateOrder, table, env, ListInv, IInv, TypeOK, PassOK, Executing, Steps, Statuses
<1>11. ASSUME NEW accepted \in BOOLEAN, NEW ok \in BOOLEAN, PlaceOrder(c, accepted, ok)
      PROVE  Goal
  BY <1>11 DEF PlaceOrder, table, env, ListInv, IInv, TypeOK, PassOK, Executing, Steps, Statuses
<1>12. ASSUME NEW ok \in BOOLEAN, UpdateStatus(c, ok)
      PROVE  Goal
  BY <1>12 DEF UpdateStatus, table, env, ListInv, IInv, TypeOK, PassOK, Executing, Steps, Statuses
<1>13. ASSUME NEW ok \in BOOLEAN, MarkTriggered(c, ok)
      PROVE  Goal
  BY <1>13 DEF MarkTriggered, Return, env, ListInv, IInv, TypeOK, PassOK, Executing, Steps, Statuses
<1>14. ASSUME NEW ok \in BOOLEAN, RejectOrder(c, ok)
      PROVE  Goal
  BY <1>14 DEF RejectOrder, table, env, ListInv, IInv, TypeOK, PassOK, Executing, Steps, Statuses
<1>15. ASSUME NEW ok \in BOOLEAN, MarkFailed(c, ok)
      PROVE  Goal
  BY <1>15 DEF MarkFailed, Return, env, ListInv, IInv, TypeOK, PassOK, Executing, Steps, Statuses
<1>16. ASSUME Shutdown \/ Restart
      PROVE  Goal
  BY <1>16 DEF Shutdown, Restart, ListInv, IInv, TypeOK, PassOK, Executing, Steps, Statuses
<1>17. ASSUME UNCHANGED vars
      PROVE  Goal
  BY <1>17 DEF vars, table, env, local, ListInv, IInv, TypeOK, PassOK, Executing, Steps, Statuses
<1>18. QED
  BY <1>1, <1>2, <1>3, <1>4, <1>5, <1>6, <1>7, <1>8, <1>9, <1>10, <1>11, <1>12, <1>13, <1>14, <1>15, <1>16, <1>17 DEF Next, Step
(***************************************************************************)
(* Steps of the promise, told by what happens to the lives of the orders.  *)
(***************************************************************************)
Still == faults = 0 /\ faults' = 0

LEMMA Stutters ==
    ASSUME Still, executed' = executed, \A o \in Ids : Life(o)' = Life(o)
    PROVE  UNCHANGED Promise!vars
BY DEF Still, Promise!vars

LEMMA Moves ==
    ASSUME NEW o \in Ids, NEW from, NEW to, Life(o) = from, Life(o)' = to,
           \A p \in Ids \ {o} : Life(p)' = Life(p)
    PROVE  Promise!Becomes(o, from, to)
BY DEF Promise!Becomes

LEMMA NextOf ==
    ASSUME Still, NEW o \in Ids,
           \/ Promise!Create(o) \/ Promise!Cancel(o) \/ Promise!Execute(o) \/ Promise!Fail(o)
           \/ \E a \in Checkers : Promise!Trigger(o, a)
    PROVE  Promise!Next
BY DEF Still, Promise!Next

LEMMA Failing ==
    ASSUME faults' \in Nat, faults' # 0
    PROVE  Promise!Next
BY DEF Promise!Next

(***************************************************************************)
(* Every step of a system with one checker, no answer of whose exchange is *)
(* lost, is a step of the promise or leaves it alone.                      *)
(***************************************************************************)
LEMMA StepPromise ==
    ASSUME NEW c, Checkers = {c}, LostReplies = FALSE, IInv, ListInv(c), [Next]_vars
    PROVE  [Promise!Next]_(Promise!vars)
<1> DEFINE Goal == [Promise!Next]_(Promise!vars)
<1> SUFFICES ASSUME faults' = 0 PROVE Goal
  BY FaultsGrow, Failing
<1>0. Still /\ c \in Checkers
  BY FaultsGrow DEF Still
<1> USE IdsAssumption
<1>a. \A o \in Ids : Life(o) = LifeOf(c, o) /\ Life(o)' = LifeOf(c, o)'
  BY LifeIs
<1>b. ASSUME executed' = executed, \A o \in Ids : LifeOf(c, o)' = LifeOf(c, o)
      PROVE  Goal
  BY <1>0, <1>a, <1>b, Stutters
<1>c. ASSUME NEW o \in Ids, NEW from, NEW to, LifeOf(c, o) = from, LifeOf(c, o)' = to,
             \A p \in Ids \ {o} : LifeOf(c, p)' = LifeOf(c, p)
      PROVE  Promise!Becomes(o, from, to)
  BY <1>a, <1>c, Moves
<1>d. ASSUME NEW o \in Ids,
             \/ Promise!Create(o) \/ Promise!Cancel(o) \/ Promise!Execute(o) \/ Promise!Fail(o)
             \/ \E x \in Checkers : Promise!Trigger(o, x)
      PROVE  Goal
  BY <1>0, <1>d, NextOf
<1> HIDE DEF Goal
<1>1. ASSUME NEW o \in Ids, NEW r \in Requests, Create(o, r)
      PROVE  Goal
  <2>1. /\ LifeOf(c, o) = "none" /\ LifeOf(c, o)' = "active" /\ executed' = executed
        /\ \A p \in Ids \ {o} : LifeOf(c, p)' = LifeOf(c, p)
    BY <1>0, <1>1 DEF Still, Create, local, ListInv, IInv, TypeOK, PassOK, Executing, LifeOf
  <2>2. Promise!Create(o)
    BY <1>c, <2>1 DEF Promise!Create
  <2>3. QED
    BY <1>d, <2>2
<1>2. ASSUME NEW o \in Ids, Cancel(o)
      PROVE  Goal
  <2>0. /\ executed' = executed /\ \A p \in Ids \ {o} : LifeOf(c, p)' = LifeOf(c, p)
    BY <1>0, <1>2 DEF Still, Cancel, local, ListInv, IInv, TypeOK, PassOK, Executing, LifeOf
  <2>1. CASE cur[c] = o \/ o \in todo[c]
    <3>1. LifeOf(c, o)' = LifeOf(c, o)
      BY <1>0, <1>2, <2>1 DEF Still, Cancel, local, ListInv, IInv, TypeOK, PassOK, Executing, LifeOf
    <3>2. QED
      BY <1>b, <2>0, <3>1
  <2>2. CASE ~(cur[c] = o \/ o \in todo[c])
    <3>1. LifeOf(c, o) = "active" /\ LifeOf(c, o)' = "cancelled"
      BY <1>0, <1>2, <2>2 DEF Still, Cancel, local, ListInv, IInv, TypeOK, PassOK, Executing, LifeOf
    <3>2. Promise!Cancel(o)
      BY <1>c, <2>0, <3>1 DEF Promise!Cancel
    <3>3. QED
      BY <1>d, <3>2
  <2>3. QED
    BY <2>1, <2>2
<1>3. ASSUME NEW s \in Symbols, NEW p \in Prices \cup {0}, PriceMove(s, p)
      PROVE  Goal
  BY <1>b, <1>3 DEF PriceMove, table, local, LifeOf
<1>4. ASSUME ListActive(c)
      PROVE  Goal
  <2>1. executed' = executed /\ \A o \in Ids : LifeOf(c, o)' = LifeOf(c, o)
    BY <1>0, <1>4 DEF Still, ListActive, table, ListInv, IInv, TypeOK, PassOK, Executing, LifeOf
  <2>2. QED
    BY <1>b, <2>1
<1>5. ASSUME GetLivePrices(c)
      PROVE  Goal
  <2>1. executed' = executed /\ \A o \in Ids : LifeOf(c, o)' = LifeOf(c, o)
    BY <1>0, <1>5 DEF Still, GetLivePrices, table, ListInv, IInv, TypeOK, PassOK, Executing, LifeOf
  <2>2. QED
    BY <1>b, <2>1
<1>6. ASSUME Leave(c)
      PROVE  Goal
  <2>1. executed' = executed /\ \A o \in Ids : LifeOf(c, o)' = LifeOf(c, o)
    BY <1>0, <1>6 DEF Still, Leave, table, ListInv, IInv, TypeOK, PassOK, Executing, LifeOf
  <2>2. QED
    BY <1>b, <2>1
<1>p. ASSUME NEW o \in todo[c], pc[c] = "loop", pc'[c] = "loop", cur'[c] = 0,
             executed' = executed, status' = status, todo'[c] = todo[c] \ {o}
      PROVE  Goal
  <2>1. o \in Ids /\ cur[c] = 0
    BY <1>0, <1>p DEF Still, ListInv, IInv, TypeOK, PassOK, Executing, LifeOf
  <2>2. \A p \in Ids \ {o} : LifeOf(c, p)' = LifeOf(c, p)
    BY <1>0, <1>p, <2>1 DEF LifeOf
  <2>3. CASE status[o] = "cancelled"
    <3>1. LifeOf(c, o) = "active" /\ LifeOf(c, o)' = "cancelled"
      BY <1>p, <2>1, <2>3 DEF LifeOf
    <3>2. Promise!Cancel(o)
      BY <1>c, <1>p, <2>1, <2>2, <3>1 DEF Promise!Cancel
    <3>3. QED
      BY <1>d, <2>1, <3>2
  <2>4. CASE status[o] # "cancelled"
    <3>1. LifeOf(c, o)' = LifeOf(c, o)
      BY <1>p, <2>1, <2>4 DEF LifeOf
    <3>2. QED
      BY <1>b, <1>p, <2>2, <3>1
  <2>5. QED
    BY <2>3, <2>4
<1>7. ASSUME Skip(c)
      PROVE  Goal
  <2>1. PICK o \in Heads(c) : todo' = [todo EXCEPT ![c] = @ \ {o}]
    BY <1>7 DEF Skip
  <2>2. /\ o \in todo[c] /\ pc[c] = "loop" /\ pc'[c] = "loop" /\ todo'[c] = todo[c] \ {o}
        /\ cur'[c] = 0 /\ executed' = executed /\ status' = status
    BY <1>0, <1>7, <2>1 DEF Still, Skip, Heads, table, ListInv, IInv, TypeOK, PassOK, Executing, LifeOf
  <2>3. QED
    BY <1>p, <2>2
<1>8. ASSUME NEW ok \in BOOLEAN, Examine(c, ok)
      PROVE  Goal
  <2>1. PICK o \in Heads(c) : Examine(c, ok)!2!(o)
    BY <1>8 DEF Examine
  <2>2. /\ o \in todo[c] /\ o \in Ids /\ pc[c] = "loop" /\ todo'[c] = todo[c] \ {o}
        /\ executed' = executed /\ status' = status /\ cur[c] = 0
        /\ \/ pc'[c] = "creds" /\ cur'[c] = o
           \/ pc'[c] = "loop" /\ cur'[c] = 0
    BY <1>0, <1>8, <2>1 DEF Still, Examine, Heads, env, ListInv, IInv, TypeOK, PassOK, Executing, LifeOf
  <2>3. CASE pc'[c] = "creds" /\ cur'[c] = o
    <3>1. LifeOf(c, o) = "active"
      BY <1>0, <2>2 DEF Still, ListInv, LifeOf
    <3>2. LifeOf(c, o)' = "executing" /\ \A p \in Ids \ {o} : LifeOf(c, p)' = LifeOf(c, p)
      BY <2>2, <2>3 DEF LifeOf
    <3>3. Promise!Execute(o)
      BY <1>c, <2>2, <3>1, <3>2 DEF Promise!Execute
    <3>4. QED
      BY <1>d, <2>2, <3>3
  <2>4. CASE pc'[c] = "loop" /\ cur'[c] = 0
    BY <1>p, <2>2, <2>4
  <2>5. QED
    BY <2>2, <2>3, <2>4
<1>9. ASSUME Credentials(c)
      PROVE  Goal
  <2>1. executed' = executed /\ \A o \in Ids : LifeOf(c, o)' = LifeOf(c, o)
    BY <1>0, <1>9 DEF Still, Credentials, table, ListInv, IInv, TypeOK, PassOK, Executing, LifeOf
  <2>2. QED
    BY <1>b, <2>1
<1>10. ASSUME NEW ok \in BOOLEAN, CreateOrder(c, ok)
      PROVE  Goal
  <2>1. executed' = executed /\ \A o \in Ids : LifeOf(c, o)' = LifeOf(c, o)
    BY <1>0, <1>10 DEF Still, CreateOrder, table, ListInv, IInv, TypeOK, PassOK, Executing, LifeOf
  <2>2. QED
    BY <1>b, <2>1
<1>11. ASSUME NEW accepted \in BOOLEAN, NEW ok \in BOOLEAN, PlaceOrder(c, accepted, ok)
      PROVE  Goal
  <2>1. accepted = ok /\ pc[c] = "place"
    BY <1>0, <1>11 DEF PlaceOrder
  <2>o. PICK o \in Ids : o = cur[c]
    BY <1>0, <1>11 DEF PlaceOrder, IInv, PassOK, Executing
  <2>2. CASE ok
    <3>1. /\ LifeOf(c, o) = "executing" /\ LifeOf(c, o)' = "triggered"
          /\ \A p \in Ids \ {o} : LifeOf(c, p)' = LifeOf(c, p)
      BY <1>0, <1>11, <2>o, <2>1, <2>2 DEF PlaceOrder, table, ListInv, IInv, TypeOK, PassOK, Executing, LifeOf
    <3>2. executed' = [executed EXCEPT ![<<o, c>>] = @ + 1]
      BY <1>11, <2>o, <2>1, <2>2 DEF PlaceOrder
    <3>3. Promise!Trigger(o, c)
      BY <1>c, <3>1, <3>2 DEF Promise!Trigger
    <3>4. QED
      BY <1>0, <1>d, <3>3
  <2>3. CASE ~ok
    <3>1. executed' = executed /\ \A p \in Ids : LifeOf(c, p)' = LifeOf(c, p)
      BY <1>0, <1>11, <2>1, <2>3 DEF PlaceOrder, table, ListInv, IInv, TypeOK, PassOK, Executing, LifeOf
    <3>2. QED
      BY <1>b, <3>1
  <2>4. QED
    BY <2>2, <2>3
<1>12. ASSUME NEW ok \in BOOLEAN, UpdateStatus(c, ok)
      PROVE  Goal
  <2>1. executed' = executed /\ \A o \in Ids : LifeOf(c, o)' = LifeOf(c, o)
    BY <1>0, <1>12 DEF Still, UpdateStatus, table, ListInv, IInv, TypeOK, PassOK, Executing, LifeOf
  <2>2. QED
    BY <1>b, <2>1
<1>13. ASSUME NEW ok \in BOOLEAN, MarkTriggered(c, ok)
      PROVE  Goal
  <2>1. ok = TRUE
    BY <1>0, <1>13, WriteDone DEF Still, MarkTriggered
  <2>2. executed' = executed /\ \A o \in Ids : LifeOf(c, o)' = LifeOf(c, o)
    BY <1>0, <1>13, <2>1 DEF Still, MarkTriggered, Return, ListInv, IInv, TypeOK, PassOK, Executing, LifeOf
  <2>3. QED
    BY <1>b, <2>2
<1>14. ASSUME NEW ok \in BOOLEAN, RejectOrder(c, ok)
      PROVE  Goal
  <2>1. executed' = executed /\ \A o \in Ids : LifeOf(c, o)' = LifeOf(c, o)
    BY <1>0, <1>14 DEF Still, RejectOrder, table, ListInv, IInv, TypeOK, PassOK, Executing, LifeOf
  <2>2. QED
    BY <1>b, <2>1
<1>15. ASSUME NEW ok \in BOOLEAN, MarkFailed(c, ok)
      PROVE  Goal
  <2>1. ok = TRUE
    BY <1>0, <1>15, WriteDone DEF Still, MarkFailed
  <2>o. PICK o \in Ids : o = cur[c]
    BY <1>0, <1>15 DEF MarkFailed, IInv, PassOK, Executing
  <2>2. /\ executed' = executed
        /\ LifeOf(c, o) = "executing" /\ LifeOf(c, o)' = "failed"
        /\ \A p \in Ids \ {o} : LifeOf(c, p)' = LifeOf(c, p)
    BY <1>0, <1>15, <2>1, <2>o DEF Still, MarkFailed, Return, ListInv, IInv, TypeOK, PassOK, Executing, LifeOf
  <2>3. Promise!Fail(o)
    BY <1>c, <2>2 DEF Promise!Fail
  <2>4. QED
    BY <1>d, <2>3
<1>16. ASSUME Shutdown \/ Restart
      PROVE  Goal
  BY <1>0, <1>16 DEF Still, Shutdown, Restart, ListInv
<1>17. CASE UNCHANGED vars
  BY <1>b, <1>17 DEF vars, table, local, LifeOf
<1>18. QED
  BY <1>1, <1>2, <1>3, <1>4, <1>5, <1>6, <1>7, <1>8, <1>9, <1>10, <1>11, <1>12, <1>13,
     <1>14, <1>15, <1>16, <1>17 DEF Next, Step, Goal

(***************************************************************************)
(* With one checker, smart orders keep the promise of OneShot: at most one *)
(* market order each while nothing fails, and a status that tells whether  *)
(* there is one.                                                           *)
(***************************************************************************)
THEOREM OneCheckerKeepsPromise ==
    ASSUME NEW c, Checkers = {c}, LostReplies = FALSE
    PROVE  Spec => KeepsPromise
<1>1. Init => Promise!Init
  <2> SUFFICES ASSUME Init PROVE Promise!Init
    OBVIOUS
  <2>1. ASSUME NEW o \in Ids PROVE Life(o) = "none"
    <3>1. LifeOf(c, o) = "none"
      BY IdsAssumption DEF Init, LifeOf
    <3>2. QED
      BY <3>1, LifeIs
  <2>2. [o \in Ids |-> Life(o)] = [o \in Ids |-> "none"]
    BY <2>1
  <2>3. (faults > 0) = FALSE
    BY DEF Init
  <2>4. QED
    BY <2>2, <2>3 DEF Init, Promise!Init
<1>2. Init => ListInv(c)
  BY InitList
<1>3. IInv /\ ListInv(c) /\ [Next]_vars => (IInv /\ ListInv(c))'
  BY StepType, StepPass, StepList DEF IInv
<1>4. IInv /\ ListInv(c) /\ [Next]_vars => [Promise!Next]_(Promise!vars)
  BY StepPromise
<1>5. QED
  BY InitInv, <1>1, <1>2, <1>3, <1>4, PTL DEF Spec, KeepsPromise, Promise!Spec

-----------------------------------------------------------------------------
(***************************************************************************)
(* What the promise of OneShot amounts to.  While nothing has failed, an   *)
(* order that is not triggered has no market order, and a triggered one    *)
(* has exactly one.  The steps of the proof are those of OneShot.          *)
(***************************************************************************)
None(o) == Life(o) # "triggered" /\ \A a \in Checkers : executed[<<o, a>>] = 0
One(o)  == \E a \in Checkers : /\ Life(o) = "triggered" /\ executed[<<o, a>>] = 1
                               /\ \A b \in Checkers \ {a} : executed[<<o, b>>] = 0

ToldInv == faults = 0 => \A o \in Ids : None(o) \/ One(o)

LEMMA LivesOf ==
    ASSUME NEW o \in Ids, NEW from, NEW to, Promise!Becomes(o, from, to)
    PROVE  /\ Life(o) = from /\ Life(o)' = to
           /\ \A p \in Ids \ {o} : Life(p)' = Life(p)
<1> DEFINE lives == [p \in Ids |-> Life(p)]
<1>1. lives[o] = from /\ lives' = [lives EXCEPT ![o] = to]
  BY DEF Promise!Becomes
<1>2. \A p \in Ids : lives[p] = Life(p) /\ (lives')[p] = Life(p)' /\ DOMAIN lives = Ids
  OBVIOUS
<1> HIDE DEF lives
<1>3. QED
  BY <1>1, <1>2

LEMMA InitTold == Promise!Init => ToldInv
<1> SUFFICES ASSUME Promise!Init, NEW o \in Ids PROVE None(o)
  BY DEF ToldInv
<1>1. [p \in Ids |-> Life(p)] = [p \in Ids |-> "none"]
  BY DEF Promise!Init
<1>2. Life(o) = [p \in Ids |-> Life(p)][o]
  OBVIOUS
<1>3. Life(o) = "none"
  BY <1>1, <1>2
<1>4. ASSUME NEW a \in Checkers PROVE executed[<<o, a>>] = 0
  BY DEF Promise!Init
<1>5. QED
  BY <1>3, <1>4 DEF None

(***************************************************************************)
(* A step that places nothing and neither reaches nor leaves "triggered".  *)
(***************************************************************************)
LEMMA QuietStep ==
    ASSUME ToldInv, faults = 0, NEW o \in Ids, NEW from, NEW to,
           from # "triggered", to # "triggered", Promise!Becomes(o, from, to), executed' = executed
    PROVE  ToldInv'
<1>1. /\ Life(o) = from /\ Life(o)' = to
      /\ \A p \in Ids \ {o} : Life(p)' = Life(p)
  BY LivesOf
<1>2. ASSUME NEW p \in Ids
      PROVE  (None(p) \/ One(p))'
  <2>1. None(p) \/ One(p)
    BY DEF ToldInv
  <2>2. CASE p = o
    BY <1>1, <2>1, <2>2 DEF None, One
  <2>3. CASE p # o
    BY <1>1, <2>1, <2>3 DEF None, One
  <2>4. QED
    BY <2>2, <2>3
<1>3. QED
  BY <1>2 DEF ToldInv

LEMMA TriggerStep ==
    ASSUME TypeOK, ToldInv, faults = 0, NEW o \in Ids, NEW a \in Checkers, Promise!Trigger(o, a)
    PROVE  ToldInv'
<1>1. Promise!Becomes(o, "executing", "triggered")
  BY DEF Promise!Trigger
<1>2. /\ Life(o) = "executing" /\ Life(o)' = "triggered"
      /\ \A p \in Ids \ {o} : Life(p)' = Life(p)
  BY <1>1, LivesOf
<1>3. executed' = [executed EXCEPT ![<<o, a>>] = @ + 1] /\ executed \in [Ids \X Checkers -> Nat]
  BY DEF Promise!Trigger, TypeOK
<1>4. None(o)
  BY <1>2 DEF ToldInv, One
<1>5. ASSUME NEW p \in Ids
      PROVE  (None(p) \/ One(p))'
  <2>1. CASE p = o
    <3>1. executed'[<<o, a>>] = 1 /\ \A b \in Checkers \ {a} : executed'[<<o, b>>] = 0
      BY <1>3, <1>4 DEF None
    <3>2. QED
      BY <1>2, <2>1, <3>1 DEF One
  <2>2. CASE p # o
    <3>1. Life(p)' = Life(p) /\ \A b \in Checkers : executed'[<<p, b>>] = executed[<<p, b>>]
      BY <1>2, <1>3, <2>2
    <3>2. None(p) \/ One(p)
      BY DEF ToldInv
    <3>3. QED
      BY <3>1, <3>2 DEF None, One
  <2>3. QED
    BY <2>1, <2>2
<1>6. QED
  BY <1>5 DEF ToldInv

LEMMA StepTold ==
    ASSUME TypeOK, TypeOK', ToldInv, [Promise!Next]_(Promise!vars)
    PROVE  ToldInv'
<1>0. faults \in Nat /\ faults' \in Nat
  BY BoundsAssumption DEF TypeOK
<1>1. CASE faults' # 0
  BY <1>1 DEF ToldInv
<1>2. ASSUME faults = 0, NEW o \in Ids,
             Promise!Create(o) \/ Promise!Cancel(o) \/ Promise!Execute(o) \/ Promise!Fail(o)
      PROVE  ToldInv'
  <2>1. executed' = executed
    BY <1>2 DEF Promise!Create, Promise!Cancel, Promise!Execute, Promise!Fail
  <2>2. PICK from, to : from # "triggered" /\ to # "triggered" /\ Promise!Becomes(o, from, to)
    BY <1>2 DEF Promise!Create, Promise!Cancel, Promise!Execute, Promise!Fail
  <2>3. QED
    BY <1>2, <2>1, <2>2, QuietStep
<1>3. ASSUME faults = 0, NEW o \in Ids, NEW a \in Checkers, Promise!Trigger(o, a)
      PROVE  ToldInv'
  BY <1>3, TriggerStep
<1>4. CASE UNCHANGED Promise!vars
  <2>1. /\ [p \in Ids |-> Life(p)]' = [p \in Ids |-> Life(p)]
        /\ executed' = executed /\ (faults > 0)' = (faults > 0)
    BY <1>4 DEF Promise!vars
  <2>2. ASSUME NEW o \in Ids PROVE Life(o)' = Life(o)
    <3>1. [p \in Ids |-> Life(p)][o] = Life(o) /\ ([p \in Ids |-> Life(p)]')[o] = Life(o)'
      OBVIOUS
    <3>2. QED
      BY <2>1, <3>1
  <2>3. faults' = 0 => faults = 0
    BY <1>0, <2>1
  <2>4. QED
    BY <2>1, <2>2, <2>3 DEF ToldInv, None, One
<1>5. CASE Promise!Next /\ faults' = 0
  <2>1. ~((faults > 0)' = TRUE)
    BY <1>0, <1>5
  <2>2. ~(faults > 0)
    BY <1>5, <2>1 DEF Promise!Next
  <2>3. faults = 0
    BY <1>0, <2>2
  <2>4. QED
    BY <1>2, <1>3, <1>5, <2>1, <2>3 DEF Promise!Next
<1>6. QED
  BY <1>1, <1>4, <1>5

(***************************************************************************)
(* With one checker, no smart order has two market orders while nothing    *)
(* fails, and its life tells whether it has one: the handlers' answers and *)
(* the triggered_order_id column rely on that.                             *)
(***************************************************************************)
THEOREM OneCheckerTells ==
    ASSUME NEW c, Checkers = {c}, LostReplies = FALSE
    PROVE  Spec => []Promise!OutcomeTold
<1>1. Spec => KeepsPromise
  BY OneCheckerKeepsPromise
<1>2. TypeOK /\ TypeOK' /\ ToldInv /\ [Promise!Next]_(Promise!vars) => ToldInv'
  BY StepTold
<1>3. TypeOK /\ ToldInv => Promise!OutcomeTold
  <2> SUFFICES ASSUME TypeOK, ToldInv, faults = 0 PROVE Promise!OutcomeTold
    BY BoundsAssumption DEF TypeOK, Promise!OutcomeTold
  <2>1. \A o \in Ids : None(o) \/ One(o)
    BY DEF ToldInv
  <2>2. ASSUME NEW o \in Ids, NEW a \in Checkers, executed[<<o, a>>] > 0
        PROVE  /\ Life(o) = "triggered" /\ executed[<<o, a>>] = 1
               /\ \A b \in Checkers \ {a} : executed[<<o, b>>] = 0
    <3>1. One(o)
      BY <2>1, <2>2 DEF None
    <3>2. PICK x \in Checkers : /\ Life(o) = "triggered" /\ executed[<<o, x>>] = 1
                                /\ \A b \in Checkers \ {x} : executed[<<o, b>>] = 0
      BY <3>1 DEF One
    <3>3. x = a
      BY <2>2, <3>2
    <3>4. QED
      BY <3>2, <3>3
  <2>3. ASSUME NEW o \in Ids, Life(o) = "triggered"
        PROVE  \E a \in Checkers : executed[<<o, a>>] = 1
    BY <2>1, <2>3 DEF None, One
  <2>4. QED
    BY <2>2, <2>3 DEF Promise!OutcomeTold
<1>4. QED
  BY <1>1, <1>2, <1>3, InitTold, TypeCorrect, PTL DEF KeepsPromise, Promise!Spec
=============================================================================
