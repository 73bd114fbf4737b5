------------------------- MODULE PositionSyncProofs -------------------------
(***************************************************************************)
(* Proofs about PositionSync, for any exchange, keys, syncs and bounds:    *)
(* types, the comments of trades, the rows of open positions, and the      *)
(* comments of the rows that are deleted.                                  *)
(***************************************************************************)
EXTENDS PositionSync, SequenceTheorems, FiniteSetTheorems, WellFoundedInduction, TLAPS

(***************************************************************************)
(* The parts of TypeOK, and what each needs to be inductive: a position is *)
(* closed once; what a sync has to write has been told it, that is a trade *)
(* that is in the list of closings, or a position that was opened.         *)
(***************************************************************************)
ExchangeOK ==
    /\ ex \in Used
    /\ count \in [Keys -> Opens] /\ open \in [Keys -> Opens]
    /\ \A k \in Keys : open[k] \in {0, count[k]}
    /\ closings \in Seq(Trades)
    /\ \A i, j \in DOMAIN closings : closings[i] = closings[j] => i = j
    /\ Closed = {t \in Trades : t[2] <= count[t[1]] /\ t[2] # open[t[1]]}
    /\ IsFiniteSet(Closed) /\ Len(closings) = Cardinality(Closed)

RowOK ==
    /\ row \in [Keys -> [n : Opens, com : Opens]]
    /\ \A k \in Keys : row[k].com <= count[k] /\ row[k].n <= count[k]
    /\ \A k \in Keys : row[k].n = 0 => row[k] = NoRow

HistOK ==
    /\ hist \in [Trades -> [in : BOOLEAN, com : Trades \cup {None}, mar : BOOLEAN]]
    /\ \A t \in Trades : IF hist[t].in THEN t \in Closed ELSE hist[t] = NoTrade

InsertSteps == {"insert", "recentInsert", "laterInsert"}

LocalOK ==
    /\ pc \in [Syncs -> Steps]
    /\ until \in [Syncs -> 0..Len(closings)]
    /\ todo \in [Syncs -> SUBSET Trades]
    /\ passed \in [Syncs -> BOOLEAN]
    /\ touched \in [Syncs -> SUBSET Keys]

TouchOK ==
    \A s \in Syncs :
        /\ touched[s] # {} => passed[s] /\ \A k \in touched[s] : row[k].n # 0
        /\ passed[s] => pc[s] # "idle"

TodoOK ==
    \A s \in Syncs :
        /\ pc[s] \in InsertSteps => todo[s] \subseteq Closed
        /\ pc[s] = "upsert" => \A t \in todo[s] : t[2] <= count[t[1]]
        /\ pc[s] \notin InsertSteps \cup {"upsert", "transfer"} => todo[s] = {}

FlagsOK == cooling \in BOOLEAN /\ faults \in 0..MaxFaults

IInv == ExchangeOK /\ RowOK /\ HistOK /\ LocalOK /\ TouchOK /\ TodoOK /\ FlagsOK

LEMMA IInvType == IInv => TypeOK
BY DEF IInv, ExchangeOK, RowOK, HistOK, LocalOK, TouchOK, FlagsOK, TypeOK

-----------------------------------------------------------------------------
(***************************************************************************)
(* Nth and Last: a closed position has one place in the list of closings,  *)
(* and a set of closed positions has a latest one.                         *)
(***************************************************************************)
LEMMA NthIs ==
    ASSUME ExchangeOK, NEW t \in Closed
    PROVE  /\ Nth(t) \in 1..Len(closings) /\ Nth(t) \in Nat /\ closings[Nth(t)] = t
           /\ \A i \in DOMAIN closings : closings[i] = t => i = Nth(t)
<1>1. PICK i \in DOMAIN closings : closings[i] = t
  BY DEF Closed, Members
<1>2. Nth(t) \in DOMAIN closings /\ closings[Nth(t)] = t
  BY <1>1 DEF Nth
<1>3. DOMAIN closings = 1..Len(closings) /\ Len(closings) \in Nat
  BY LenProperties DEF ExchangeOK
<1>4. QED
  BY <1>2, <1>3 DEF ExchangeOK

LEMMA LeastNatural ==
    ASSUME NEW T, T \subseteq Nat, T # {}
    PROVE  \E m \in T : \A n \in T : m <= n
<1>1. PICK m \in T : \A n \in T : <<n, m>> \notin OpToRel(<, Nat)
  BY WFMin, NatLessThanWellFounded, Zenon
<1>2. \A n \in T : ~(n < m)
  BY <1>1, Zenon DEF OpToRel
<1>3. QED
  BY <1>2

LEMMA LastIs ==
    ASSUME ExchangeOK, NEW S \in SUBSET Closed, S # {}
    PROVE  Last(S) \in S /\ \A u \in S : Nth(u) <= Nth(Last(S))
<1> DEFINE T == {Len(closings) - Nth(u) : u \in S}
<1>1. Len(closings) \in Nat
  BY LenProperties DEF ExchangeOK
<1>2. \A u \in S : Nth(u) \in 1..Len(closings)
  BY NthIs
<1>3. T \subseteq Nat /\ T # {}
  BY <1>1, <1>2
<1>4. PICK m \in T : \A n \in T : m <= n
  <2> HIDE DEF T
  <2>1. QED
    BY <1>3, LeastNatural
<1>6. PICK t \in S : m = Len(closings) - Nth(t)
  BY <1>4
<1>7. \A u \in S : Nth(u) <= Nth(t)
  <2> SUFFICES ASSUME NEW u \in S PROVE Nth(u) <= Nth(t)
    OBVIOUS
  <2>1. Len(closings) - Nth(t) <= Len(closings) - Nth(u)
    BY <1>4, <1>6
  <2>2. QED
    BY <1>1, <1>2, <2>1
<1>8. \E x \in S : \A u \in S : Nth(u) <= Nth(x)
  BY <1>7
<1>9. QED
  BY <1>8 DEF Last

-----------------------------------------------------------------------------
(***************************************************************************)
(* What the adapters answer: trades that were closed before the sync       *)
(* began, and positions that are open.                                     *)
(***************************************************************************)
LEMMA EarlierOf ==
    ASSUME NEW q \in Seq(Trades), NEW u \in 0..Len(q)
    PROVE  /\ Earlier(q, u) \in Seq(Trades) /\ Len(Earlier(q, u)) = u
           /\ DOMAIN Earlier(q, u) = 1..u
           /\ \A i \in 1..u : i \in DOMAIN q /\ Earlier(q, u)[i] = q[i]
           /\ Members(Earlier(q, u)) = {q[i] : i \in 1..u}
<1> DEFINE e == Earlier(q, u)
<1>1. Len(q) \in Nat /\ DOMAIN q = 1..Len(q) /\ u \in Nat
  BY LenProperties
<1>2. \A i \in 1..u : q[i] \in Trades /\ i \in DOMAIN q
  BY <1>1, ElementOfSeq
<1>3. /\ e \in Seq(Trades) /\ Len(e) = (IF 1 <= u THEN u - 1 + 1 ELSE 0)
      /\ \A i \in 1..(u - 1 + 1) : e[i] = q[1 + i - 1]
  BY <1>1, <1>2, SubSeqProperties DEF Earlier
<1>4. Len(e) = u
  BY <1>1, <1>3
<1>5. DOMAIN e = 1..u
  BY <1>3, <1>4, LenProperties
<1>6. \A i \in 1..u : e[i] = q[i]
  BY <1>1, <1>3
<1>7. Members(e) = {q[i] : i \in 1..u}
  BY <1>5, <1>6 DEF Members
<1>8. QED
  BY <1>2, <1>3, <1>4, <1>5, <1>6, <1>7

LEMMA EarlierIs ==
    ASSUME ExchangeOK, NEW u \in 0..Len(closings)
    PROVE  /\ Earlier(closings, u) \in Seq(Trades) /\ Len(Earlier(closings, u)) = u
           /\ DOMAIN Earlier(closings, u) = 1..u
           /\ \A i \in 1..u : i \in DOMAIN closings /\ Earlier(closings, u)[i] = closings[i]
           /\ Members(Earlier(closings, u)) = {closings[i] : i \in 1..u}
BY EarlierOf DEF ExchangeOK

LEMMA NewestIn == ASSUME NEW q, NEW n PROVE Newest(q, n) \subseteq Members(q)
BY DEF Newest, Members

LEMMA NewestOfIn == ASSUME NEW q, NEW c, NEW n PROVE NewestOf(q, c, n) \subseteq Members(q)
BY DEF NewestOf, Members

LEMMA TradesAnswered ==
    ASSUME ExchangeOK, NEW u \in 0..Len(closings), NEW fault, NEW hit, NEW pages
    PROVE  LET answer == GetClosedTradesOf(ex, closings, u, fault, hit, pages)
           IN  /\ answer.list \subseteq Members(Earlier(closings, u))
               /\ answer.list \subseteq Closed
<1> DEFINE e == Earlier(closings, u)
           answer == GetClosedTradesOf(ex, closings, u, fault, hit, pages)
<1>1. Members(e) \subseteq Closed
  BY EarlierIs DEF Closed, Members
<1>2. \A n : Newest(e, n) \subseteq Members(e)
  BY NewestIn
<1>3. \A c, n : NewestOf(e, c, n) \subseteq Members(e)
  BY NewestOfIn
<1> HIDE DEF e
<1>4. CASE ex = "okx"
  <2>1. OkxClosedTrades(closings, u, fault).list \subseteq Members(e)
    BY DEF OkxClosedTrades, Listed, Failed, e
  <2>2. QED
    BY <1>1, <1>4, <2>1 DEF GetClosedTradesOf, e
<1>5. CASE ex = "bybit"
  <2>1. BybitClosedTrades(closings, u, hit, pages).list \subseteq Members(e)
    BY <1>3 DEF BybitClosedTrades, Listed, e
  <2>2. QED
    BY <1>1, <1>5, <2>1 DEF GetClosedTradesOf, e
<1>6. CASE ex = "binance"
  <2>1. BinanceClosedTrades(closings, u, fault).list \subseteq Members(e)
    BY <1>2 DEF BinanceClosedTrades, Listed, e
  <2>2. QED
    BY <1>1, <1>6, <2>1 DEF GetClosedTradesOf, e
<1>7. CASE ex = "gate"
  <2>1. GateClosedTrades(closings, u, fault).list \subseteq Members(e)
    BY <1>2 DEF GateClosedTrades, Listed, e
  <2>2. QED
    BY <1>1, <1>7, <2>1 DEF GetClosedTradesOf, e
<1>8. CASE ex = "kraken"
  <2>1. KrakenClosedTrades(closings, u, fault).list \subseteq Members(e)
    BY <1>2 DEF KrakenClosedTrades, Listed, Failed, e
  <2>2. QED
    BY <1>1, <1>8, <2>1 DEF GetClosedTradesOf, e
<1>9. QED
  BY <1>4, <1>5, <1>6, <1>7, <1>8, UseAssumption DEF ExchangeOK, Exchanges

LEMMA PositionsAnswered ==
    ASSUME ExchangeOK, NEW fault, NEW hit
    PROVE  LET answer == GetOpenPositionsOf(ex, Open, fault, hit)
           IN  answer.list \subseteq Open /\ answer.list \subseteq Trades
<1>1. Open \subseteq Trades
  BY DEF Open
<1>2. CASE ex = "okx"
  <2>1. OkxOpenPositions(Open, fault).list \subseteq Open
    BY DEF OkxOpenPositions, Listed, Failed
  <2>2. QED
    BY <1>1, <1>2, <2>1 DEF GetOpenPositionsOf
<1>3. CASE ex = "bybit"
  <2>1. BybitOpenPositions(Open, hit).list \subseteq Open
    BY DEF BybitOpenPositions, Listed
  <2>2. QED
    BY <1>1, <1>3, <2>1 DEF GetOpenPositionsOf
<1>4. CASE ex \in {"binance", "gate", "kraken"}
  <2>1. /\ BinanceOpenPositions(Open, fault).list \subseteq Open
        /\ GateOpenPositions(Open, fault).list \subseteq Open
        /\ KrakenOpenPositions(Open, fault).list \subseteq Open
    BY DEF BinanceOpenPositions, GateOpenPositions, KrakenOpenPositions, Listed
  <2>2. QED
    BY <1>1, <1>4, <2>1 DEF GetOpenPositionsOf
<1>5. QED
  BY <1>2, <1>3, <1>4, UseAssumption DEF ExchangeOK, Exchanges

-----------------------------------------------------------------------------
(***************************************************************************)
(* The invariant holds at first, and each step keeps it.                   *)
(***************************************************************************)
LEMMA InitInv == Init => IInv
<1> SUFFICES ASSUME Init PROVE IInv
  OBVIOUS
<1>1. 0 \in Opens /\ MaxOpens \in Nat /\ MaxFaults \in Nat
  BY OpensAssumption, FaultsAssumption DEF Opens
<1>2. Closed = {} /\ closings = <<>> /\ Len(closings) = 0 /\ DOMAIN closings = {}
  BY DEF Init, Closed, Members
<1>3. {t \in Trades : t[2] <= count[t[1]] /\ t[2] # open[t[1]]} = {}
  <2>1. ASSUME NEW t \in Trades PROVE ~(t[2] <= count[t[1]])
    <3>1. t[1] \in Keys /\ t[2] \in 1..MaxOpens
      BY DEF Trades
    <3>2. count[t[1]] = 0
      BY <3>1 DEF Init
    <3>3. QED
      BY <1>1, <3>1, <3>2
  <2>2. QED
    BY <2>1
<1>4. ExchangeOK
  BY <1>1, <1>2, <1>3, EmptySeq, FS_EmptySet DEF Init, ExchangeOK
<1>5. RowOK /\ HistOK
  BY <1>1 DEF Init, RowOK, HistOK, NoRow, NoTrade
<1>6. LocalOK
  BY <1>1, <1>2 DEF Init, LocalOK, Steps
<1>7. TouchOK /\ TodoOK /\ FlagsOK
  <2>1. TouchOK
    BY DEF Init, TouchOK
  <2>2. TodoOK
    BY DEF Init, TodoOK, InsertSteps
  <2>3. FlagsOK
    <3>1. cooling \in BOOLEAN
      BY DEF Init
    <3>2. faults \in 0..MaxFaults
      BY <1>1 DEF Init
    <3>3. QED
      BY <3>1, <3>2 DEF FlagsOK
  <2>4. QED
    BY <2>1, <2>2, <2>3
<1>8. QED
  BY <1>4, <1>5, <1>6, <1>7 DEF IInv

LEMMA KeepExchange ==
    ASSUME IInv, UNCHANGED exch
    PROVE  /\ ExchangeOK' /\ Closed' = Closed
           /\ UNCHANGED row => RowOK'
           /\ UNCHANGED hist => HistOK'
<1>1. ex' = ex /\ count' = count /\ open' = open /\ closings' = closings
  BY DEF exch
<1>2. Closed' = Closed
  BY <1>1 DEF Closed
<1>3. QED
  BY <1>1, <1>2 DEF IInv, ExchangeOK, RowOK, HistOK

\* A failure is counted, and no more of them than the bound.
LEMMA CallCounts ==
    ASSUME IInv, NEW fault, Call(fault)
    PROVE  /\ faults' \in 0..MaxFaults /\ faults \in Nat /\ faults' \in Nat
           /\ faults <= faults' /\ (faults' = faults => fault = "none")
BY FaultsAssumption DEF Call, IInv, FlagsOK

LEMMA OpenInv == ASSUME IInv, NEW k \in Keys, OpenPosition(k) PROVE IInv'
<1>1. /\ count' = [count EXCEPT ![k] = @ + 1] /\ open' = [open EXCEPT ![k] = count[k] + 1]
      /\ open[k] = 0 /\ count[k] < MaxOpens /\ closings' = closings /\ ex' = ex
      /\ UNCHANGED <<row, hist, cooling, pc, until, todo, passed, touched, faults>>
  BY DEF OpenPosition, table, local
<1>2. Closed' = Closed
  BY <1>1 DEF Closed
<1>3. count \in [Keys -> Nat] /\ open \in [Keys -> Nat] /\ count' \in [Keys -> Opens] /\ open' \in [Keys -> Opens]
  BY <1>1, OpensAssumption DEF IInv, ExchangeOK, Opens
<1>4. \A l \in Keys : count[l] <= count'[l] /\ count'[l] \in Nat
  BY <1>1, <1>3
<1>5. \A l \in Keys : open'[l] \in {0, count'[l]}
  BY <1>1, <1>3 DEF IInv, ExchangeOK
<1>6. ASSUME NEW t \in Trades
      PROVE  (t[2] <= count[t[1]] /\ t[2] # open[t[1]]) <=> (t[2] <= count'[t[1]] /\ t[2] # open'[t[1]])
  <2>1. t[1] \in Keys /\ t[2] \in Nat /\ t[2] >= 1
    BY OpensAssumption DEF Trades
  <2>2. CASE t[1] = k
    BY <1>1, <1>3, <2>1, <2>2
  <2>3. CASE t[1] # k
    BY <1>1, <1>3, <2>1, <2>3
  <2>4. QED
    BY <2>2, <2>3
<1>7. ExchangeOK'
  BY <1>1, <1>2, <1>3, <1>5, <1>6 DEF IInv, ExchangeOK
<1>8. RowOK'
  BY <1>1, <1>3, <1>4 DEF IInv, RowOK, Opens
<1>9. HistOK' /\ LocalOK' /\ TouchOK' /\ FlagsOK'
  BY <1>1, <1>2 DEF IInv, HistOK, LocalOK, TouchOK, FlagsOK
<1>10. TodoOK'
  <2> SUFFICES ASSUME NEW s \in Syncs, pc[s] = "upsert", NEW t \in todo[s]
               PROVE  t[2] <= count'[t[1]]
    BY <1>1, <1>2 DEF IInv, TodoOK
  <2>1. t \in Trades /\ t[1] \in Keys /\ t[2] \in Nat /\ t[2] <= count[t[1]]
    BY OpensAssumption DEF IInv, LocalOK, TodoOK, Trades
  <2>2. QED
    BY <1>3, <1>4, <2>1
<1>11. QED
  BY <1>7, <1>8, <1>9, <1>10 DEF IInv

LEMMA CloseInv ==
    ASSUME IInv, NEW k \in Keys, ClosePosition(k)
    PROVE  /\ IInv' /\ Closed \subseteq Closed' /\ <<k, open[k]>> \notin Closed
           /\ \A t \in Closed : Nth(t)' = Nth(t)
           /\ Len(closings') = Len(closings) + 1 /\ Len(closings) \in Nat
           /\ \A i \in 1..Len(closings) : closings'[i] = closings[i]
<1> DEFINE new == <<k, open[k]>>
<1>1. /\ open' = [open EXCEPT ![k] = 0] /\ closings' = Append(closings, new) /\ open[k] # 0
      /\ ex' = ex /\ count' = count
      /\ UNCHANGED <<row, hist, cooling, pc, until, todo, passed, touched, faults>>
  BY DEF ClosePosition, table, local
<1>2. count \in [Keys -> Nat] /\ open \in [Keys -> Nat] /\ open[k] = count[k] /\ open' \in [Keys -> Opens]
  BY <1>1, OpensAssumption DEF IInv, ExchangeOK, Opens
<1>3. new \in Trades
  BY <1>1, <1>2 DEF Trades, IInv, ExchangeOK, Opens
<1>4. new \notin Closed
  BY <1>3 DEF IInv, ExchangeOK
<1>5. Len(closings) \in Nat /\ DOMAIN closings = 1..Len(closings)
  BY LenProperties DEF IInv, ExchangeOK
<1>6. /\ closings' \in Seq(Trades) /\ Len(closings') = Len(closings) + 1
      /\ \A i \in 1..Len(closings) : closings'[i] = closings[i]
      /\ closings'[Len(closings) + 1] = new
  <2> HIDE DEF new
  <2>1. closings \in Seq(Trades) /\ closings' = Append(closings, new)
    BY <1>1 DEF IInv, ExchangeOK
  <2>2. QED
    BY <1>3, <2>1, AppendProperties
<1>7. DOMAIN closings' = 1..(Len(closings) + 1)
  BY <1>6, LenProperties
<1>8. Closed' = Closed \cup {new}
  <2>1. 1..(Len(closings) + 1) = (1..Len(closings)) \cup {Len(closings) + 1}
    BY <1>5
  <2>2. Closed' = {closings'[i] : i \in DOMAIN closings'}
    BY DEF Closed, Members
  <2>3. Closed = {closings[i] : i \in DOMAIN closings}
    BY DEF Closed, Members
  <2> HIDE DEF new
  <2>4. QED
    BY <1>5, <1>6, <1>7, <2>1, <2>2, <2>3
<1>9. \A i, j \in DOMAIN closings' : closings'[i] = closings'[j] => i = j
  <2>1. \A i \in 1..Len(closings) : closings[i] \in Closed
    BY <1>5 DEF Closed, Members
  <2> HIDE DEF new
  <2>2. SUFFICES ASSUME NEW i \in 1..(Len(closings) + 1), NEW j \in 1..(Len(closings) + 1),
                        closings'[i] = closings'[j]
                 PROVE  i = j
    BY <1>7
  <2>3. CASE i \in 1..Len(closings) /\ j \in 1..Len(closings)
    BY <1>5, <1>6, <2>2, <2>3 DEF IInv, ExchangeOK
  <2>4. CASE i = Len(closings) + 1 \/ j = Len(closings) + 1
    BY <1>4, <1>5, <1>6, <2>1, <2>2, <2>4
  <2>5. QED
    BY <1>5, <2>3, <2>4
<1>10. IsFiniteSet(Closed') /\ Cardinality(Closed') = Cardinality(Closed) + 1
  BY <1>4, <1>8, FS_AddElement DEF IInv, ExchangeOK
<1>11. Closed' = {t \in Trades : t[2] <= count'[t[1]] /\ t[2] # open'[t[1]]}
  <2>1. ASSUME NEW t \in Trades
        PROVE  t \in Closed' <=> (t[2] <= count'[t[1]] /\ t[2] # open'[t[1]])
    <3>1. t[1] \in Keys /\ t[2] \in Nat /\ t[2] >= 1 /\ t = <<t[1], t[2]>>
      BY OpensAssumption DEF Trades
    <3>2. t \in Closed <=> (t[2] <= count[t[1]] /\ t[2] # open[t[1]])
      BY DEF IInv, ExchangeOK
    <3>3. t = new <=> (t[1] = k /\ t[2] = open[k])
      BY <3>1
    <3>4. QED
      BY <1>1, <1>2, <1>8, <3>1, <3>2, <3>3
  <2>2. Closed' \subseteq Trades
    BY <1>3, <1>8 DEF IInv, ExchangeOK
  <2>3. QED
    BY <2>1, <2>2
<1>12. ExchangeOK'
  BY <1>1, <1>2, <1>6, <1>9, <1>10, <1>11 DEF IInv, ExchangeOK
<1>13. RowOK' /\ TouchOK' /\ FlagsOK'
  BY <1>1 DEF IInv, RowOK, TouchOK, FlagsOK
<1>14. HistOK' /\ TodoOK'
  BY <1>1, <1>8 DEF IInv, HistOK, TodoOK
<1>15. LocalOK'
  BY <1>1, <1>5, <1>6 DEF IInv, LocalOK
<1>16. \A t \in Closed : Nth(t)' = Nth(t)
  <2> SUFFICES ASSUME NEW t \in Closed PROVE Nth(t)' = Nth(t)
    OBVIOUS
  <2>1. Nth(t) \in 1..Len(closings) /\ closings[Nth(t)] = t
    BY NthIs DEF IInv
  <2>2. Nth(t) \in DOMAIN closings' /\ closings'[Nth(t)] = t
    BY <1>5, <1>6, <1>7, <2>1
  <2>3. Nth(t)' = CHOOSE i \in DOMAIN closings' : closings'[i] = t
    BY DEF Nth
  <2>4. QED
    BY <1>9, <2>2, <2>3
<1>17. QED
  BY <1>4, <1>5, <1>6, <1>8, <1>12, <1>13, <1>14, <1>15, <1>16 DEF IInv

\* The parts that follow from what a step leaves alone.
LEMMA KeepTables ==
    ASSUME IInv, UNCHANGED <<exch, row, hist>>, LocalOK', TouchOK', TodoOK', FlagsOK'
    PROVE  IInv'
BY KeepExchange DEF IInv

LEMMA PositionCommentInv == ASSUME IInv, NEW k \in Keys, UpdatePositionComment(k) PROVE IInv'
<1>1. /\ row[k].com # row[k].n /\ row' = [row EXCEPT ![k].com = row[k].n]
      /\ touched' = [s \in Syncs |-> IF passed[s] THEN touched[s] \cup {k} ELSE touched[s]]
      /\ UNCHANGED <<exch, hist, cooling, pc, until, todo, passed, faults>>
  BY DEF UpdatePositionComment, Touch
<1>2. ExchangeOK' /\ HistOK' /\ Closed' = Closed
  BY <1>1, KeepExchange
<1>3. count' = count /\ Len(closings') = Len(closings)
  BY <1>1 DEF exch
<1>4. row[k].n # 0
  BY <1>1 DEF IInv, RowOK, NoRow
<1>5. /\ row'[k].n = row[k].n /\ row'[k].com = row[k].n
      /\ \A l \in Keys : l # k => row'[l] = row[l]
      /\ row' \in [Keys -> [n : Opens, com : Opens]]
  BY <1>1 DEF IInv, RowOK
<1>6. RowOK'
  BY <1>3, <1>4, <1>5 DEF IInv, RowOK
<1>7. LocalOK' /\ TodoOK' /\ FlagsOK'
  BY <1>1, <1>2, <1>3 DEF IInv, LocalOK, TodoOK, FlagsOK
<1>8. TouchOK'
  BY <1>1, <1>4, <1>5 DEF IInv, TouchOK
<1>9. QED
  BY <1>2, <1>6, <1>7, <1>8 DEF IInv

LEMMA HistoryCommentInv == ASSUME IInv, NEW t \in Trades, UpdateHistoryComment(t) PROVE IInv'
<1>1. /\ hist[t].in /\ hist' = [hist EXCEPT ![t].com = t]
      /\ UNCHANGED <<exch, row, cooling, pc, until, todo, passed, touched, faults>>
  BY DEF UpdateHistoryComment, local
<1>2. ExchangeOK' /\ RowOK' /\ Closed' = Closed
  BY <1>1, KeepExchange
<1>3. HistOK'
  BY <1>1, <1>2 DEF IInv, HistOK
<1>4. count' = count /\ Len(closings') = Len(closings)
  BY <1>1 DEF exch
<1>5. LocalOK' /\ TouchOK' /\ TodoOK' /\ FlagsOK'
  BY <1>1, <1>2, <1>4 DEF IInv, LocalOK, TouchOK, TodoOK, FlagsOK
<1>6. QED
  BY <1>2, <1>3, <1>5 DEF IInv

LEMMA NextSecondInv == ASSUME IInv, NextSecond PROVE IInv'
<1>1. /\ passed' = [s \in Syncs |-> pc[s] # "idle"]
      /\ UNCHANGED <<exch, row, hist, cooling, pc, until, todo, touched, faults>>
  BY DEF NextSecond, table
<1>2. count' = count /\ Len(closings') = Len(closings) /\ Closed' = Closed
  BY <1>1, KeepExchange DEF exch
<1>3. LocalOK' /\ TodoOK' /\ FlagsOK'
  BY <1>1, <1>2 DEF IInv, LocalOK, TodoOK, FlagsOK
<1>4. TouchOK'
  BY <1>1 DEF IInv, TouchOK, LocalOK
<1>5. QED
  BY <1>1, <1>3, <1>4, KeepTables

LEMMA CoolOffInv == ASSUME IInv, CoolOff PROVE IInv'
<1>1. cooling' = FALSE /\ UNCHANGED <<exch, row, hist, pc, until, todo, passed, touched, faults>>
  BY DEF CoolOff, table, local
<1>2. count' = count /\ Len(closings') = Len(closings) /\ Closed' = Closed
  BY <1>1, KeepExchange DEF exch
<1>3. LocalOK' /\ TodoOK' /\ TouchOK'
  BY <1>1, <1>2 DEF IInv, LocalOK, TodoOK, TouchOK
<1>4. FlagsOK'
  BY <1>1 DEF IInv, FlagsOK
<1>5. QED
  BY <1>1, <1>3, <1>4, KeepTables

LEMMA RestartInv == ASSUME IInv, Restart PROVE IInv'
<1>1. /\ cooling' = FALSE /\ Call("crash")
      /\ pc' = [s \in Syncs |-> "idle"] /\ until' = [s \in Syncs |-> 0]
      /\ todo' = [s \in Syncs |-> {}] /\ passed' = [s \in Syncs |-> FALSE]
      /\ touched' = [s \in Syncs |-> {}]
      /\ UNCHANGED <<exch, row, hist>>
  BY DEF Restart, table
<1>2. Len(closings') \in Nat
  BY <1>1, LenProperties DEF IInv, ExchangeOK, exch
<1>3. LocalOK'
  BY <1>1, <1>2 DEF LocalOK, Steps
<1>4. TouchOK' /\ TodoOK'
  BY <1>1 DEF TouchOK, TodoOK, InsertSteps
<1>5. FlagsOK'
  BY <1>1, CallCounts DEF FlagsOK
<1>6. QED
  BY <1>1, <1>3, <1>4, <1>5, KeepTables

LEMMA StartInv ==
    ASSUME IInv, NEW s \in Syncs, NEW step \in {"history", "positions", "recent"}, Start(s, step)
    PROVE  IInv'
<1>1. /\ pc[s] = "idle" /\ pc' = [pc EXCEPT ![s] = step]
      /\ until' = [until EXCEPT ![s] = Len(closings)]
      /\ UNCHANGED <<exch, row, hist, cooling, todo, passed, touched, faults>>
  BY DEF Start, Goto, table
<1>2. Len(closings) \in Nat
  BY LenProperties DEF IInv, ExchangeOK
<1>3. count' = count /\ Len(closings') = Len(closings) /\ Closed' = Closed
  BY <1>1, KeepExchange DEF exch
<1>4. LocalOK'
  BY <1>1, <1>2, <1>3 DEF IInv, LocalOK, Steps
<1>5. TouchOK' /\ TodoOK'
  BY <1>1, <1>3 DEF IInv, LocalOK, TouchOK, TodoOK, InsertSteps
<1>6. FlagsOK'
  BY <1>1 DEF IInv, FlagsOK
<1>7. QED
  BY <1>1, <1>4, <1>5, <1>6, KeepTables

\* A sync goes on to a step it has not got anything to write for, or ends.
LEMMA ContinueInv ==
    ASSUME IInv, NEW s \in Syncs, NEW step \in Steps \ (InsertSteps \cup {"upsert", "transfer"}),
           todo[s] = {}, pc[s] # "idle", Continue(s, step), UNCHANGED <<exch, row, hist>>, FlagsOK'
    PROVE  IInv'
<1>1. count' = count /\ Len(closings') = Len(closings) /\ Closed' = Closed /\ Len(closings) \in Nat
  BY KeepExchange, LenProperties DEF exch, IInv, ExchangeOK
<1>2. CASE step = "idle"
  <2>1. /\ pc' = [pc EXCEPT ![s] = "idle"] /\ until' = [until EXCEPT ![s] = 0]
        /\ todo' = [todo EXCEPT ![s] = {}] /\ passed' = [passed EXCEPT ![s] = FALSE]
        /\ touched' = [touched EXCEPT ![s] = {}]
    BY <1>2 DEF Continue, Finish, Goto
  <2>2. LocalOK'
    BY <1>1, <2>1 DEF IInv, LocalOK, Steps
  <2>3. TouchOK' /\ TodoOK'
    BY <1>1, <2>1 DEF IInv, LocalOK, TouchOK, TodoOK, InsertSteps
  <2>4. QED
    BY <2>2, <2>3, KeepTables
<1>3. CASE step # "idle"
  <2>1. pc' = [pc EXCEPT ![s] = step] /\ UNCHANGED <<until, todo, passed, touched>>
    BY <1>3 DEF Continue, Goto
  <2>2. LocalOK'
    BY <1>1, <2>1 DEF IInv, LocalOK
  <2>3. TouchOK' /\ TodoOK'
    BY <1>1, <1>3, <2>1 DEF IInv, LocalOK, TouchOK, TodoOK
  <2>4. QED
    BY <2>2, <2>3, KeepTables
<1>4. QED
  BY <1>2, <1>3

\* A sync gets something to write.
LEMMA TellInv ==
    ASSUME IInv, NEW s \in Syncs, NEW step \in InsertSteps \cup {"upsert", "transfer"},
           NEW list \in SUBSET Trades, pc[s] # "idle",
           pc' = [pc EXCEPT ![s] = step], todo' = [todo EXCEPT ![s] = list],
           step \in InsertSteps => list \subseteq Closed,
           step = "upsert" => \A t \in list : t[2] <= count[t[1]],
           UNCHANGED <<exch, row, hist, until, passed, touched>>, FlagsOK'
    PROVE  IInv'
<1>1. count' = count /\ Len(closings') = Len(closings) /\ Closed' = Closed
  BY KeepExchange DEF exch
<1>2. step \in Steps
  BY DEF InsertSteps, Steps
<1>3. LocalOK'
  BY <1>1, <1>2 DEF IInv, LocalOK
<1>4. TouchOK'
  BY DEF IInv, LocalOK, TouchOK, InsertSteps
<1>5. TodoOK'
  BY <1>1 DEF IInv, LocalOK, TodoOK, InsertSteps
<1>6. QED
  BY <1>3, <1>4, <1>5, KeepTables

\* What a sync writes next is one of the things it has to write.
LEMMA TakeInv ==
    ASSUME IInv, NEW s \in Syncs, NEW list, list \subseteq todo[s],
           todo' = [todo EXCEPT ![s] = list],
           UNCHANGED <<exch, pc, until, passed>>
    PROVE  TodoOK' /\ (touched' \in [Syncs -> SUBSET Keys] => LocalOK')
<1>1. count' = count /\ Len(closings') = Len(closings) /\ Closed' = Closed
  BY KeepExchange DEF exch
<1>2. todo' \in [Syncs -> SUBSET Trades] /\ \A r \in Syncs : todo'[r] \subseteq todo[r]
  BY DEF IInv, LocalOK
<1>3. TodoOK'
  BY <1>1, <1>2 DEF IInv, TodoOK
<1>4. touched' \in [Syncs -> SUBSET Keys] => LocalOK'
  BY <1>1, <1>2 DEF IInv, LocalOK
<1>5. QED
  BY <1>3, <1>4

\* The steps after a request, and after the trades.
LEMMA AfterHistoryIs ==
    ASSUME NEW s, pc[s] \in {"history", "recent", "later"} \cup InsertSteps
    PROVE  /\ AfterHistory(s) \in {"positions", "comments", "idle"}
           /\ AfterHistory(s) \in Steps \ (InsertSteps \cup {"upsert", "transfer"})
           /\ pc[s] # "idle"
<1>1. AfterHistory(s) \in {"positions", "comments", "idle"}
  BY DEF AfterHistory, InsertSteps
<1>2. {"positions", "comments", "idle"} \subseteq Steps \ (InsertSteps \cup {"upsert", "transfer"})
  BY DEF Steps, InsertSteps
<1>3. QED
  BY <1>1, <1>2 DEF InsertSteps

LEMMA CooledOK ==
    ASSUME IInv, NEW answer, NEW fault, SyncError(answer), Call(fault)
    PROVE  FlagsOK'
<1>1. cooling' \in BOOLEAN
  BY DEF SyncError, IInv, FlagsOK
<1>2. QED
  BY <1>1, CallCounts DEF FlagsOK

LEMMA ClosedTradesInv ==
    ASSUME IInv, NEW s \in Syncs, NEW fault, NEW hit, NEW pages, GetClosedTrades(s, fault, hit, pages)
    PROVE  IInv'
<1> DEFINE answer == GetClosedTradesOf(ex, closings, until[s], fault, hit, pages)
<1>1. /\ pc[s] \in DOMAIN Inserting /\ Call(fault) /\ SyncError(answer)
      /\ UNCHANGED <<exch, row, hist>>
      /\ IF answer.err = "none"
         THEN /\ pc' = [pc EXCEPT ![s] = Inserting[pc[s]]]
              /\ todo' = [todo EXCEPT ![s] = answer.list]
              /\ UNCHANGED <<until, passed, touched>>
         ELSE Continue(s, AfterHistory(s))
  BY DEF GetClosedTrades, Asked, Goto, table
<1>2. answer.list \subseteq Closed
  BY TradesAnswered DEF IInv, LocalOK
<1> HIDE DEF answer
<1>3. FlagsOK'
  BY <1>1, CooledOK
<1>4. pc[s] \in {"history", "recent", "later"}
  BY <1>1 DEF Inserting
<1>5. Inserting[pc[s]] \in InsertSteps
  BY <1>4 DEF Inserting, InsertSteps
<1>6. answer.list \subseteq Trades
  BY <1>2 DEF IInv, ExchangeOK
<1>7. CASE answer.err = "none"
  <2>1. Inserting[pc[s]] \in InsertSteps \cup {"upsert", "transfer"} /\ Inserting[pc[s]] # "upsert" /\ pc[s] # "idle"
    BY <1>4, <1>5 DEF InsertSteps
  <2>2. QED
    BY <1>1, <1>2, <1>3, <1>6, <1>7, <2>1, TellInv
<1>8. CASE answer.err # "none"
  <2>1. todo[s] = {}
    BY <1>4 DEF IInv, TodoOK, InsertSteps
  <2>2. QED
    BY <1>1, <1>3, <1>4, <1>8, <2>1, AfterHistoryIs, ContinueInv
<1>9. QED
  BY <1>7, <1>8

LEMMA HistoryDoneInv == ASSUME IInv, NEW s \in Syncs, HistoryDone(s) PROVE IInv'
<1>1. /\ pc[s] \in InsertSteps /\ todo[s] = {} /\ Continue(s, AfterHistory(s))
      /\ UNCHANGED <<exch, row, hist, cooling, faults>>
  BY DEF HistoryDone, InsertSteps, table
<1>2. FlagsOK'
  BY <1>1 DEF IInv, FlagsOK
<1>3. QED
  BY <1>1, <1>2, AfterHistoryIs, ContinueInv

LEMMA MarginedType == ASSUME NEW t PROVE Margined(t) \in BOOLEAN
BY DEF Margined, TradeSized, TradeLevered, RowLevered

LEMMA InsertInv == ASSUME IInv, NEW s \in Syncs, NEW t, NEW fault, InsertHistory(s, t, fault) PROVE IInv'
<1>1. /\ pc[s] \in InsertSteps /\ t \in todo[s] /\ todo' = [todo EXCEPT ![s] = todo[s] \ {t}]
      /\ Call(fault)
      /\ hist' = IF fault # "none" THEN hist
                 ELSE [hist EXCEPT ![t].in = TRUE, ![t].mar = @ \/ Margined(t)]
      /\ UNCHANGED <<exch, row, cooling, pc, until, passed, touched>>
  BY DEF InsertHistory, Take, InsertSteps
<1>2. t \in Closed /\ t \in Trades
  BY <1>1 DEF IInv, TodoOK, LocalOK
<1>3. ExchangeOK' /\ RowOK' /\ Closed' = Closed /\ (UNCHANGED hist => HistOK')
  BY <1>1, KeepExchange
<1>4. HistOK'
  <2>1. CASE fault # "none"
    BY <1>1, <1>3, <2>1
  <2>2. CASE fault = "none"
    <3> DEFINE mar == hist[t].mar \/ Margined(t)
    <3>1. hist' = [hist EXCEPT ![t] = [hist[t] EXCEPT !.in = TRUE, !.mar = mar]]
      BY <1>1, <1>2, <2>2 DEF IInv, HistOK
    <3>2. mar \in BOOLEAN
      BY <1>2, MarginedType DEF IInv, HistOK
    <3> HIDE DEF mar
    <3>3. QED
      BY <1>2, <1>3, <3>1, <3>2 DEF IInv, HistOK
  <2>3. QED
    BY <2>1, <2>2
<1>5. LocalOK' /\ TodoOK'
  <2>1. touched' \in [Syncs -> SUBSET Keys] /\ todo[s] \ {t} \subseteq todo[s]
    BY <1>1 DEF IInv, LocalOK
  <2>2. QED
    BY <1>1, <2>1, TakeInv
<1>6. TouchOK'
  BY <1>1 DEF IInv, TouchOK
<1>7. FlagsOK'
  BY <1>1, CallCounts DEF IInv, FlagsOK
<1>8. QED
  BY <1>3, <1>4, <1>5, <1>6, <1>7 DEF IInv

LEMMA OpenPositionsInv ==
    ASSUME IInv, NEW s \in Syncs, NEW fault, NEW hit, GetOpenPositions(s, fault, hit)
    PROVE  IInv'
<1> DEFINE answer == GetOpenPositionsOf(ex, Open, fault, hit)
<1>1. /\ pc[s] = "positions" /\ Call(fault) /\ SyncError(answer)
      /\ UNCHANGED <<exch, row, hist>>
      /\ IF answer.err = "none"
         THEN /\ pc' = [pc EXCEPT ![s] = "upsert"]
              /\ todo' = [todo EXCEPT ![s] = answer.list]
              /\ UNCHANGED <<until, passed, touched>>
         ELSE Continue(s, IF s \in OtherSyncs THEN "recent" ELSE "idle")
  BY DEF GetOpenPositions, Asked, Goto, table
<1>2. answer.list \subseteq Open /\ answer.list \subseteq Trades
  BY PositionsAnswered DEF IInv
<1> HIDE DEF answer
<1>3. FlagsOK'
  BY <1>1, CooledOK
<1>4. CASE answer.err = "none"
  <2>1. \A t \in answer.list : t[2] <= count[t[1]]
    <3> SUFFICES ASSUME NEW t \in answer.list PROVE t[2] <= count[t[1]]
      OBVIOUS
    <3>1. t[1] \in Keys /\ t[2] \in 1..MaxOpens /\ t[2] = open[t[1]]
      BY <1>2 DEF Open, Trades
    <3>2. count[t[1]] \in Nat /\ open[t[1]] \in {0, count[t[1]]}
      BY <3>1, OpensAssumption DEF IInv, ExchangeOK, Opens
    <3>3. QED
      BY <3>1, <3>2, OpensAssumption
  <2>2. QED
    BY <1>1, <1>2, <1>3, <1>4, <2>1, TellInv DEF InsertSteps
<1>5. CASE answer.err # "none"
  <2>1. todo[s] = {}
    BY <1>1 DEF IInv, TodoOK, InsertSteps
  <2>2. {"recent", "idle"} \subseteq Steps \ (InsertSteps \cup {"upsert", "transfer"})
    BY DEF Steps, InsertSteps
  <2>3. QED
    BY <1>1, <1>3, <1>5, <2>1, <2>2, ContinueInv
<1>6. QED
  BY <1>4, <1>5

LEMMA UpsertInv == ASSUME IInv, NEW s \in Syncs, NEW t, NEW fault, UpsertPosition(s, t, fault) PROVE IInv'
<1>1. /\ pc[s] = "upsert" /\ t \in todo[s] /\ todo' = [todo EXCEPT ![s] = todo[s] \ {t}]
      /\ Call(fault)
      /\ IF fault = "none"
         THEN /\ row' = [row EXCEPT ![t[1]].n = t[2]]
              /\ touched' = [r \in Syncs |-> IF passed[r] THEN touched[r] \cup {t[1]} ELSE touched[r]]
         ELSE UNCHANGED <<row, touched>>
      /\ UNCHANGED <<exch, hist, cooling, pc, until, passed>>
  BY DEF UpsertPosition, Take, Touch
<1>2. /\ t \in Trades /\ t[1] \in Keys /\ t[2] \in Opens /\ t[2] # 0 /\ t[2] <= count[t[1]]
  BY <1>1, OpensAssumption DEF IInv, TodoOK, LocalOK, Trades, Opens
<1>3. ExchangeOK' /\ HistOK' /\ Closed' = Closed /\ (UNCHANGED row => RowOK') /\ count' = count
  BY <1>1, KeepExchange DEF exch
<1>4. CASE fault # "none"
  <2>1. TouchOK'
    BY <1>1, <1>4 DEF IInv, TouchOK
  <2>2. LocalOK' /\ TodoOK'
    <3>1. touched' \in [Syncs -> SUBSET Keys] /\ todo[s] \ {t} \subseteq todo[s]
      BY <1>1, <1>4 DEF IInv, LocalOK
    <3>2. QED
      BY <1>1, <3>1, TakeInv
  <2>3. FlagsOK'
    BY <1>1, CallCounts DEF IInv, FlagsOK
  <2>4. QED
    BY <1>1, <1>3, <1>4, <2>1, <2>2, <2>3 DEF IInv
<1>5. CASE fault = "none"
  <2>1. /\ row' \in [Keys -> [n : Opens, com : Opens]] /\ row'[t[1]].n = t[2]
        /\ row'[t[1]].com = row[t[1]].com /\ \A k \in Keys : k # t[1] => row'[k] = row[k]
    BY <1>1, <1>2, <1>5 DEF IInv, RowOK
  <2>2. RowOK'
    BY <1>2, <1>3, <2>1 DEF IInv, RowOK
  <2>3. TouchOK'
    <3>1. \A k \in Keys : row[k].n # 0 \/ k = t[1] => row'[k].n # 0
      BY <1>2, <2>1
    <3>2. touched' = [r \in Syncs |-> IF passed[r] THEN touched[r] \cup {t[1]} ELSE touched[r]]
      BY <1>1, <1>5
    <3>3. \A r \in Syncs : touched[r] \subseteq Keys
      BY DEF IInv, LocalOK
    <3>4. QED
      BY <1>1, <1>2, <3>1, <3>2, <3>3 DEF IInv, TouchOK
  <2>4. touched' \in [Syncs -> SUBSET Keys]
    BY <1>1, <1>2, <1>5 DEF IInv, LocalOK
  <2>5. LocalOK' /\ TodoOK'
    BY <1>1, <2>4, TakeInv
  <2>6. FlagsOK'
    BY <1>1, CallCounts DEF IInv, FlagsOK
  <2>7. QED
    BY <1>3, <2>2, <2>3, <2>5, <2>6 DEF IInv
<1>6. QED
  BY <1>4, <1>5

LEMMA PositionsDoneInv == ASSUME IInv, NEW s \in Syncs, PositionsDone(s) PROVE IInv'
<1> DEFINE step == IF s \in OtherSyncs THEN "later" ELSE "comments"
<1>1. /\ pc[s] = "upsert" /\ todo[s] = {} /\ pc' = [pc EXCEPT ![s] = step]
      /\ UNCHANGED <<exch, row, hist, cooling, until, todo, passed, touched, faults>>
  BY DEF PositionsDone, Goto, table
<1>2. step \in Steps \ (InsertSteps \cup {"upsert", "transfer"}) /\ step # "idle"
  BY DEF Steps, InsertSteps
<1> HIDE DEF step
<1>3. FlagsOK' /\ Continue(s, step)
  BY <1>1, <1>2 DEF IInv, FlagsOK, Continue, Goto
<1>4. QED
  BY <1>1, <1>2, <1>3, ContinueInv

LEMMA CommentsDoneInv == ASSUME IInv, NEW s \in Syncs, CommentsDone(s) PROVE IInv'
<1>1. /\ pc[s] = "transfer" /\ todo[s] = {} /\ pc' = [pc EXCEPT ![s] = "margin"]
      /\ UNCHANGED <<exch, row, hist, cooling, until, todo, passed, touched, faults>>
  BY DEF CommentsDone, Goto, table
<1>2. "margin" \in Steps \ (InsertSteps \cup {"upsert", "transfer"})
  BY DEF Steps, InsertSteps
<1>3. FlagsOK' /\ Continue(s, "margin")
  BY <1>1 DEF IInv, FlagsOK, Continue, Goto
<1>4. QED
  BY <1>1, <1>2, <1>3, ContinueInv

LEMMA SelectInv == ASSUME IInv, NEW s \in Syncs, NEW fault, SelectStale(s, fault) PROVE IInv'
<1> DEFINE list == IF fault # "none" THEN {} ELSE {<<k, row[k].com>> : k \in {k \in Stale(s) : row[k].com # 0}}
<1>1. /\ pc[s] = "comments" /\ Call(fault) /\ pc' = [pc EXCEPT ![s] = "transfer"]
      /\ todo' = [todo EXCEPT ![s] = list]
      /\ UNCHANGED <<exch, row, hist, cooling, until, passed, touched>>
  BY DEF SelectStale, Goto, table
<1>2. list \subseteq Trades
  <2> SUFFICES ASSUME NEW k \in Keys, row[k].com # 0 PROVE <<k, row[k].com>> \in Trades
    BY DEF Stale
  <2>1. row[k].com \in 1..MaxOpens
    BY OpensAssumption DEF IInv, RowOK, Opens
  <2>2. QED
    BY <2>1 DEF Trades
<1> HIDE DEF list
<1>3. FlagsOK'
  BY <1>1, CallCounts DEF IInv, FlagsOK
<1>4. QED
  BY <1>1, <1>2, <1>3, TellInv DEF InsertSteps

LEMMA UnderClosed == ASSUME IInv, NEW k PROVE Under(k) \subseteq Closed /\ Blank(k) \subseteq Under(k)
BY DEF Under, Blank, IInv, HistOK

LEMMA TransferInv == ASSUME IInv, NEW s \in Syncs, NEW c, NEW fault, TransferComment(s, c, fault) PROVE IInv'
<1> DEFINE blank == Blank(Key(c))
           list == IF fault = "none" THEN todo[s] \ {c} ELSE {}
<1>1. /\ pc[s] = "transfer" /\ c \in todo[s] /\ Call(fault)
      /\ todo' = [todo EXCEPT ![s] = list]
      /\ hist' = IF fault # "none" \/ blank = {} THEN hist ELSE [hist EXCEPT ![Last(blank)].com = c]
      /\ UNCHANGED <<exch, row, cooling, pc, until, passed, touched>>
  BY DEF TransferComment
<1>2. ExchangeOK' /\ RowOK' /\ Closed' = Closed /\ (UNCHANGED hist => HistOK')
  BY <1>1, KeepExchange
<1>3. c \in Trades
  BY <1>1 DEF IInv, LocalOK
<1>4. blank \subseteq Closed /\ blank \subseteq Under(Key(c))
  BY UnderClosed
<1>5. HistOK'
  <2>1. CASE fault # "none" \/ blank = {}
    BY <1>1, <1>2, <2>1
  <2>2. CASE fault = "none" /\ blank # {}
    <3>1. Last(blank) \in blank
      <4> HIDE DEF blank
      <4>1. QED
        BY <1>4, <2>2, LastIs DEF IInv
    <3>2. Last(blank) \in Trades /\ hist[Last(blank)].in
      BY <1>4, <3>1 DEF Under
    <3> HIDE DEF blank
    <3>3. QED
      BY <1>1, <1>2, <1>3, <2>2, <3>2 DEF IInv, HistOK
  <2>3. QED
    BY <2>1, <2>2
<1>6. LocalOK' /\ TodoOK'
  <2>1. list \subseteq todo[s]
    OBVIOUS
  <2> HIDE DEF list
  <2>2. QED
    BY <1>1, <2>1, TakeInv DEF IInv, LocalOK
<1>7. TouchOK'
  BY <1>1 DEF IInv, TouchOK
<1>8. FlagsOK'
  BY <1>1, CallCounts DEF IInv, FlagsOK
<1>9. QED
  BY <1>2, <1>5, <1>6, <1>7, <1>8 DEF IInv

LEMMA MarginInv == ASSUME IInv, NEW s \in Syncs, NEW fault, TransferMargin(s, fault) PROVE IInv'
<1> DEFINE to == {Last(Under(k)) : k \in {k \in Stale(s) : Under(k) # {}}}
<1>1. /\ pc[s] = "margin" /\ Call(fault) /\ pc' = [pc EXCEPT ![s] = "delete"]
      /\ \/ hist' = hist
         \/ hist' = [t \in Trades |-> IF t \in to THEN [hist[t] EXCEPT !.mar = TRUE] ELSE hist[t]]
      /\ UNCHANGED <<exch, row, cooling, until, todo, passed, touched>>
  BY DEF TransferMargin, Goto
<1>2. ExchangeOK' /\ RowOK' /\ Closed' = Closed /\ (UNCHANGED hist => HistOK') /\ count' = count
      /\ Len(closings') = Len(closings)
  BY <1>1, KeepExchange DEF exch
<1>3. \A t \in to : t \in Trades /\ hist[t].in
  <2> SUFFICES ASSUME NEW k, Under(k) # {} PROVE Last(Under(k)) \in Under(k)
    BY DEF Under
  <2>1. QED
    BY UnderClosed, LastIs DEF IInv
<1> HIDE DEF to
<1>4. HistOK'
  <2>1. CASE hist' = hist
    BY <1>2, <2>1
  <2>2. CASE hist' = [t \in Trades |-> IF t \in to THEN [hist[t] EXCEPT !.mar = TRUE] ELSE hist[t]]
    BY <1>2, <1>3, <2>2 DEF IInv, HistOK
  <2>3. QED
    BY <1>1, <2>1, <2>2
<1>5. LocalOK'
  BY <1>1, <1>2 DEF IInv, LocalOK, Steps
<1>6. TouchOK' /\ TodoOK'
  BY <1>1, <1>2 DEF IInv, LocalOK, TouchOK, TodoOK, InsertSteps
<1>7. FlagsOK'
  BY <1>1, CallCounts DEF IInv, FlagsOK
<1>8. QED
  BY <1>2, <1>4, <1>5, <1>6, <1>7 DEF IInv

LEMMA DeleteInv == ASSUME IInv, NEW s \in Syncs, NEW fault, DeleteStale(s, fault) PROVE IInv'
<1>1. /\ pc[s] = "delete" /\ Call(fault)
      /\ \/ row' = row
         \/ row' = [k \in Keys |-> IF k \in Stale(s) THEN NoRow ELSE row[k]]
      /\ pc' = [pc EXCEPT ![s] = "idle"] /\ until' = [until EXCEPT ![s] = 0]
      /\ passed' = [passed EXCEPT ![s] = FALSE]
      /\ touched' = [r \in Syncs |-> IF r = s THEN {} ELSE {k \in touched[r] : row'[k].n # 0}]
      /\ UNCHANGED <<exch, hist, cooling, todo>>
  BY DEF DeleteStale, Goto
<1>2. ExchangeOK' /\ HistOK' /\ Closed' = Closed /\ (UNCHANGED row => RowOK') /\ count' = count
      /\ closings' = closings /\ Len(closings) \in Nat
  BY <1>1, KeepExchange, LenProperties DEF exch, IInv, ExchangeOK
<1>3. RowOK'
  <2>1. CASE row' = row
    BY <1>2, <2>1
  <2>2. CASE row' = [k \in Keys |-> IF k \in Stale(s) THEN NoRow ELSE row[k]]
    <3>1. NoRow \in [n : Opens, com : Opens] /\ NoRow.n = 0 /\ NoRow.com = 0
      BY OpensAssumption DEF NoRow, Opens
    <3>2. \A k \in Keys : 0 <= count[k]
      BY OpensAssumption DEF IInv, ExchangeOK, Opens
    <3>3. QED
      BY <1>2, <2>2, <3>1, <3>2 DEF IInv, RowOK
  <2>3. QED
    BY <1>1, <2>1, <2>2
<1>4. LocalOK'
  BY <1>1, <1>2 DEF IInv, LocalOK, Steps
<1>5. TouchOK' /\ TodoOK'
  BY <1>1, <1>2 DEF IInv, LocalOK, TouchOK, TodoOK, InsertSteps
<1>6. FlagsOK'
  BY <1>1, CallCounts DEF IInv, FlagsOK
<1>7. QED
  BY <1>2, <1>3, <1>4, <1>5, <1>6 DEF IInv

LEMMA StepInv == IInv /\ [Next]_vars => IInv'
<1> SUFFICES ASSUME IInv, [Next]_vars PROVE IInv'
  OBVIOUS
<1>1. ASSUME NEW s \in Syncs, SyncPositions(s) \/ SyncUser(s) \/ SyncRecentHistory(s)
      PROVE  IInv'
  BY <1>1, StartInv DEF SyncPositions, SyncUser, SyncRecentHistory
<1>2. ASSUME NEW s \in Syncs, Work(s)
      PROVE  IInv'
  BY <1>2, HistoryDoneInv, PositionsDoneInv, CommentsDoneInv, OpenPositionsInv, ClosedTradesInv,
     SelectInv, MarginInv, DeleteInv, InsertInv, UpsertInv, TransferInv DEF Work
<1>3. ASSUME User
      PROVE  IInv'
  BY <1>3, OpenInv, CloseInv, PositionCommentInv, HistoryCommentInv DEF User
<1>4. CASE UNCHANGED vars
  <2>1. UNCHANGED <<exch, row, hist, cooling, pc, until, todo, passed, touched, faults>>
    BY <1>4 DEF vars, table, local
  <2>2. count' = count /\ Len(closings') = Len(closings) /\ Closed' = Closed
    BY <2>1, KeepExchange DEF exch
  <2>3. LocalOK' /\ TouchOK' /\ TodoOK' /\ FlagsOK'
    BY <2>1, <2>2 DEF IInv, LocalOK, TouchOK, TodoOK, FlagsOK
  <2>4. QED
    BY <2>1, <2>3, KeepTables
<1>5. QED
  BY <1>1, <1>2, <1>3, <1>4, NextSecondInv, CoolOffInv, RestartInv DEF Next

LEMMA InductiveInv == Spec => []IInv
BY InitInv, StepInv, PTL DEF Spec

(***************************************************************************)
(* Rows, trades and what the syncs hold fit together and fit what happened *)
(* on the exchange: a row is of a position that was opened, a trade in the *)
(* history is of one that was closed, whatever syncs overlap and fail.     *)
(***************************************************************************)
THEOREM TypeCorrect == Spec => []TypeOK
BY InductiveInv, IInvType, PTL

-----------------------------------------------------------------------------
(***************************************************************************)
(* The history: trades do not go away, and a comment that is there stays.  *)
(***************************************************************************)
LEMMA HistoryGrows ==
    ASSUME IInv, [Next]_vars, NEW t \in Trades
    PROVE  /\ hist[t].in => hist'[t].in
           /\ hist[t].com = None \/ hist'[t].com = hist[t].com \/ UpdateHistoryComment(t)
<1> DEFINE Grows == /\ hist[t].in => hist'[t].in
                    /\ hist[t].com = None \/ hist'[t].com = hist[t].com \/ UpdateHistoryComment(t)
<1>1. ASSUME UNCHANGED hist
      PROVE  Grows
  BY <1>1
<1>2. ASSUME NEW s \in Syncs, NEW u \in todo[s], NEW fault, InsertHistory(s, u, fault)
      PROVE  Grows
  <2>1. \/ hist' = hist
        \/ hist' = [hist EXCEPT ![u].in = TRUE, ![u].mar = @ \/ Margined(u)]
    BY <1>2 DEF InsertHistory
  <2>2. u \in Trades
    BY DEF IInv, LocalOK
  <2>3. QED
    BY <2>1, <2>2 DEF IInv, HistOK
<1>3. ASSUME NEW s \in Syncs, NEW c \in todo[s], NEW fault, TransferComment(s, c, fault)
      PROVE  Grows
  <2> DEFINE blank == Blank(Key(c))
  <2>1. \/ hist' = hist
        \/ blank # {} /\ hist' = [hist EXCEPT ![Last(blank)].com = c]
    BY <1>3 DEF TransferComment
  <2>2. blank \subseteq Closed
    BY UnderClosed
  <2>3. blank # {} => Last(blank) \in blank
    <3> HIDE DEF blank
    <3>1. QED
      BY <2>2, LastIs DEF IInv
  <2>4. blank # {} => Last(blank) \in Trades /\ hist[Last(blank)].com = None
    BY <2>3 DEF Blank, Under
  <2> HIDE DEF blank
  <2>5. QED
    BY <2>1, <2>4 DEF IInv, HistOK
<1>4. ASSUME NEW s \in Syncs, NEW fault, TransferMargin(s, fault)
      PROVE  Grows
  <2>1. PICK to : \/ hist' = hist
                  \/ hist' = [u \in Trades |-> IF u \in to THEN [hist[u] EXCEPT !.mar = TRUE] ELSE hist[u]]
    BY <1>4 DEF TransferMargin
  <2>2. QED
    BY <2>1 DEF IInv, HistOK
<1>5. ASSUME NEW u \in Trades, UpdateHistoryComment(u)
      PROVE  Grows
  <2>1. hist' = [hist EXCEPT ![u].com = u]
    BY <1>5 DEF UpdateHistoryComment
  <2>2. CASE u = t
    BY <1>5, <2>1, <2>2 DEF IInv, HistOK
  <2>3. CASE u # t
    BY <2>1, <2>3 DEF IInv, HistOK
  <2>4. QED
    BY <2>2, <2>3
<1>6. ASSUME NEW s \in Syncs, SyncPositions(s) \/ SyncUser(s) \/ SyncRecentHistory(s)
      PROVE  Grows
  BY <1>1, <1>6 DEF SyncPositions, SyncUser, SyncRecentHistory, Start, table
<1>7. ASSUME NEW s \in Syncs, Work(s)
      PROVE  Grows
  <2>1. ASSUME HistoryDone(s) \/ PositionsDone(s) \/ CommentsDone(s)
        PROVE  Grows
    BY <1>1, <2>1 DEF HistoryDone, PositionsDone, CommentsDone, table
  <2>2. ASSUME NEW f, NEW hit, GetOpenPositions(s, f, hit)
        PROVE  Grows
    BY <1>1, <2>2 DEF GetOpenPositions, table
  <2>3. ASSUME NEW f, NEW hit, NEW pages, GetClosedTrades(s, f, hit, pages)
        PROVE  Grows
    BY <1>1, <2>3 DEF GetClosedTrades, table
  <2>4. ASSUME NEW f, SelectStale(s, f) \/ DeleteStale(s, f)
        PROVE  Grows
    BY <1>1, <2>4 DEF SelectStale, DeleteStale, table
  <2>5. ASSUME NEW f, NEW u, UpsertPosition(s, u, f)
        PROVE  Grows
    BY <1>1, <2>5 DEF UpsertPosition
  <2>6. QED
    BY <1>2, <1>3, <1>4, <1>7, <2>1, <2>2, <2>3, <2>4, <2>5 DEF Work
<1>8. ASSUME User
      PROVE  Grows
  <2>1. ASSUME NEW k \in Keys, OpenPosition(k) \/ ClosePosition(k) \/ UpdatePositionComment(k)
        PROVE  Grows
    BY <1>1, <2>1 DEF OpenPosition, ClosePosition, UpdatePositionComment, table
  <2>2. QED
    BY <1>5, <1>8, <2>1 DEF User
<1>9. ASSUME NextSecond \/ CoolOff \/ Restart \/ UNCHANGED vars
      PROVE  Grows
  BY <1>1, <1>9 DEF NextSecond, CoolOff, Restart, vars, table
<1>10. QED
  BY <1>6, <1>7, <1>8, <1>9 DEF Next

(***************************************************************************)
(* No sync changes a comment that is in the history: the trade a comment   *)
(* is copied to is one that has none at that moment.                       *)
(***************************************************************************)
THEOREM CommentsOfTradesStay == Spec => HistoryCommentsStay
<1>1. IInv /\ [Next]_vars =>
          [\A t \in Trades : hist[t].com # None /\ hist'[t].com # hist[t].com => UpdateHistoryComment(t)]_vars
  BY HistoryGrows
<1>2. QED
  BY InductiveInv, <1>1, PTL DEF Spec, HistoryCommentsStay

-----------------------------------------------------------------------------
(***************************************************************************)
(* What happens to a row in a step: nothing; or it is written, for every   *)
(* sync in a later second; or a cleanup deletes it, being stale.           *)
(***************************************************************************)
LEMMA RowChanges ==
    ASSUME IInv, [Next]_vars, NEW k \in Keys
    PROVE  \/ row'[k] = row[k]
           \/ /\ row'[k].n # 0
              /\ \A s \in Syncs : pc'[s] = pc[s] /\ passed'[s] = passed[s] /\ (passed[s] => k \in touched'[s])
           \/ /\ row'[k] = NoRow
              /\ \E s \in Syncs, fault \in Faults : DeleteStale(s, fault) /\ k \in Stale(s)
<1> DEFINE Changes ==
           \/ row'[k] = row[k]
           \/ /\ row'[k].n # 0
              /\ \A s \in Syncs : pc'[s] = pc[s] /\ passed'[s] = passed[s] /\ (passed[s] => k \in touched'[s])
           \/ /\ row'[k] = NoRow
              /\ \E s \in Syncs, fault \in Faults : DeleteStale(s, fault) /\ k \in Stale(s)
<1>1. ASSUME UNCHANGED row
      PROVE  Changes
  BY <1>1
<1>2. ASSUME NEW s \in Syncs, NEW t \in todo[s], NEW fault, UpsertPosition(s, t, fault)
      PROVE  Changes
  <2>1. CASE fault # "none"
    BY <1>1, <1>2, <2>1 DEF UpsertPosition
  <2>2. CASE fault = "none"
    <3>1. /\ row' = [row EXCEPT ![t[1]].n = t[2]]
          /\ touched' = [r \in Syncs |-> IF passed[r] THEN touched[r] \cup {t[1]} ELSE touched[r]]
          /\ pc' = pc /\ passed' = passed
      BY <1>2, <2>2 DEF UpsertPosition, Touch
    <3>2. t[1] \in Keys /\ t[2] # 0
      BY OpensAssumption DEF IInv, LocalOK, Trades
    <3>3. CASE k = t[1]
      <4>1. row'[k].n = t[2]
        BY <3>1, <3>3 DEF IInv, RowOK
      <4>2. QED
        BY <3>1, <3>2, <3>3, <4>1
    <3>4. CASE k # t[1]
      BY <3>1, <3>4 DEF IInv, RowOK
    <3>5. QED
      BY <3>3, <3>4
  <2>3. QED
    BY <2>1, <2>2
<1>3. ASSUME NEW l \in Keys, UpdatePositionComment(l)
      PROVE  Changes
  <2>1. /\ row' = [row EXCEPT ![l].com = row[l].n] /\ row[l].com # row[l].n
        /\ touched' = [r \in Syncs |-> IF passed[r] THEN touched[r] \cup {l} ELSE touched[r]]
        /\ pc' = pc /\ passed' = passed
    BY <1>3 DEF UpdatePositionComment, Touch
  <2>2. row[l].n # 0
    BY <2>1 DEF IInv, RowOK, NoRow
  <2>3. CASE k = l
    <3>1. row'[k].n = row[k].n
      BY <2>1, <2>3 DEF IInv, RowOK
    <3>2. QED
      BY <2>1, <2>2, <2>3, <3>1
  <2>4. CASE k # l
    BY <2>1, <2>4 DEF IInv, RowOK
  <2>5. QED
    BY <2>3, <2>4
<1>4. ASSUME NEW s \in Syncs, NEW fault \in Faults, DeleteStale(s, fault)
      PROVE  Changes
  <2>1. \/ row' = row
        \/ row' = [l \in Keys |-> IF l \in Stale(s) THEN NoRow ELSE row[l]]
    BY <1>4 DEF DeleteStale
  <2>2. QED
    BY <1>4, <2>1
<1>5. ASSUME NEW s \in Syncs, SyncPositions(s) \/ SyncUser(s) \/ SyncRecentHistory(s)
      PROVE  Changes
  BY <1>1, <1>5 DEF SyncPositions, SyncUser, SyncRecentHistory, Start, table
<1>6. ASSUME NEW s \in Syncs, Work(s)
      PROVE  Changes
  <2>1. ASSUME HistoryDone(s) \/ PositionsDone(s) \/ CommentsDone(s)
        PROVE  Changes
    BY <1>1, <2>1 DEF HistoryDone, PositionsDone, CommentsDone, table
  <2>2. ASSUME NEW f, NEW hit, GetOpenPositions(s, f, hit)
        PROVE  Changes
    BY <1>1, <2>2 DEF GetOpenPositions, table
  <2>3. ASSUME NEW f, NEW hit, NEW pages, GetClosedTrades(s, f, hit, pages)
        PROVE  Changes
    BY <1>1, <2>3 DEF GetClosedTrades, table
  <2>4. ASSUME NEW f, SelectStale(s, f) \/ TransferMargin(s, f)
        PROVE  Changes
    BY <1>1, <2>4 DEF SelectStale, TransferMargin, table
  <2>5. ASSUME NEW f, NEW u, InsertHistory(s, u, f) \/ TransferComment(s, u, f)
        PROVE  Changes
    BY <1>1, <2>5 DEF InsertHistory, TransferComment
  <2>6. QED
    BY <1>2, <1>4, <1>6, <2>1, <2>2, <2>3, <2>4, <2>5 DEF Work
<1>7. ASSUME User
      PROVE  Changes
  <2>1. ASSUME NEW l \in Keys, OpenPosition(l) \/ ClosePosition(l)
        PROVE  Changes
    BY <1>1, <2>1 DEF OpenPosition, ClosePosition, table
  <2>2. ASSUME NEW t \in Trades, UpdateHistoryComment(t)
        PROVE  Changes
    BY <1>1, <2>2 DEF UpdateHistoryComment
  <2>3. QED
    BY <1>3, <1>7, <2>1, <2>2 DEF User
<1>8. ASSUME NextSecond \/ CoolOff \/ Restart \/ UNCHANGED vars
      PROVE  Changes
  BY <1>1, <1>8 DEF NextSecond, CoolOff, Restart, vars, table
<1>9. QED
  BY <1>5, <1>6, <1>7, <1>8 DEF Next

-----------------------------------------------------------------------------
(***************************************************************************)
(* A sync that has got the positions, all of them, and has still to clean  *)
(* up is in a later second than it has started in, and has a row of an     *)
(* open position still to write or finds it written since then, by itself  *)
(* or by another sync.                                                     *)
(***************************************************************************)
CleaningSteps == {"upsert", "later", "laterInsert", "comments", "transfer", "margin", "delete"}

\* The answers so far were complete, and all they told was written.
Complete == faults = 0 \/ (ex = "okx" /\ "write" \notin FaultKinds)

Renewed(s, k) == k \in touched[s] \/ (pc[s] = "upsert" /\ <<k, open[k]>> \in todo[s])

RenewedInv ==
    \A s \in Syncs : pc[s] \in CleaningSteps =>
        /\ passed[s]
        /\ Complete => \A k \in Keys : row[k].n # 0 /\ row[k].n = open[k] => Renewed(s, k)

LEMMA InitRenewed == Init => RenewedInv
BY DEF Init, RenewedInv, CleaningSteps

LEMMA CompleteStays == ASSUME IInv, [Next]_vars PROVE (Complete' => Complete) /\ (faults' = 0 => faults = 0) /\ ex' = ex
<1>1. ASSUME NEW f, Call(f)
      PROVE  faults' = 0 => faults = 0
  BY <1>1, CallCounts
<1>2. ASSUME UNCHANGED faults
      PROVE  faults' = 0 => faults = 0
  BY <1>2
<1>3. ASSUME NEW s \in Syncs, SyncPositions(s) \/ SyncUser(s) \/ SyncRecentHistory(s)
      PROVE  (faults' = 0 => faults = 0) /\ ex' = ex
  BY <1>3 DEF SyncPositions, SyncUser, SyncRecentHistory, Start, exch
<1>4. ASSUME NEW s \in Syncs, Work(s)
      PROVE  (faults' = 0 => faults = 0) /\ ex' = ex
  <2>1. ASSUME HistoryDone(s) \/ PositionsDone(s) \/ CommentsDone(s)
        PROVE  (faults' = 0 => faults = 0) /\ ex' = ex
    BY <2>1 DEF HistoryDone, PositionsDone, CommentsDone, exch
  <2>2. ASSUME NEW f, NEW hit, GetOpenPositions(s, f, hit)
        PROVE  (faults' = 0 => faults = 0) /\ ex' = ex
    BY <1>1, <2>2 DEF GetOpenPositions, Asked, exch
  <2>3. ASSUME NEW f, NEW hit, NEW pages, GetClosedTrades(s, f, hit, pages)
        PROVE  (faults' = 0 => faults = 0) /\ ex' = ex
    BY <1>1, <2>3 DEF GetClosedTrades, Asked, exch
  <2>4. ASSUME NEW f, SelectStale(s, f) \/ DeleteStale(s, f) \/ TransferMargin(s, f)
        PROVE  (faults' = 0 => faults = 0) /\ ex' = ex
    BY <1>1, <2>4 DEF SelectStale, DeleteStale, TransferMargin, exch
  <2>5. ASSUME NEW f, NEW u, UpsertPosition(s, u, f) \/ InsertHistory(s, u, f) \/ TransferComment(s, u, f)
        PROVE  (faults' = 0 => faults = 0) /\ ex' = ex
    BY <1>1, <2>5 DEF UpsertPosition, InsertHistory, TransferComment, exch
  <2>6. QED
    BY <1>4, <2>1, <2>2, <2>3, <2>4, <2>5 DEF Work
<1>5. ASSUME User \/ NextSecond \/ CoolOff \/ UNCHANGED vars
      PROVE  (faults' = 0 => faults = 0) /\ ex' = ex
  BY <1>5 DEF User, OpenPosition, ClosePosition, UpdatePositionComment, UpdateHistoryComment,
              NextSecond, CoolOff, vars, exch
<1>6. ASSUME Restart
      PROVE  (faults' = 0 => faults = 0) /\ ex' = ex
  BY <1>1, <1>6 DEF Restart, exch
<1>7. QED
  BY <1>3, <1>4, <1>5, <1>6 DEF Next, Complete

\* What a step must do to keep RenewedInv: a row that is of the open position
\* now was so before or is written in this step, nothing written is forgotten.
LEMMA KeepRenewed ==
    ASSUME IInv, [Next]_vars, RenewedInv,
           \A s \in Syncs : pc'[s] \in CleaningSteps =>
               /\ pc[s] \in CleaningSteps /\ passed'[s] = passed[s]
               /\ touched[s] \subseteq touched'[s]
               /\ pc[s] = "upsert" =>
                      (pc'[s] = "upsert" /\ todo'[s] = todo[s]) \/ todo[s] = {},
           UNCHANGED row, \A k \in Keys : row[k].n = open'[k] /\ row[k].n # 0 => open'[k] = open[k]
    PROVE  RenewedInv'
<1> SUFFICES ASSUME NEW s \in Syncs, pc'[s] \in CleaningSteps
             PROVE  /\ passed'[s]
                    /\ Complete' => \A k \in Keys : row'[k].n # 0 /\ row'[k].n = open'[k] => Renewed(s, k)'
  BY DEF RenewedInv
<1>1. passed'[s]
  BY DEF RenewedInv
<1>2. ASSUME Complete', NEW k \in Keys, row'[k].n # 0, row'[k].n = open'[k]
      PROVE  Renewed(s, k)'
  <2>1. Renewed(s, k) /\ open'[k] = open[k]
    BY <1>2, CompleteStays DEF RenewedInv
  <2>2. QED
    BY <2>1 DEF Renewed
<1>3. QED
  BY <1>1, <1>2

\* An answer without failed requests, or one of OKX, has all that is open.
LEMMA CompleteAnswer ==
    ASSUME IInv, NEW s, NEW fault, NEW hit, GetOpenPositions(s, fault, hit), Complete',
           GetOpenPositionsOf(ex, Open, fault, hit).err = "none"
    PROVE  GetOpenPositionsOf(ex, Open, fault, hit).list = Open
<1>1. ex' = ex /\ Call(fault) /\ (fault = "none" <=> hit = {})
  BY DEF GetOpenPositions, Asked, exch
<1>2. CASE ex = "okx"
  <2>1. OkxOpenPositions(Open, fault).err = "none"
    BY <1>2 DEF GetOpenPositionsOf
  <2>2. fault = "none"
    BY <2>1 DEF OkxOpenPositions, Failed
  <2>3. QED
    BY <1>2, <2>2 DEF GetOpenPositionsOf, OkxOpenPositions, Listed
<1>3. CASE ex # "okx"
  <2>1. fault = "none" /\ hit = {}
    <3>1. faults' = 0
      BY <1>1, <1>3 DEF Complete
    <3>2. fault = "none"
      BY <1>1, <3>1, FaultsAssumption DEF Call, IInv, FlagsOK
    <3>3. QED
      BY <1>1, <3>2
  <2>2. BybitOpenPositions(Open, {}).list = Open
    BY DEF BybitOpenPositions, Listed
  <2>3. QED
    BY <1>3, <2>1, <2>2, UseAssumption
       DEF GetOpenPositionsOf, BinanceOpenPositions, GateOpenPositions, KrakenOpenPositions, Listed,
           IInv, ExchangeOK, Exchanges
<1>4. QED
  BY <1>2, <1>3

LEMMA StepRenewed ==
    ASSUME SameSecond = FALSE, IInv, RenewedInv, [Next]_vars
    PROVE  RenewedInv'
<1>1. ASSUME NEW k \in Keys, OpenPosition(k)
      PROVE  RenewedInv'
  <2>1. /\ open' = [open EXCEPT ![k] = count[k] + 1]
        /\ UNCHANGED <<row, pc, todo, passed, touched>>
    BY <1>1 DEF OpenPosition, table, local
  <2>2. ASSUME NEW l \in Keys, row[l].n = open'[l], row[l].n # 0
        PROVE  open'[l] = open[l]
    <3>1. row[l].n \in Nat /\ count[l] \in Nat /\ row[l].n <= count[l]
      BY OpensAssumption DEF IInv, ExchangeOK, RowOK, Opens
    <3>2. QED
      BY <2>1, <2>2, <3>1 DEF IInv, ExchangeOK
  <2>3. QED
    BY <2>1, <2>2, KeepRenewed
<1>2. ASSUME NEW k \in Keys, ClosePosition(k)
      PROVE  RenewedInv'
  <2>1. open' = [open EXCEPT ![k] = 0] /\ UNCHANGED <<row, pc, todo, passed, touched>>
    BY <1>2 DEF ClosePosition, table, local
  <2>2. \A l \in Keys : row[l].n = open'[l] /\ row[l].n # 0 => open'[l] = open[l]
    BY <2>1 DEF IInv, ExchangeOK
  <2>3. QED
    BY <2>1, <2>2, KeepRenewed
<1>3. ASSUME NEW k \in Keys, UpdatePositionComment(k)
      PROVE  RenewedInv'
  <2>1. /\ row' = [row EXCEPT ![k].com = row[k].n]
        /\ touched' = [s \in Syncs |-> IF passed[s] THEN touched[s] \cup {k} ELSE touched[s]]
        /\ UNCHANGED <<open, pc, todo, passed>>
    BY <1>3 DEF UpdatePositionComment, Touch, exch
  <2>2. \A l \in Keys : row'[l].n = row[l].n
    BY <2>1 DEF IInv, RowOK
  <2>3. \A s \in Syncs : touched[s] \subseteq touched'[s]
    BY <2>1
  <2>4. QED
    BY <2>1, <2>2, <2>3, CompleteStays DEF RenewedInv, Renewed
<1>4. ASSUME NEW t \in Trades, UpdateHistoryComment(t)
      PROVE  RenewedInv'
  BY <1>4, KeepRenewed DEF UpdateHistoryComment, exch, local
<1>5. ASSUME NextSecond
      PROVE  RenewedInv'
  <2>1. /\ passed' = [s \in Syncs |-> pc[s] # "idle"]
        /\ UNCHANGED <<open, row, pc, todo, touched>>
    BY <1>5 DEF NextSecond, exch, table
  <2>2. \A s \in Syncs : pc[s] \in CleaningSteps => passed[s] /\ pc[s] # "idle"
    BY DEF RenewedInv, CleaningSteps
  <2>3. QED
    BY <2>1, <2>2, KeepRenewed DEF IInv, LocalOK
<1>6. ASSUME CoolOff \/ UNCHANGED vars
      PROVE  RenewedInv'
  BY <1>6, KeepRenewed DEF CoolOff, vars, exch, table, local
<1>7. ASSUME Restart
      PROVE  RenewedInv'
  BY <1>7 DEF Restart, RenewedInv, CleaningSteps
<1>8. ASSUME NEW s \in Syncs, NEW step \in {"history", "positions", "recent"}, Start(s, step)
      PROVE  RenewedInv'
  <2>1. pc' = [pc EXCEPT ![s] = step] /\ UNCHANGED <<open, row, todo, passed, touched>>
    BY <1>8 DEF Start, Goto, exch, table
  <2>2. \A r \in Syncs : pc'[r] \in CleaningSteps => r # s /\ pc'[r] = pc[r]
    BY <2>1 DEF IInv, LocalOK, CleaningSteps
  <2>3. QED
    BY <2>1, <2>2, KeepRenewed
<1>9. ASSUME NEW s \in Syncs, NEW step, Continue(s, step), UNCHANGED <<exch, row>>,
             step \in CleaningSteps => pc[s] \in CleaningSteps /\ step # "upsert" /\ todo[s] = {}
      PROVE  RenewedInv'
  <2>1. CASE step = "idle"
    <3>1. /\ pc' = [pc EXCEPT ![s] = "idle"] /\ todo' = [todo EXCEPT ![s] = {}]
          /\ passed' = [passed EXCEPT ![s] = FALSE] /\ touched' = [touched EXCEPT ![s] = {}]
          /\ open' = open
      BY <1>9, <2>1 DEF Continue, Finish, Goto, exch
    <3>2. \A r \in Syncs : pc'[r] \in CleaningSteps => r # s
      BY <3>1 DEF IInv, LocalOK, CleaningSteps
    <3>3. \A r \in Syncs \ {s} : pc'[r] = pc[r] /\ todo'[r] = todo[r] /\ passed'[r] = passed[r] /\ touched'[r] = touched[r]
      BY <3>1 DEF IInv, LocalOK
    <3>4. QED
      BY <1>9, <3>1, <3>2, <3>3, KeepRenewed
  <2>2. CASE step # "idle"
    <3>1. pc' = [pc EXCEPT ![s] = step] /\ UNCHANGED <<open, todo, passed, touched>>
      BY <1>9, <2>2 DEF Continue, Goto, exch
    <3>2. \A r \in Syncs : pc'[r] \in CleaningSteps =>
              pc[r] \in CleaningSteps /\ (pc'[r] = pc[r] \/ todo[r] = {})
      BY <1>9, <3>1 DEF IInv, LocalOK
    <3>3. QED
      BY <1>9, <3>1, <3>2, KeepRenewed
  <2>3. QED
    BY <2>1, <2>2
<1>10. ASSUME NEW s \in Syncs, NEW fault, NEW hit, NEW pages, GetClosedTrades(s, fault, hit, pages)
       PROVE  RenewedInv'
  <2> DEFINE answer == GetClosedTradesOf(ex, closings, until[s], fault, hit, pages)
  <2>1. /\ pc[s] \in {"history", "recent", "later"} /\ UNCHANGED <<exch, row>>
        /\ IF answer.err = "none"
           THEN /\ pc' = [pc EXCEPT ![s] = Inserting[pc[s]]]
                /\ todo' = [todo EXCEPT ![s] = answer.list]
                /\ UNCHANGED <<until, passed, touched>>
           ELSE Continue(s, AfterHistory(s))
    BY <1>10 DEF GetClosedTrades, Goto, table, Inserting
  <2> HIDE DEF answer
  <2>2. CASE answer.err = "none"
    <3>1. Inserting[pc[s]] \in CleaningSteps => pc[s] = "later" /\ Inserting[pc[s]] = "laterInsert"
      BY <2>1 DEF Inserting, CleaningSteps
    <3>2. \A r \in Syncs : pc'[r] \in CleaningSteps =>
              /\ pc[r] \in CleaningSteps
              /\ pc[r] = "upsert" => pc'[r] = pc[r] /\ todo'[r] = todo[r]
      BY <2>1, <2>2, <3>1 DEF IInv, LocalOK, CleaningSteps
    <3>3. QED
      BY <2>1, <2>2, <3>2, KeepRenewed DEF exch
  <2>3. CASE answer.err # "none"
    <3>1. AfterHistory(s) \in CleaningSteps =>
              pc[s] \in CleaningSteps /\ AfterHistory(s) # "upsert" /\ todo[s] = {}
      BY <2>1 DEF AfterHistory, CleaningSteps, IInv, TodoOK, InsertSteps
    <3>2. QED
      BY <1>9, <2>1, <2>3, <3>1
  <2>4. QED
    BY <2>2, <2>3
<1>11. ASSUME NEW s \in Syncs, HistoryDone(s)
       PROVE  RenewedInv'
  <2>1. pc[s] \in InsertSteps /\ todo[s] = {} /\ Continue(s, AfterHistory(s)) /\ UNCHANGED <<exch, row>>
    BY <1>11 DEF HistoryDone, InsertSteps, table
  <2>2. AfterHistory(s) \in CleaningSteps => pc[s] \in CleaningSteps /\ AfterHistory(s) # "upsert"
    BY <2>1 DEF AfterHistory, CleaningSteps, InsertSteps
  <2>3. QED
    BY <1>9, <2>1, <2>2
<1>12. ASSUME NEW s \in Syncs, NEW t, NEW fault, InsertHistory(s, t, fault) \/ TransferComment(s, t, fault)
       PROVE  RenewedInv'
  <2>1. /\ pc[s] # "upsert" /\ UNCHANGED <<exch, row, pc, passed, touched>>
        /\ \E list : todo' = [todo EXCEPT ![s] = list]
    BY <1>12 DEF InsertHistory, TransferComment, Take
  <2>2. \A r \in Syncs : pc[r] = "upsert" => todo'[r] = todo[r]
    BY <2>1 DEF IInv, LocalOK
  <2>3. QED
    BY <2>1, <2>2, KeepRenewed DEF exch
<1>13. ASSUME NEW s \in Syncs, NEW fault, NEW hit, GetOpenPositions(s, fault, hit)
       PROVE  RenewedInv'
  <2> DEFINE answer == GetOpenPositionsOf(ex, Open, fault, hit)
  <2>1. /\ pc[s] = "positions" /\ passed[s] /\ UNCHANGED <<exch, row>>
        /\ IF answer.err = "none"
           THEN /\ pc' = [pc EXCEPT ![s] = "upsert"]
                /\ todo' = [todo EXCEPT ![s] = answer.list]
                /\ UNCHANGED <<until, passed, touched>>
           ELSE Continue(s, IF s \in OtherSyncs THEN "recent" ELSE "idle")
    BY <1>13 DEF GetOpenPositions, Goto, table
  <2>2. CASE answer.err = "none"
    <3>1. Complete' => answer.list = Open
      BY <1>13, <2>2, CompleteAnswer
    <3> HIDE DEF answer
    <3>2. pc'[s] = "upsert" /\ todo'[s] = answer.list /\ passed'[s] /\ open' = open
      BY <2>1, <2>2 DEF IInv, LocalOK, exch
    <3>3. ASSUME Complete', NEW k \in Keys, row'[k].n # 0, row'[k].n = open'[k]
          PROVE  Renewed(s, k)'
      <4>1. open[k] \in 1..MaxOpens
        BY <2>1, <3>2, <3>3, OpensAssumption DEF IInv, ExchangeOK, Opens
      <4>2. <<k, open[k]>> \in Open
        BY <4>1 DEF Open, Trades
      <4>3. QED
        BY <3>1, <3>2, <3>3, <4>2 DEF Renewed
    <3>4. \A r \in Syncs \ {s} : pc'[r] = pc[r] /\ todo'[r] = todo[r] /\ passed'[r] = passed[r] /\ touched'[r] = touched[r]
      BY <2>1, <2>2 DEF IInv, LocalOK
    <3>5. QED
      BY <2>1, <3>2, <3>3, <3>4, CompleteStays DEF RenewedInv, Renewed
  <2>3. CASE answer.err # "none"
    <3>1. "recent" \notin CleaningSteps /\ "idle" \notin CleaningSteps
      BY DEF CleaningSteps
    <3> HIDE DEF answer
    <3>2. QED
      BY <1>9, <2>1, <2>3, <3>1
  <2>4. QED
    BY <2>2, <2>3
<1>14. ASSUME NEW s \in Syncs, NEW t \in todo[s], NEW fault, UpsertPosition(s, t, fault)
       PROVE  RenewedInv'
  <2>1. CASE fault # "none"
    <3>1. ~Complete' /\ UNCHANGED <<pc, passed>>
      BY <1>14, <2>1, CallCounts, CompleteStays DEF UpsertPosition, Complete, Call
    <3>2. QED
      BY <3>1 DEF RenewedInv
  <2>2. CASE fault = "none"
    <3>1. /\ pc[s] = "upsert" /\ todo' = [todo EXCEPT ![s] = todo[s] \ {t}]
          /\ row' = [row EXCEPT ![t[1]].n = t[2]]
          /\ touched' = [r \in Syncs |-> IF passed[r] THEN touched[r] \cup {t[1]} ELSE touched[r]]
          /\ UNCHANGED <<open, pc, passed>>
      BY <1>14, <2>2 DEF UpsertPosition, Take, Touch, exch
    <3>2. t[1] \in Keys
      BY DEF IInv, LocalOK, Trades
    <3>3. \A k \in Keys \ {t[1]} : row'[k] = row[k]
      BY <3>1, <3>2 DEF IInv, RowOK
    <3>4. ASSUME NEW r \in Syncs, pc[r] \in CleaningSteps, Complete',
                 NEW k \in Keys, row'[k].n # 0, row'[k].n = open'[k]
          PROVE  Renewed(r, k)'
      <4>1. passed[r] /\ touched'[r] = touched[r] \cup {t[1]}
        BY <3>1, <3>4 DEF RenewedInv
      <4>2. CASE k = t[1]
        BY <4>1, <4>2 DEF Renewed
      <4>3. CASE k # t[1]
        <5>1. Renewed(r, k)
          BY <3>1, <3>3, <3>4, <4>3, CompleteStays DEF RenewedInv
        <5>2. <<k, open[k]>> \in todo[r] => <<k, open[k]>> \in todo'[r]
          BY <3>1, <4>3 DEF IInv, LocalOK
        <5>3. QED
          BY <3>1, <4>1, <5>1, <5>2 DEF Renewed
      <4>4. QED
        BY <4>2, <4>3
    <3>5. QED
      BY <3>1, <3>4 DEF RenewedInv
  <2>3. QED
    BY <2>1, <2>2
<1>15. ASSUME NEW s \in Syncs, PositionsDone(s)
       PROVE  RenewedInv'
  <2>1. /\ pc[s] = "upsert" /\ todo[s] = {}
        /\ \E step \in {"later", "comments"} : pc' = [pc EXCEPT ![s] = step]
        /\ UNCHANGED <<open, row, todo, passed, touched>>
    BY <1>15 DEF PositionsDone, Goto, exch, table
  <2>2. \A r \in Syncs : pc'[r] \in CleaningSteps => pc[r] \in CleaningSteps /\ (pc'[r] = pc[r] \/ todo[r] = {})
    BY <2>1 DEF IInv, LocalOK, CleaningSteps
  <2>3. QED
    BY <2>1, <2>2, KeepRenewed
<1>16. ASSUME NEW s \in Syncs, NEW fault, SelectStale(s, fault)
       PROVE  RenewedInv'
  <2>1. /\ pc[s] = "comments" /\ pc' = [pc EXCEPT ![s] = "transfer"]
        /\ \E list : todo' = [todo EXCEPT ![s] = list]
        /\ UNCHANGED <<open, row, passed, touched>>
    BY <1>16 DEF SelectStale, Goto, exch, table
  <2>2. \A r \in Syncs : pc'[r] \in CleaningSteps =>
            pc[r] \in CleaningSteps /\ (pc[r] = "upsert" => pc'[r] = pc[r] /\ todo'[r] = todo[r])
    BY <2>1 DEF IInv, LocalOK, CleaningSteps
  <2>3. QED
    BY <2>1, <2>2, KeepRenewed
<1>17. ASSUME NEW s \in Syncs, NEW fault, CommentsDone(s) \/ TransferMargin(s, fault)
       PROVE  RenewedInv'
  <2>1. /\ pc[s] \in {"transfer", "margin"} /\ \E step \in {"margin", "delete"} : pc' = [pc EXCEPT ![s] = step]
        /\ UNCHANGED <<open, row, todo, passed, touched>>
    BY <1>17 DEF CommentsDone, TransferMargin, Goto, exch, table
  <2>2. \A r \in Syncs : pc'[r] \in CleaningSteps =>
            pc[r] \in CleaningSteps /\ (pc[r] = "upsert" => pc'[r] = pc[r])
    BY <2>1 DEF IInv, LocalOK, CleaningSteps
  <2>3. QED
    BY <2>1, <2>2, KeepRenewed
<1>18. ASSUME NEW s \in Syncs, NEW fault, DeleteStale(s, fault)
       PROVE  RenewedInv'
  <2>1. /\ pc' = [pc EXCEPT ![s] = "idle"] /\ passed' = [passed EXCEPT ![s] = FALSE]
        /\ row' = row \/ row' = [k \in Keys |-> IF k \in Stale(s) THEN NoRow ELSE row[k]]
        /\ touched' = [r \in Syncs |-> IF r = s THEN {} ELSE {k \in touched[r] : row'[k].n # 0}]
        /\ UNCHANGED <<open, todo>>
    BY <1>18 DEF DeleteStale, Goto, exch
  <2>2. \A k \in Keys : row'[k].n # 0 => row'[k] = row[k]
    BY <2>1 DEF NoRow
  <2>3. \A r \in Syncs : pc'[r] \in CleaningSteps => r # s /\ pc'[r] = pc[r] /\ passed'[r] = passed[r]
    BY <2>1 DEF IInv, LocalOK, CleaningSteps
  <2>4. \A r \in Syncs \ {s} : \A k \in Keys : k \in touched[r] /\ row'[k].n # 0 => k \in touched'[r]
    BY <2>1
  <2>5. ASSUME NEW r \in Syncs, pc'[r] \in CleaningSteps
        PROVE  /\ passed'[r]
               /\ Complete' => \A k \in Keys : row'[k].n # 0 /\ row'[k].n = open'[k] => Renewed(r, k)'
    <3>1. r # s /\ pc'[r] = pc[r] /\ passed'[r]
      BY <2>3, <2>5 DEF RenewedInv
    <3>2. ASSUME Complete', NEW k \in Keys, row'[k].n # 0, row'[k].n = open'[k]
          PROVE  Renewed(r, k)'
      <4>1. Renewed(r, k)
        BY <2>1, <2>2, <2>5, <3>1, <3>2, CompleteStays DEF RenewedInv
      <4>2. QED
        BY <2>1, <2>4, <3>1, <3>2, <4>1 DEF Renewed
    <3>3. QED
      BY <3>1, <3>2
  <2>6. QED
    BY <2>5 DEF RenewedInv
<1>19. ASSUME NEW s \in Syncs, SyncPositions(s) \/ SyncUser(s) \/ SyncRecentHistory(s)
       PROVE  RenewedInv'
  BY <1>8, <1>19 DEF SyncPositions, SyncUser, SyncRecentHistory
<1>20. ASSUME NEW s \in Syncs, Work(s)
       PROVE  RenewedInv'
  BY <1>10, <1>11, <1>12, <1>13, <1>14, <1>15, <1>16, <1>17, <1>18, <1>20 DEF Work
<1>21. ASSUME User
       PROVE  RenewedInv'
  BY <1>1, <1>2, <1>3, <1>4, <1>21 DEF User
<1>22. QED
  BY <1>5, <1>6, <1>7, <1>19, <1>20, <1>21 DEF Next

(***************************************************************************)
(* No sync deletes the row of a position that is open on the exchange, in  *)
(* whatever order syncs overlap and positions open and close: on OKX       *)
(* whatever requests fail, on the others as long as none does.  It needs   *)
(* an exchange that answers after the second the sync has started in, and, *)
(* on OKX, a database that does not refuse a row.                          *)
(***************************************************************************)
THEOREM OpenRowsStay ==
    ASSUME SameSecond = FALSE, "okx" \in Used => "write" \notin FaultKinds
    PROVE  Spec => OpenRowsSurvive
<1> DEFINE Survives == \A k \in Keys :
            /\ ex = "okx" \/ faults' = 0
            /\ row[k].n # 0 /\ row'[k].n = 0
            => open[k] # row[k].n
<1>1. IInv /\ RenewedInv /\ [Next]_vars => RenewedInv'
  BY StepRenewed
<1>2. IInv /\ RenewedInv /\ [Next]_vars => [Survives]_vars
  <2> SUFFICES ASSUME IInv, RenewedInv, Next, NEW k \in Keys, ex = "okx" \/ faults' = 0,
                      row[k].n # 0, row'[k].n = 0
               PROVE  open[k] # row[k].n
    OBVIOUS
  <2>1. PICK s \in Syncs : pc[s] = "delete" /\ k \in Stale(s)
    BY RowChanges DEF DeleteStale
  <2>2. Complete
    BY CompleteStays DEF Complete, IInv, ExchangeOK
  <2>3. QED
    BY <2>1, <2>2 DEF RenewedInv, Renewed, Stale, CleaningSteps
<1>3. QED
  BY InductiveInv, InitRenewed, <1>1, <1>2, PTL DEF Spec, OpenRowsSurvive

-----------------------------------------------------------------------------
(***************************************************************************)
(* Comments.  What a step does to a sync: nothing, or it starts, ends, or  *)
(* does a step of its work.  Until it ends it keeps the time it began, and *)
(* forgets nothing it knows to be fresh.                                   *)
(***************************************************************************)
Starts(s) == SyncPositions(s) \/ SyncUser(s) \/ SyncRecentHistory(s)

Remembers(s) == until'[s] = until[s] /\ \A k \in touched[s] : row'[k].n # 0 => k \in touched'[s]

LEMMA SyncSteps ==
    ASSUME IInv, [Next]_vars, NEW s \in Syncs
    PROVE  \/ pc'[s] = pc[s] /\ todo'[s] = todo[s] /\ Remembers(s)
           \/ pc'[s] = "idle"
           \/ Starts(s)
           \/ Work(s) /\ Remembers(s)
<1> DEFINE Does == \/ pc'[s] = pc[s] /\ todo'[s] = todo[s] /\ Remembers(s)
                   \/ pc'[s] = "idle"
                   \/ Starts(s)
                   \/ Work(s) /\ Remembers(s)
<1>1. ASSUME UNCHANGED <<pc, todo, until>>, touched[s] \subseteq touched'[s]
      PROVE  Does
  BY <1>1 DEF Remembers
<1>2. ASSUME NEW r \in Syncs, r # s, Starts(r)
      PROVE  Does
  BY <1>2 DEF Starts, SyncPositions, SyncUser, SyncRecentHistory, Start, Goto, Remembers, IInv, LocalOK
<1>3. ASSUME NEW r \in Syncs, NEW step, Continue(r, step)
      PROVE  /\ r # s => pc'[s] = pc[s] /\ todo'[s] = todo[s] /\ Remembers(s)
             /\ r = s => pc'[s] = "idle" \/ Remembers(s)
  BY <1>3 DEF Continue, Finish, Goto, Remembers, IInv, LocalOK
<1>4. ASSUME NEW r \in Syncs, Work(r), UNCHANGED <<until, touched>>,
             \E step : pc' = [pc EXCEPT ![r] = step],
             \E list : todo' = [todo EXCEPT ![r] = list]
      PROVE  Does
  BY <1>4 DEF Remembers, IInv, LocalOK
<1>5. ASSUME NEW r \in Syncs, Work(r), HistoryDone(r)
      PROVE  Does
  <2>1. Continue(r, AfterHistory(r))
    BY <1>5 DEF HistoryDone
  <2>2. QED
    BY <1>3, <1>5, <2>1
<1>6. ASSUME NEW r \in Syncs, Work(r), NEW f, NEW hit, NEW pages, GetClosedTrades(r, f, hit, pages)
      PROVE  Does
  <2>1. \/ /\ \E step : pc' = [pc EXCEPT ![r] = step]
           /\ \E list : todo' = [todo EXCEPT ![r] = list]
           /\ UNCHANGED <<until, touched>>
        \/ Continue(r, AfterHistory(r))
    BY <1>6 DEF GetClosedTrades, Goto
  <2>2. QED
    BY <1>3, <1>4, <1>6, <2>1
<1>7. ASSUME NEW r \in Syncs, Work(r), NEW f, NEW hit, GetOpenPositions(r, f, hit)
      PROVE  Does
  <2>1. \/ /\ \E step : pc' = [pc EXCEPT ![r] = step]
           /\ \E list : todo' = [todo EXCEPT ![r] = list]
           /\ UNCHANGED <<until, touched>>
        \/ Continue(r, IF r \in OtherSyncs THEN "recent" ELSE "idle")
    BY <1>7 DEF GetOpenPositions, Goto
  <2>2. QED
    BY <1>3, <1>4, <1>7, <2>1
<1>8. ASSUME NEW r \in Syncs, Work(r), NEW f, SelectStale(r, f)
      PROVE  Does
  BY <1>4, <1>8 DEF SelectStale, Goto
<1>9. ASSUME NEW r \in Syncs, Work(r), NEW f,
             PositionsDone(r) \/ CommentsDone(r) \/ TransferMargin(r, f)
      PROVE  Does
  <2>1. (\E step : pc' = [pc EXCEPT ![r] = step]) /\ UNCHANGED <<todo, until, touched>>
    BY <1>9 DEF PositionsDone, CommentsDone, TransferMargin, Goto
  <2>2. QED
    BY <1>9, <2>1 DEF Remembers, IInv, LocalOK
<1>10. ASSUME NEW r \in Syncs, Work(r), NEW f, NEW t, InsertHistory(r, t, f) \/ TransferComment(r, t, f)
       PROVE  Does
  <2>1. (\E list : todo' = [todo EXCEPT ![r] = list]) /\ UNCHANGED <<pc, until, touched>>
    BY <1>10 DEF InsertHistory, TransferComment, Take
  <2>2. QED
    BY <1>10, <2>1 DEF Remembers, IInv, LocalOK
<1>11. ASSUME NEW r \in Syncs, Work(r), NEW f, NEW t, UpsertPosition(r, t, f)
       PROVE  Does
  <2>1. /\ \E list : todo' = [todo EXCEPT ![r] = list]
        /\ UNCHANGED <<pc, until>> /\ touched[s] \subseteq touched'[s]
    BY <1>11 DEF UpsertPosition, Take, Touch
  <2>2. QED
    BY <1>11, <2>1 DEF Remembers, IInv, LocalOK
<1>12. ASSUME NEW r \in Syncs, Work(r), NEW f, DeleteStale(r, f)
       PROVE  Does
  <2>1. /\ pc' = [pc EXCEPT ![r] = "idle"] /\ until' = [until EXCEPT ![r] = 0] /\ todo' = todo
        /\ touched' = [q \in Syncs |-> IF q = r THEN {} ELSE {k \in touched[q] : row'[k].n # 0}]
    BY <1>12 DEF DeleteStale, Goto
  <2>2. CASE r = s
    BY <2>1, <2>2 DEF IInv, LocalOK
  <2>3. CASE r # s
    BY <2>1, <2>3 DEF Remembers, IInv, LocalOK
  <2>4. QED
    BY <2>2, <2>3
<1>13. ASSUME NEW r \in Syncs, Work(r)
       PROVE  Does
  BY <1>5, <1>6, <1>7, <1>8, <1>9, <1>10, <1>11, <1>12, <1>13 DEF Work
<1>14. ASSUME User
       PROVE  Does
  <2>1. UNCHANGED <<pc, todo, until>> /\ touched[s] \subseteq touched'[s]
    BY <1>14 DEF User, OpenPosition, ClosePosition, UpdatePositionComment, UpdateHistoryComment, Touch, local
  <2>2. QED
    BY <1>1, <2>1
<1>15. ASSUME NextSecond \/ CoolOff \/ UNCHANGED vars
       PROVE  Does
  BY <1>1, <1>15 DEF NextSecond, CoolOff, vars, local
<1>16. ASSUME Restart
       PROVE  Does
  BY <1>16 DEF Restart
<1>17. QED
  BY <1>2, <1>13, <1>14, <1>15, <1>16 DEF Next, Starts

(***************************************************************************)
(* The trades a request of a sync still reaches that was there when the    *)
(* sync began.  The list of closings grows at its end only, so their       *)
(* number does not grow while the sync runs.                               *)
(***************************************************************************)
Wanted(s) == {t \in Members(Earlier(closings, until[s])) : Reached(t)}

LEMMA WantedClosed ==
    ASSUME IInv, NEW s \in Syncs, NEW t \in Wanted(s)
    PROVE  /\ t \in Closed /\ t \in Trades
           /\ Nth(t) \in 1..until[s] /\ Len(closings) - Nth(t) < Reach
           /\ until[s] \in Nat /\ until[s] <= Len(closings) /\ Len(closings) \in Nat
<1>1. Len(closings) \in Nat /\ DOMAIN closings = 1..Len(closings) /\ until[s] \in 0..Len(closings)
  BY LenProperties DEF IInv, ExchangeOK, LocalOK
<1>2. PICK i \in 1..until[s] : t = closings[i]
  BY EarlierIs, <1>1 DEF Wanted, IInv
<1>3. i \in DOMAIN closings
  BY <1>1
<1>4. t \in Closed
  BY <1>2, <1>3 DEF Closed, Members
<1>5. Nth(t) = i
  BY <1>2, <1>3, <1>4, NthIs DEF IInv
<1>6. QED
  BY <1>1, <1>4, <1>5 DEF Wanted, Reached, IInv, ExchangeOK

\* Conversely.
LEMMA ClosedWanted ==
    ASSUME IInv, NEW s \in Syncs, NEW t \in Closed,
           Nth(t) <= until[s], Len(closings) - Nth(t) < Reach
    PROVE  t \in Wanted(s)
<1>1. until[s] \in 0..Len(closings) /\ Len(closings) \in Nat
  BY LenProperties DEF IInv, LocalOK, ExchangeOK
<1>2. Nth(t) \in 1..until[s] /\ closings[Nth(t)] = t
  BY <1>1, NthIs DEF IInv
<1>3. t \in Members(Earlier(closings, until[s]))
  BY <1>1, <1>2, EarlierIs DEF IInv
<1>4. QED
  BY <1>3 DEF Wanted, Reached

LEMMA NthStays ==
    ASSUME IInv, [Next]_vars
    PROVE  /\ Len(closings) \in Nat /\ Len(closings') \in Nat /\ Len(closings) <= Len(closings')
           /\ Closed \subseteq Closed' /\ ex' = ex
           /\ \A t \in Closed : Nth(t)' = Nth(t)
           /\ \A i \in 1..Len(closings) : closings'[i] = closings[i]
<1> DEFINE Stays == /\ Len(closings) <= Len(closings') /\ Closed \subseteq Closed'
                    /\ \A t \in Closed : Nth(t)' = Nth(t)
                    /\ \A i \in 1..Len(closings) : closings'[i] = closings[i]
<1>1. ASSUME NEW k \in Keys, ClosePosition(k)
      PROVE  Stays
  <2>1. Len(closings) <= Len(closings')
    <3>1. Len(closings') = Len(closings) + 1 /\ Len(closings) \in Nat
      BY <1>1, CloseInv, Zenon
    <3>2. QED
      BY <3>1
  <2>2. Closed \subseteq Closed' /\ \A t \in Closed : Nth(t)' = Nth(t)
    BY <1>1, CloseInv
  <2>3. \A i \in 1..Len(closings) : closings'[i] = closings[i]
    BY <1>1, CloseInv
  <2>4. QED
    BY <2>1, <2>2, <2>3
<1>2. Len(closings) \in Nat /\ Len(closings') \in Nat
  BY StepInv, LenProperties DEF IInv, ExchangeOK
<1>3. ASSUME UNCHANGED closings
      PROVE  Stays
  BY <1>2, <1>3 DEF Closed, Nth
<1>4. ASSUME NEW s \in Syncs, SyncPositions(s) \/ SyncUser(s) \/ SyncRecentHistory(s)
      PROVE  Stays
  BY <1>3, <1>4 DEF SyncPositions, SyncUser, SyncRecentHistory, Start, exch
<1>5. ASSUME NEW s \in Syncs, Work(s)
      PROVE  Stays
  <2>1. ASSUME HistoryDone(s) \/ PositionsDone(s) \/ CommentsDone(s)
        PROVE  Stays
    BY <1>3, <2>1 DEF HistoryDone, PositionsDone, CommentsDone, exch
  <2>2. ASSUME NEW f, NEW hit, GetOpenPositions(s, f, hit)
        PROVE  Stays
    BY <1>3, <2>2 DEF GetOpenPositions, exch
  <2>3. ASSUME NEW f, NEW hit, NEW pages, GetClosedTrades(s, f, hit, pages)
        PROVE  Stays
    BY <1>3, <2>3 DEF GetClosedTrades, exch
  <2>4. ASSUME NEW f, SelectStale(s, f) \/ DeleteStale(s, f) \/ TransferMargin(s, f)
        PROVE  Stays
    BY <1>3, <2>4 DEF SelectStale, DeleteStale, TransferMargin, exch
  <2>5. ASSUME NEW f, NEW u, UpsertPosition(s, u, f) \/ InsertHistory(s, u, f) \/ TransferComment(s, u, f)
        PROVE  Stays
    BY <1>3, <2>5 DEF UpsertPosition, InsertHistory, TransferComment, exch
  <2>6. QED
    BY <1>5, <2>1, <2>2, <2>3, <2>4, <2>5 DEF Work
<1>6. ASSUME User
      PROVE  Stays
  <2>1. ASSUME NEW k \in Keys, OpenPosition(k) \/ UpdatePositionComment(k)
        PROVE  Stays
    BY <1>3, <2>1 DEF OpenPosition, UpdatePositionComment, exch
  <2>2. ASSUME NEW t \in Trades, UpdateHistoryComment(t)
        PROVE  Stays
    BY <1>3, <2>2 DEF UpdateHistoryComment, exch
  <2>3. QED
    BY <1>1, <1>6, <2>1, <2>2 DEF User
<1>7. ASSUME NextSecond \/ CoolOff \/ Restart \/ UNCHANGED vars
      PROVE  Stays
  BY <1>3, <1>7 DEF NextSecond, CoolOff, Restart, vars, exch
<1>8. QED
  BY <1>2, <1>4, <1>5, <1>6, <1>7, CompleteStays DEF Next

LEMMA WantedShrinks ==
    ASSUME IInv, [Next]_vars, NEW s \in Syncs, until'[s] = until[s]
    PROVE  Wanted(s)' \subseteq Wanted(s)
<1> SUFFICES ASSUME NEW t \in Wanted(s)' PROVE t \in Wanted(s)
  OBVIOUS
<1>1. /\ closings' \in Seq(Trades) /\ until[s] \in 0..Len(closings) /\ until[s] \in 0..Len(closings')
      /\ DOMAIN closings = 1..Len(closings)
  BY StepInv, NthStays, LenProperties DEF IInv, ExchangeOK, LocalOK
<1>2. PICK i \in 1..until[s] : t = closings'[i]
  <2>1. Members(Earlier(closings', until[s])) = {closings'[i] : i \in 1..until[s]}
    BY <1>1, EarlierOf
  <2>2. QED
    BY <2>1 DEF Wanted
<1>3. t = closings[i] /\ i \in DOMAIN closings
  BY <1>1, <1>2, NthStays
<1>4. t \in Closed /\ Nth(t) = i
  <2>1. t \in Closed
    BY <1>3 DEF Closed, Members
  <2>2. QED
    BY <1>3, <2>1, NthIs DEF IInv
<1>5. Len(closings') - Nth(t)' < Reach'
  BY DEF Wanted, Reached
<1>6. Reach' = Reach /\ Nth(t)' = i
  BY <1>4, NthStays DEF Reach
<1>7. Reach \in Nat /\ i \in Nat /\ i <= until[s] /\ until[s] \in Nat
  BY <1>1, <1>2, AdaptersAssumption DEF Reach
<1>8. Len(closings) - Nth(t) < Reach
  BY <1>4, <1>5, <1>6, <1>7, NthStays
<1>9. QED
  BY <1>4, <1>7, <1>8, ClosedWanted

LEMMA NothingFails ==
    ASSUME IInv, NEW u, NEW pages
    PROVE  GetClosedTradesOf(ex, closings, u, "none", {}, pages).err = "none"
<1>1. /\ BybitClosedTrades(closings, u, {}, pages).err = "none"
      /\ OkxClosedTrades(closings, u, "none").err = "none"
      /\ BinanceClosedTrades(closings, u, "none").err = "none"
      /\ GateClosedTrades(closings, u, "none").err = "none"
      /\ KrakenClosedTrades(closings, u, "none").err = "none"
  BY DEF BybitClosedTrades, OkxClosedTrades, BinanceClosedTrades, GateClosedTrades, KrakenClosedTrades, Listed
<1>2. QED
  BY <1>1, UseAssumption DEF GetClosedTradesOf, IInv, ExchangeOK, Exchanges

\* A request that does not fail answers every trade that is wanted.
LEMMA WantedAnswered ==
    ASSUME IInv, NEW s \in Syncs, NEW t \in Wanted(s), NEW pages
    PROVE  LET answer == GetClosedTradesOf(ex, closings, until[s], "none", {}, pages)
           IN  answer.err = "none" /\ t \in answer.list
<1> DEFINE u == until[s]
           i == Nth(t)
           e == Earlier(closings, u)
<1>1. /\ t \in Closed /\ i \in 1..u /\ Len(closings) - i < Reach /\ closings[i] = t
      /\ u \in Nat /\ u <= Len(closings) /\ Len(closings) \in Nat /\ i \in DOMAIN closings
      /\ DOMAIN closings = 1..Len(closings)
  BY WantedClosed, NthIs, LenProperties DEF IInv, ExchangeOK
<1>2. /\ Len(e) = u /\ DOMAIN e = 1..u /\ e[i] = t /\ t \in Members(e)
      /\ e \in Seq(Trades)
  BY <1>1, EarlierIs DEF IInv, LocalOK
<1>3. PageSize \in Nat /\ PageSize * MaxPages \in Nat
  BY AdaptersAssumption
<1> HIDE DEF e, i, u
<1>4. ASSUME Reach = PageSize
      PROVE  t \in Newest(closings, PageSize) /\ t \in Newest(e, PageSize)
  <2>1. i \in (Len(closings) - PageSize + 1)..Len(closings) /\ i \in (Len(e) - PageSize + 1)..Len(e)
    BY <1>1, <1>2, <1>3, <1>4
  <2>2. QED
    BY <1>1, <1>2, <2>1 DEF Newest
<1>5. CASE ex = "okx"
  <2>1. t \in OkxClosedTrades(closings, u, "none").list /\ OkxClosedTrades(closings, u, "none").err = "none"
    BY <1>2, <1>4, <1>5 DEF OkxClosedTrades, Listed, Reach, e
  <2>2. QED
    BY <1>5, <2>1 DEF GetClosedTradesOf, u
<1>6. CASE ex = "bybit"
  <2> DEFINE c == CategoryOf[Symbol(t)]
             In == {j \in DOMAIN e : CategoryOf[Symbol(e[j])] = c}
             n == PageSize * MaxPages
  <2>1. c \in Categories
    BY <1>1, AdaptersAssumption DEF Symbol, IInv, ExchangeOK, Trades, Keys
  <2>2. i \in In
    BY <1>1, <1>2
  <2>3. Cardinality({j \in In : j > i}) < n
    <3>1. {j \in In : j > i} \in SUBSET ((i + 1)..u)
      BY <1>1, <1>2
    <3>2. /\ IsFiniteSet((i + 1)..u) /\ Cardinality((i + 1)..u) = u - i
      BY <1>1, FS_Interval
    <3>3. IsFiniteSet({j \in In : j > i}) /\ Cardinality({j \in In : j > i}) <= u - i
      BY <3>1, <3>2, FS_Subset
    <3>4. Cardinality({j \in In : j > i}) \in Nat
      BY <3>3, FS_CardinalityType
    <3>5. u - i < n
      BY <1>1, <1>3, <1>6 DEF Reach
    <3> HIDE DEF In, n
    <3>6. QED
      BY <1>1, <1>3, <3>3, <3>4, <3>5 DEF n
  <2>4. t \in NewestOf(e, c, n)
    BY <1>2, <2>2, <2>3 DEF NewestOf
  <2>5. /\ t \in BybitClosedTrades(closings, u, {}, pages).list
        /\ BybitClosedTrades(closings, u, {}, pages).err = "none"
    <3>1. BybitClosedTrades(closings, u, {}, pages) =
              Listed(UNION {NewestOf(e, d, n) : d \in Categories})
      BY DEF BybitClosedTrades, e
    <3> HIDE DEF c, n
    <3>2. QED
      BY <2>1, <2>4, <3>1 DEF Listed
  <2>6. QED
    BY <1>6, <2>5 DEF GetClosedTradesOf, u
<1>7. CASE ex \in {"binance", "gate", "kraken"}
  <2>1. /\ t \in BinanceClosedTrades(closings, u, "none").list
        /\ t \in GateClosedTrades(closings, u, "none").list
        /\ t \in KrakenClosedTrades(closings, u, "none").list
        /\ BinanceClosedTrades(closings, u, "none").err = "none"
        /\ GateClosedTrades(closings, u, "none").err = "none"
        /\ KrakenClosedTrades(closings, u, "none").err = "none"
    BY <1>4, <1>7 DEF BinanceClosedTrades, GateClosedTrades, KrakenClosedTrades, Listed, Reach, e
  <2>2. QED
    BY <1>7, <2>1 DEF GetClosedTradesOf, u
<1>8. QED
  BY <1>5, <1>6, <1>7, UseAssumption DEF IInv, ExchangeOK, Exchanges

(***************************************************************************)
(* As long as nothing fails, the trades a sync wants are in the history    *)
(* once it is past them (SyncPositions before it has got the positions,    *)
(* SyncUser after), and a stale row of a sync past the transfer has had    *)
(* its comment taken over.                                                 *)
(***************************************************************************)
Recorded(s) == \A t \in Wanted(s) : hist[t].in

\* As KeepsComments has it: the trade of the comment, or a later one of the key.
TakenOver(s, k) ==
    LET t == <<k, row[k].com>> IN
    row[k].com # 0 /\ t \in Wanted(s) /\ RecordedUnder(ex, t, Losing) = k
        => \E u \in Under(k) : Nth(u) >= Nth(t) /\ hist[u].com # None

RecordedInv(s) ==
    /\ pc[s] \in {"insert", "laterInsert"} => \A t \in Wanted(s) : hist[t].in \/ t \in todo[s]
    /\ pc[s] \in {"comments", "transfer", "margin", "delete"} => Recorded(s)
    /\ s \in LiveSyncs /\ pc[s] \in {"positions", "upsert"} => Recorded(s)

TakenInv(s) ==
    /\ pc[s] = "transfer" =>
           \A k \in Stale(s) : row[k].com # 0 => <<k, row[k].com>> \in todo[s] \/ TakenOver(s, k)
    /\ pc[s] \in {"margin", "delete"} => \A k \in Stale(s) : TakenOver(s, k)

CommentsInv == faults = 0 => \A s \in Syncs : RecordedInv(s) /\ TakenInv(s)

LEMMA InitComments == Init => CommentsInv
BY DEF Init, CommentsInv, RecordedInv, TakenInv

LEMMA RecordedStays ==
    ASSUME IInv, [Next]_vars, NEW s \in Syncs, until'[s] = until[s], Recorded(s)
    PROVE  Recorded(s)'
<1> SUFFICES ASSUME NEW t \in Wanted(s)' PROVE hist'[t].in
  BY DEF Recorded
<1>1. t \in Wanted(s)
  BY WantedShrinks
<1>2. t \in Trades /\ hist[t].in
  BY <1>1, WantedClosed DEF Recorded
<1>3. QED
  BY <1>2, HistoryGrows

LEMMA UnderGrows ==
    ASSUME IInv, [Next]_vars, NEW k, NEW t \in Under(k)
    PROVE  /\ t \in Under(k)' /\ t \in Closed
           /\ hist[t].com # None => hist'[t].com # None
<1>1. t \in Trades /\ hist[t].in /\ RecordedUnder(ex, t, Losing) = k
  BY DEF Under
<1>2. hist'[t].in /\ ex' = ex
  BY <1>1, HistoryGrows, CompleteStays
<1>3. t \in Under(k)'
  BY <1>1, <1>2 DEF Under
<1>4. hist[t].com # None => hist'[t].com # None
  <2>1. ASSUME UpdateHistoryComment(t)
        PROVE  hist'[t].com = t
    BY <1>1, <2>1 DEF UpdateHistoryComment, IInv, HistOK
  <2>2. t # None
    BY <1>1, OpensAssumption DEF Trades
  <2>3. QED
    BY <1>1, <2>1, <2>2, HistoryGrows
<1>5. QED
  BY <1>3, <1>4, UnderClosed

LEMMA TakenStays ==
    ASSUME IInv, [Next]_vars, NEW s \in Syncs, NEW k \in Keys,
           until'[s] = until[s], row'[k] = row[k], TakenOver(s, k)
    PROVE  TakenOver(s, k)'
<1> DEFINE t == <<k, row[k].com>>
<1> SUFFICES ASSUME row[k].com # 0, t \in Wanted(s)', RecordedUnder(ex', t, Losing) = k
             PROVE  \E u \in Under(k)' : Nth(u)' >= Nth(t)' /\ hist'[u].com # None
  BY DEF TakenOver
<1>1. t \in Wanted(s) /\ t \in Closed
  BY WantedShrinks, WantedClosed
<1>2. ex' = ex
  BY CompleteStays
<1>3. PICK u \in Under(k) : Nth(u) >= Nth(t) /\ hist[u].com # None
  BY <1>1, <1>2 DEF TakenOver
<1>4. u \in Under(k)' /\ u \in Closed /\ hist'[u].com # None
  BY <1>3, UnderGrows
<1>5. Nth(u)' = Nth(u) /\ Nth(t)' = Nth(t)
  BY <1>1, <1>4, NthStays
<1>6. QED
  BY <1>3, <1>4, <1>5

\* What is stale was so before, and has not been written since.
LEMMA StaleStays ==
    ASSUME IInv, RenewedInv, [Next]_vars, NEW s \in Syncs, NEW k \in Stale(s)', Remembers(s),
           pc[s] \in CleaningSteps, pc'[s] # "idle"
    PROVE  k \in Stale(s) /\ k \in Keys /\ row'[k] = row[k]
<1>1. k \in Keys /\ row'[k].n # 0 /\ k \notin touched'[s]
  BY DEF Stale
<1>2. passed[s]
  BY DEF RenewedInv
<1>3. row'[k] = row[k]
  BY <1>1, <1>2, RowChanges DEF NoRow
<1>4. k \notin touched[s]
  BY <1>1 DEF Remembers
<1>5. QED
  BY <1>1, <1>3, <1>4 DEF Stale

\* A step of another, of the user or of a clock.
LEMMA KeepComments ==
    ASSUME IInv, RenewedInv, [Next]_vars, NEW s \in Syncs, pc'[s] = pc[s], todo'[s] = todo[s],
           Remembers(s), RecordedInv(s), TakenInv(s)
    PROVE  RecordedInv(s)' /\ TakenInv(s)'
<1>1. Recorded(s) => Recorded(s)'
  BY RecordedStays DEF Remembers
<1>2. ASSUME \A t \in Wanted(s) : hist[t].in \/ t \in todo[s], NEW t \in Wanted(s)'
      PROVE  hist'[t].in \/ t \in todo'[s]
  <2>1. t \in Wanted(s)
    BY WantedShrinks DEF Remembers
  <2>2. t \in Trades
    BY <2>1, WantedClosed
  <2>3. QED
    BY <1>2, <2>1, <2>2, HistoryGrows
<1>3. RecordedInv(s)'
  BY <1>1, <1>2 DEF RecordedInv
<1>4. ASSUME pc[s] \in {"transfer", "margin", "delete"}, NEW k \in Stale(s)'
      PROVE  k \in Stale(s) /\ row'[k] = row[k] /\ (TakenOver(s, k) => TakenOver(s, k)')
  <2>1. k \in Stale(s) /\ k \in Keys /\ row'[k] = row[k]
    BY <1>4, StaleStays DEF CleaningSteps
  <2>2. QED
    BY <2>1, TakenStays DEF Remembers
<1>5. TakenInv(s)'
  BY <1>4 DEF TakenInv
<1>6. QED
  BY <1>3, <1>5

\* A step of a sync that has got so far leaves the rows and the clock alone.
LEMMA CleanComments ==
    ASSUME IInv, RenewedInv, [Next]_vars, NEW s \in Syncs, UNCHANGED <<row, touched, until>>
    PROVE  /\ Stale(s)' = Stale(s) /\ Stale(s) \subseteq Keys
           /\ \A k \in Keys : TakenOver(s, k) => TakenOver(s, k)'
<1>1. ASSUME NEW k \in Keys, TakenOver(s, k)
      PROVE  TakenOver(s, k)'
  BY <1>1, TakenStays
<1>2. QED
  BY <1>1 DEF Stale

(***************************************************************************)
(* The comment of a stale row goes to the latest trade of the key without  *)
(* one.  If that is not the trade it is about, that trade, or a later one, *)
(* has a comment of its own.                                               *)
(***************************************************************************)
LEMMA CommentTaken ==
    ASSUME IInv, [Next]_vars, NEW s \in Syncs, NEW k \in Keys, Recorded(s),
           TransferComment(s, <<k, row[k].com>>, "none")
    PROVE  TakenOver(s, k)'
<1>0. PICK t : t = <<k, row[k].com>>
  OBVIOUS
<1>1. /\ UNCHANGED <<row, until, ex, closings>>
      /\ hist' = IF Blank(k) = {} THEN hist ELSE [hist EXCEPT ![Last(Blank(k))].com = t]
  BY <1>0 DEF TransferComment, Key, exch
<1> SUFFICES ASSUME t \in Wanted(s)', RecordedUnder(ex, t, Losing) = k
             PROVE  \E u \in Under(k)' : Nth(u)' >= Nth(t)' /\ hist'[u].com # None
  BY <1>0, <1>1 DEF TakenOver
<1>2. t \in Wanted(s) /\ t \in Trades /\ t \in Closed /\ hist[t].in
  BY <1>1, WantedShrinks, WantedClosed DEF Recorded
<1>3. t \in Under(k)
  BY <1>2 DEF Under
<1>4. CASE hist[t].com # None
  <2>1. t \in Under(k)' /\ hist'[t].com # None
    BY <1>3, <1>4, UnderGrows
  <2>2. Nth(t)' = Nth(t) /\ Nth(t) \in Nat
    BY <1>2, NthStays, NthIs DEF IInv
  <2>3. QED
    BY <2>1, <2>2
<1>5. CASE hist[t].com = None
  <2>0. PICK l : l = Last(Blank(k))
    OBVIOUS
  <2>1. t \in Blank(k) /\ Blank(k) \subseteq Closed /\ Blank(k) \subseteq Under(k)
    BY <1>3, <1>5, UnderClosed DEF Blank
  <2>2. l \in Blank(k) /\ Nth(t) <= Nth(l)
    BY <2>0, <2>1, LastIs DEF IInv
  <2>3. l \in Trades /\ l \in Closed /\ l \in Under(k)
    BY <2>1, <2>2 DEF Under
  <2>4. hist' = [hist EXCEPT ![l].com = t]
    BY <1>1, <2>0, <2>1
  <2>5. hist'[l].com = t /\ t # None
    BY <1>2, <2>3, <2>4, OpensAssumption DEF IInv, HistOK, Trades
  <2>6. l \in Under(k)'
    BY <2>3, UnderGrows
  <2>7. Nth(t)' = Nth(t) /\ Nth(l)' = Nth(l) /\ Nth(t) \in Nat /\ Nth(l) \in Nat
    BY <1>2, <2>3, NthStays, NthIs DEF IInv
  <2>8. QED
    BY <2>2, <2>5, <2>6, <2>7
<1>6. QED
  BY <1>4, <1>5

\* A step of a sync itself.
LEMMA WorkComments ==
    ASSUME IInv, RenewedInv, [Next]_vars, faults' = 0, NEW s \in Syncs, Work(s),
           RecordedInv(s), TakenInv(s)
    PROVE  RecordedInv(s)' /\ TakenInv(s)'
<1> USE DEF CleaningSteps
<1>1. ASSUME NEW f, Call(f)
      PROVE  f = "none"
  BY <1>1, CallCounts
<1>2. pc \in [Syncs -> Steps] /\ todo \in [Syncs -> SUBSET Trades]
  BY DEF IInv, LocalOK
<1>3. until'[s] = until[s] /\ Recorded(s) => Recorded(s)'
  BY RecordedStays
<1>4. ASSUME NEW step, Continue(s, step),
             step \in {"idle", "recent", "positions", "comments"},
             step = "comments" \/ (step = "positions" /\ s \in LiveSyncs) => Recorded(s)
      PROVE  RecordedInv(s)' /\ TakenInv(s)'
  <2>1. pc'[s] = step /\ (step # "idle" => until' = until)
    BY <1>2, <1>4 DEF Continue, Finish, Goto
  <2>2. QED
    BY <1>3, <1>4, <2>1 DEF RecordedInv, TakenInv
<1>5. ASSUME HistoryDone(s)
      PROVE  RecordedInv(s)' /\ TakenInv(s)'
  <2>1. pc[s] \in InsertSteps /\ todo[s] = {} /\ Continue(s, AfterHistory(s))
    BY <1>5 DEF HistoryDone, InsertSteps
  <2>2. AfterHistory(s) \in {"positions", "comments"} => Recorded(s)
    BY <2>1 DEF AfterHistory, InsertSteps, RecordedInv, Recorded
  <2>3. AfterHistory(s) \in {"idle", "positions", "comments"}
    BY <2>1 DEF AfterHistory, InsertSteps
  <2>4. QED
    BY <1>4, <2>1, <2>2, <2>3
<1>6. ASSUME PositionsDone(s)
      PROVE  RecordedInv(s)' /\ TakenInv(s)'
  <2>1. /\ pc[s] = "upsert" /\ pc'[s] = IF s \in OtherSyncs THEN "later" ELSE "comments"
        /\ until' = until
    BY <1>2, <1>6 DEF PositionsDone, Goto
  <2>2. s \notin OtherSyncs => Recorded(s)
    BY <2>1 DEF RecordedInv, Syncs
  <2>3. QED
    BY <1>3, <2>1, <2>2 DEF RecordedInv, TakenInv
<1>7. ASSUME CommentsDone(s)
      PROVE  RecordedInv(s)' /\ TakenInv(s)'
  <2>1. /\ pc[s] = "transfer" /\ todo[s] = {} /\ pc'[s] = "margin"
        /\ UNCHANGED <<row, touched, until>>
    BY <1>2, <1>7 DEF CommentsDone, Goto, table
  <2>2. \A k \in Stale(s) : TakenOver(s, k)
    BY <2>1 DEF TakenInv, TakenOver
  <2>3. \A k \in Stale(s)' : TakenOver(s, k)'
    BY <2>1, <2>2, CleanComments
  <2>4. QED
    BY <1>3, <2>1, <2>3 DEF RecordedInv, TakenInv
<1>8. ASSUME NEW f, TransferMargin(s, f)
      PROVE  RecordedInv(s)' /\ TakenInv(s)'
  <2>1. pc[s] = "margin" /\ pc'[s] = "delete" /\ UNCHANGED <<row, touched, until>>
    BY <1>2, <1>8 DEF TransferMargin, Goto
  <2>2. \A k \in Stale(s)' : TakenOver(s, k)'
    BY <2>1, CleanComments DEF TakenInv
  <2>3. QED
    BY <1>3, <2>1, <2>2 DEF RecordedInv, TakenInv
<1>9. ASSUME NEW f, DeleteStale(s, f)
      PROVE  RecordedInv(s)' /\ TakenInv(s)'
  <2>1. pc'[s] = "idle"
    BY <1>2, <1>9 DEF DeleteStale, Goto
  <2>2. QED
    BY <2>1 DEF RecordedInv, TakenInv
<1>10. ASSUME NEW f, SelectStale(s, f)
       PROVE  RecordedInv(s)' /\ TakenInv(s)'
  <2>1. /\ pc[s] = "comments" /\ pc'[s] = "transfer" /\ UNCHANGED <<row, touched, until>>
        /\ todo'[s] = {<<k, row[k].com>> : k \in {k \in Stale(s) : row[k].com # 0}}
    BY <1>1, <1>2, <1>10 DEF SelectStale, Goto, table
  <2>2. \A k \in Stale(s)' : row'[k].com # 0 => <<k, row'[k].com>> \in todo'[s]
    BY <2>1 DEF Stale
  <2>3. QED
    BY <1>3, <2>1, <2>2 DEF RecordedInv, TakenInv
<1>11. ASSUME NEW f, NEW hit, GetOpenPositions(s, f, hit)
       PROVE  RecordedInv(s)' /\ TakenInv(s)'
  <2> DEFINE answer == GetOpenPositionsOf(ex, Open, f, hit)
  <2>1. /\ pc[s] = "positions"
        /\ IF answer.err = "none"
           THEN pc' = [pc EXCEPT ![s] = "upsert"] /\ until' = until
           ELSE Continue(s, IF s \in OtherSyncs THEN "recent" ELSE "idle")
    BY <1>11 DEF GetOpenPositions, Goto
  <2> HIDE DEF answer
  <2>2. CASE answer.err = "none"
    BY <1>2, <1>3, <2>1, <2>2 DEF RecordedInv, TakenInv
  <2>3. CASE answer.err # "none"
    BY <1>4, <2>1, <2>3
  <2>4. QED
    BY <2>2, <2>3
<1>12. ASSUME NEW f, NEW hit, NEW pages, GetClosedTrades(s, f, hit, pages)
       PROVE  RecordedInv(s)' /\ TakenInv(s)'
  <2> DEFINE answer == GetClosedTradesOf(ex, closings, until[s], "none", {}, pages)
  <2>1. f = "none" /\ hit = {}
    BY <1>1, <1>12 DEF GetClosedTrades, Asked
  <2>2. answer.err = "none" /\ \A t \in Wanted(s) : t \in answer.list
    BY NothingFails, WantedAnswered
  <2>3. /\ pc[s] \in {"history", "recent", "later"} /\ pc' = [pc EXCEPT ![s] = Inserting[pc[s]]]
        /\ todo' = [todo EXCEPT ![s] = answer.list] /\ until' = until
    BY <1>12, <2>1, <2>2 DEF GetClosedTrades, Goto, Inserting
  <2>4. pc'[s] \in InsertSteps
    BY <1>2, <2>3 DEF Inserting, InsertSteps
  <2> HIDE DEF answer
  <2>5. \A t \in Wanted(s)' : t \in todo'[s]
    BY <1>2, <2>2, <2>3, WantedShrinks
  <2>6. QED
    BY <2>4, <2>5 DEF RecordedInv, TakenInv, InsertSteps
<1>13. ASSUME NEW t, NEW f, InsertHistory(s, t, f)
       PROVE  RecordedInv(s)' /\ TakenInv(s)'
  <2>1. /\ pc[s] \in InsertSteps /\ pc' = pc /\ until' = until /\ todo'[s] = todo[s] \ {t}
        /\ t \in todo[s] /\ f = "none"
    BY <1>1, <1>2, <1>13 DEF InsertHistory, Take, InsertSteps
  <2>2. t \in Trades /\ hist'[t].in
    <3>1. hist' = [hist EXCEPT ![t].in = TRUE, ![t].mar = @ \/ Margined(t)]
      BY <1>13, <2>1 DEF InsertHistory
    <3>2. QED
      BY <1>2, <2>1, <3>1 DEF IInv, HistOK
  <2>3. ASSUME \A u \in Wanted(s) : hist[u].in \/ u \in todo[s], NEW u \in Wanted(s)'
        PROVE  hist'[u].in \/ u \in todo'[s]
    <3>1. u \in Wanted(s)
      BY <2>1, WantedShrinks
    <3>2. u \in Trades
      BY <3>1, WantedClosed
    <3>3. QED
      BY <2>1, <2>2, <2>3, <3>1, <3>2, HistoryGrows
  <2>4. QED
    BY <2>1, <2>3 DEF RecordedInv, TakenInv, InsertSteps
<1>14. ASSUME NEW t, NEW f, UpsertPosition(s, t, f)
       PROVE  RecordedInv(s)' /\ TakenInv(s)'
  BY <1>3, <1>14 DEF UpsertPosition, RecordedInv, TakenInv
<1>15. ASSUME NEW c, NEW f, TransferComment(s, c, f)
       PROVE  RecordedInv(s)' /\ TakenInv(s)'
  <2>1. /\ pc[s] = "transfer" /\ pc' = pc /\ f = "none" /\ UNCHANGED <<row, touched, until>>
        /\ todo'[s] = todo[s] \ {c}
    BY <1>1, <1>2, <1>15 DEF TransferComment
  <2>2. Recorded(s)
    BY <2>1 DEF RecordedInv
  <2>3. ASSUME NEW k \in Stale(s)', row'[k].com # 0, <<k, row'[k].com>> \notin todo'[s]
        PROVE  TakenOver(s, k)'
    <3>1. k \in Stale(s) /\ k \in Keys /\ row'[k] = row[k]
      BY <2>1, CleanComments
    <3>2. CASE c = <<k, row[k].com>>
      BY <1>15, <2>1, <2>2, <3>1, <3>2, CommentTaken
    <3>3. CASE c # <<k, row[k].com>>
      BY <2>1, <2>3, <3>1, <3>3, CleanComments DEF TakenInv
    <3>4. QED
      BY <3>2, <3>3
  <2>4. QED
    BY <1>3, <2>1, <2>2, <2>3 DEF RecordedInv, TakenInv
<1>16. QED
  BY <1>5, <1>6, <1>7, <1>8, <1>9, <1>10, <1>11, <1>12, <1>13, <1>14, <1>15 DEF Work

LEMMA StepComments == IInv /\ RenewedInv /\ CommentsInv /\ [Next]_vars => CommentsInv'
<1> SUFFICES ASSUME IInv, RenewedInv, CommentsInv, [Next]_vars, faults' = 0, NEW s \in Syncs
             PROVE  RecordedInv(s)' /\ TakenInv(s)'
  BY DEF CommentsInv
<1>1. RecordedInv(s) /\ TakenInv(s)
  BY CompleteStays DEF CommentsInv
<1>2. CASE pc'[s] = pc[s] /\ todo'[s] = todo[s] /\ Remembers(s)
  BY <1>1, <1>2, KeepComments
<1>3. CASE pc'[s] = "idle"
  BY <1>3 DEF RecordedInv, TakenInv
<1>4. CASE Starts(s)
  <2>1. /\ pc \in [Syncs -> Steps]
        /\ \E step \in {"history", "positions", "recent"} :
              Start(s, step) /\ (step = "positions" => s \in OtherSyncs)
    BY <1>4 DEF Starts, SyncPositions, SyncUser, SyncRecentHistory, IInv, LocalOK
  <2>2. pc'[s] \in {"history", "positions", "recent"} /\ (pc'[s] = "positions" => s \notin LiveSyncs)
    BY <2>1, SyncsAssumption DEF Start, Goto
  <2>3. QED
    BY <2>2 DEF RecordedInv, TakenInv
<1>5. CASE Work(s)
  BY <1>1, <1>5, WorkComments
<1>6. QED
  BY <1>2, <1>3, <1>4, <1>5, SyncSteps

(***************************************************************************)
(* While nothing fails, the comment of a row that a sync deletes is in the *)
(* history, or a later trade of its key has a comment of its own: for the  *)
(* positions closed before the sync began, as far as a request reaches.    *)
(***************************************************************************)
THEOREM CommentsAreKept == ASSUME SameSecond = FALSE PROVE Spec => KeepsComments
<1> DEFINE Keeps == \A s \in Syncs, k \in Keys :
        LET t == <<k, row[k].com>> IN
            /\ faults' = 0 /\ pc[s] = "delete" /\ pc'[s] = "idle"
            /\ row[k].com # 0 /\ row'[k].n = 0
            /\ t \in Members(Earlier(closings, until[s]))
            /\ RecordedUnder(ex, t, Losing) = k /\ Reached(t)
            => \E u \in Under(k) : Nth(u) >= Nth(t) /\ hist[u].com # None
<1>1. IInv /\ RenewedInv /\ [Next]_vars => RenewedInv'
  BY StepRenewed
<1>2. IInv /\ RenewedInv /\ CommentsInv /\ [Next]_vars => [Keeps]_vars
  <2> SUFFICES ASSUME IInv, RenewedInv, CommentsInv, Next, NEW s \in Syncs, NEW k \in Keys,
                      faults' = 0, pc[s] = "delete", pc'[s] = "idle",
                      row[k].com # 0, row'[k].n = 0, <<k, row[k].com>> \in Wanted(s),
                      RecordedUnder(ex, <<k, row[k].com>>, Losing) = k
               PROVE  \E u \in Under(k) : Nth(u) >= Nth(<<k, row[k].com>>) /\ hist[u].com # None
    BY DEF Wanted
  <2>1. row[k].n # 0
    BY DEF IInv, RowOK, NoRow
  <2>2. PICK r \in Syncs, fault \in Faults : DeleteStale(r, fault) /\ k \in Stale(r)
    BY <2>1, RowChanges
  <2>3. r = s
    BY <2>2 DEF DeleteStale, Goto, IInv, LocalOK
  <2>4. TakenOver(s, k)
    BY <2>2, <2>3, CompleteStays DEF CommentsInv, TakenInv
  <2>5. QED
    BY <2>4 DEF TakenOver
<1>3. QED
  BY InductiveInv, InitRenewed, InitComments, StepComments, <1>1, <1>2, PTL DEF Spec, KeepsComments

=============================================================================
