--------------------------- MODULE SpotSyncProofs ---------------------------
(***************************************************************************)
(* Proofs about SpotSync, for any coins, syncs and faults: the rows of     *)
(* user_portfolios are well formed, and a price the user has set stays.    *)
(***************************************************************************)
EXTENDS SpotSync, FiniteSetTheorems, TLAPS

-----------------------------------------------------------------------------
(***************************************************************************)
(* What the adapters answer.                                               *)
(***************************************************************************)
LEMMA AccountFacts ==
    ASSUME NEW e \in Exchanges
    PROVE  \/ Len(AccountsOf(e)) = 1 /\ Accounts(e) = {AccountsOf(e)[1]}
           \/ /\ Len(AccountsOf(e)) = 2
              /\ Accounts(e) = {AccountsOf(e)[1], AccountsOf(e)[2]}
              /\ AccountsOf(e)[1] # AccountsOf(e)[2]
<1>1. CASE AccountsOf(e) = <<"spot">>
  BY <1>1 DEF Accounts
<1>2. CASE AccountsOf(e) = <<"trading", "funding">>
  BY <1>2 DEF Accounts
<1>3. CASE AccountsOf(e) = <<"UNIFIED", "FUND">>
  BY <1>3 DEF Accounts
<1>4. QED
  BY <1>1, <1>2, <1>3 DEF AccountsOf

(***************************************************************************)
(* An exchange with one account answers what is there, one with two the    *)
(* sum so far; whoever fails says so or answers nothing more.              *)
(***************************************************************************)
LEMMA BalancesAnswered ==
    ASSUME NEW e \in Exchanges, NEW sum, NEW account, NEW found, NEW fault
    PROVE  LET answer == GetBalancesOf(e, sum, account, found, fault) IN
           /\ answer.err # "none" => answer.sum = Nothing
           /\ answer.err = "none" /\ fault # "none" =>
                answer.sum = sum /\ Len(AccountsOf(e)) = 2
           /\ fault = "none" =>
                /\ answer.err = "none"
                /\ answer.sum = IF Len(AccountsOf(e)) = 2 THEN Plus(sum, found) ELSE found
<1> USE DEF Failed, Summed
<1>1. CASE e = "okx"
  BY <1>1 DEF GetBalancesOf, OkxGetBalances, AccountsOf
<1>2. CASE e = "bybit"
  BY <1>2 DEF GetBalancesOf, BybitGetBalances, AccountsOf
<1>3. CASE e = "binance"
  BY <1>3 DEF GetBalancesOf, BinanceGetBalances, AccountsOf
<1>4. CASE e = "gate"
  BY <1>4 DEF GetBalancesOf, GateGetBalances, AccountsOf
<1>5. CASE e = "kraken"
  BY <1>5 DEF GetBalancesOf, KrakenGetBalances, AccountsOf
<1>6. CASE e = "kucoin"
  BY <1>6 DEF GetBalancesOf, KucoinGetBalances, AccountsOf
<1>7. QED
  BY <1>1, <1>2, <1>3, <1>4, <1>5, <1>6 DEF Exchanges

LEMMA TradesAnswered ==
    ASSUME NEW e \in SpotTraders, NEW F, NEW balances, NEW hit, NEW fault
    PROVE  GetRecentTradesOf(e, F, balances, hit, fault).list \subseteq F
BY DEF SpotTraders, GetRecentTradesOf, OkxRecentTrades, BybitRecentTrades, BinanceRecentTrades,
       Refused, Listed

-----------------------------------------------------------------------------
(***************************************************************************)
(* Rows of user_portfolios.                                                *)
(***************************************************************************)
RowType(F)  == [in : BOOLEAN, qty : 0..2*MaxFills, avg : SUBSET F, manual : BOOLEAN]
RowOK(r, F) == /\ r \in RowType(F)
               /\ IF r.in THEN r.qty > 0 ELSE r = NoRow
               /\ r.manual => r.avg = {}

LEMMA RowChanges ==
    ASSUME NEW F, NEW r, RowOK(r, F)
    PROVE  /\ \A G : F \subseteq G => RowOK(r, G)
           /\ \A m \in BOOLEAN : r.in => RowOK([r EXCEPT !.avg = {}, !.manual = m], F)
           /\ \A q \in 0..2*MaxFills : q > 0 => RowOK([r EXCEPT !.in = TRUE, !.qty = q], F)
           /\ \A B \in SUBSET F : r.in /\ ~r.manual => RowOK([r EXCEPT !.avg = B], F)
<1> USE FaultsAssumption DEF RowOK, RowType
<1>1. ASSUME NEW G, F \subseteq G PROVE RowOK(r, G)
  BY <1>1
<1>2. ASSUME NEW m \in BOOLEAN, r.in PROVE RowOK([r EXCEPT !.avg = {}, !.manual = m], F)
  BY <1>2
<1>3. ASSUME NEW q \in 0..2*MaxFills, q > 0 PROVE RowOK([r EXCEPT !.in = TRUE, !.qty = q], F)
  BY <1>3
<1>4. ASSUME NEW B \in SUBSET F, r.in, ~r.manual PROVE RowOK([r EXCEPT !.avg = B], F)
  BY <1>4
<1>5. QED
  <2> HIDE DEF RowOK, RowType
  <2>1. QED
    BY <1>1, <1>2, <1>3, <1>4

LEMMA NoRowOK == ASSUME NEW F PROVE RowOK(NoRow, F) /\ ~NoRow.manual /\ ~NoRow.in
BY FaultsAssumption DEF RowOK, RowType, NoRow

(***************************************************************************)
(* The invariant, in parts.                                                *)
(***************************************************************************)
ExchOK ==
    /\ ex \in Used
    /\ wallet \in [Accounts(ex) -> [Coins -> 0..MaxFills]]
    /\ fills \subseteq Fills

TableOK ==
    /\ DOMAIN row = Coins /\ row = [c \in Coins |-> row[c]]
    /\ \A c \in Coins : RowOK(row[c], fills)
    /\ kept \subseteq Coins /\ \A c \in kept : row[c].manual
    /\ trades \subseteq fills

LocalOK ==
    /\ pc \in [Syncs -> Steps]
    /\ asked \in [Syncs -> 0..Len(AccountsOf(ex))]
    /\ got \in [Syncs -> [Coins -> 0..2*MaxFills]]
    /\ passed \in [Syncs -> BOOLEAN]
    /\ touched \in [Syncs -> SUBSET Coins]

TouchedOK == \A s \in Syncs : touched[s] # {} => passed[s] /\ \A c \in touched[s] : row[c].in

CountOK == cooling \in BOOLEAN /\ gaps \in BOOLEAN /\ faults \in 0..MaxFaults

LEMMA TypeParts == TypeOK <=> ExchOK /\ TableOK /\ LocalOK /\ TouchedOK /\ CountOK
<1>1. TypeOK => ExchOK /\ LocalOK /\ TouchedOK /\ CountOK
  BY DEF TypeOK, ExchOK, LocalOK, TouchedOK, CountOK
<1>2. TypeOK => TableOK
  BY DEF TypeOK, TableOK, RowOK, RowType
<1>3. ASSUME TableOK
      PROVE  /\ row \in [Coins -> RowType(fills)]
             /\ \A c \in Coins : IF row[c].in THEN row[c].qty > 0 ELSE row[c] = NoRow
             /\ \A c \in Coins : row[c].manual => row[c].avg = {}
             /\ kept \subseteq {c \in Coins : row[c].manual} /\ trades \subseteq fills
  BY <1>3 DEF TableOK, RowOK
<1>4. ExchOK /\ TableOK /\ LocalOK /\ TouchedOK /\ CountOK => TypeOK
  BY <1>3 DEF TypeOK, ExchOK, LocalOK, TouchedOK, CountOK, RowType
<1>5. QED
  BY <1>1, <1>2, <1>4

-----------------------------------------------------------------------------
(***************************************************************************)
(* What the user has in the accounts of an exchange, for any accounts.     *)
(***************************************************************************)
Wallets(e) == [Accounts(e) -> [Coins -> 0..MaxFills]]

HeldIn(e, w, c) ==
    w[AccountsOf(e)[1]][c] + (IF Len(AccountsOf(e)) = 2 THEN w[AccountsOf(e)[2]][c] ELSE 0)

LEMMA HoldingIs ==
    ASSUME NEW c
    PROVE  Holding(c) = HeldIn(ex, wallet, c) /\ Holding(c)' = HeldIn(ex', wallet', c)
BY DEF Holding, HeldIn

LEMMA HeldFacts ==
    ASSUME NEW e \in Exchanges, NEW w \in Wallets(e), NEW c \in Coins
    PROVE  /\ AccountsOf(e)[1] \in Accounts(e)
           /\ HeldIn(e, w, c) \in Nat
           /\ \A a \in Accounts(e) : w[a][c] \in Nat /\ w[a][c] <= HeldIn(e, w, c)
           /\ \A a, b \in Accounts(e) : a # b => HeldIn(e, w, c) = w[a][c] + w[b][c]
<1>1. \A a \in Accounts(e) : w[a][c] \in Nat
  BY FaultsAssumption DEF Wallets
<1>2. CASE Len(AccountsOf(e)) = 1 /\ Accounts(e) = {AccountsOf(e)[1]}
  <2>1. HeldIn(e, w, c) = w[AccountsOf(e)[1]][c] + 0 /\ w[AccountsOf(e)[1]][c] \in Nat
    BY <1>1, <1>2 DEF HeldIn
  <2>2. QED
    BY <1>1, <1>2, <2>1
<1>3. CASE /\ Len(AccountsOf(e)) = 2
           /\ Accounts(e) = {AccountsOf(e)[1], AccountsOf(e)[2]}
           /\ AccountsOf(e)[1] # AccountsOf(e)[2]
  <2> DEFINE a == AccountsOf(e)[1]
             b == AccountsOf(e)[2]
  <2>1. HeldIn(e, w, c) = w[a][c] + w[b][c] /\ w[a][c] \in Nat /\ w[b][c] \in Nat
    BY <1>1, <1>3 DEF HeldIn
  <2>2. Accounts(e) = {a, b} /\ a # b
    BY <1>3
  <2> HIDE DEF a, b
  <2>3. /\ HeldIn(e, w, c) \in Nat
        /\ \A x \in Accounts(e) : w[x][c] \in Nat /\ w[x][c] <= HeldIn(e, w, c)
    BY <2>1, <2>2
  <2>4. \A x, y \in Accounts(e) : x # y => HeldIn(e, w, c) = w[x][c] + w[y][c]
    BY <2>1, <2>2
  <2>5. QED
    BY <2>2, <2>3, <2>4 DEF a
<1>4. QED
  BY <1>2, <1>3, AccountFacts

(***************************************************************************)
(* Coins bought or sold in the first account, and moved between two.       *)
(***************************************************************************)
LEMMA HeldChanged ==
    ASSUME NEW e \in Exchanges, NEW w \in Wallets(e), NEW c \in Coins, NEW n \in {1, -1}
    PROVE  LET u == [w EXCEPT ![AccountsOf(e)[1]][c] = @ + n] IN
           /\ HeldIn(e, u, c) = HeldIn(e, w, c) + n
           /\ \A d \in Coins \ {c} : HeldIn(e, u, d) = HeldIn(e, w, d)
           /\ w[AccountsOf(e)[1]][c] + n \in 0..MaxFills => u \in Wallets(e)
<1> DEFINE a == AccountsOf(e)[1]
           b == AccountsOf(e)[2]
           u == [w EXCEPT ![a][c] = @ + n]
<1>0. a \in Accounts(e) /\ (Len(AccountsOf(e)) = 2 => b \in Accounts(e) /\ b # a)
  BY AccountFacts
<1>1. /\ u[a][c] = w[a][c] + n /\ \A d \in Coins \ {c} : u[a][d] = w[a][d]
      /\ Len(AccountsOf(e)) = 2 => u[b] = w[b]
  BY <1>0 DEF Wallets
<1>2. /\ w[a][c] \in Nat
      /\ Len(AccountsOf(e)) = 2 => w[b][c] \in Nat
  BY <1>0, HeldFacts
<1>3. w[a][c] + n \in 0..MaxFills => u \in Wallets(e)
  BY <1>0 DEF Wallets
<1>4. ASSUME NEW d
      PROVE  HeldIn(e, u, d) = u[a][d] + (IF Len(AccountsOf(e)) = 2 THEN u[b][d] ELSE 0)
  BY DEF HeldIn
<1>5. ASSUME NEW d
      PROVE  HeldIn(e, w, d) = w[a][d] + (IF Len(AccountsOf(e)) = 2 THEN w[b][d] ELSE 0)
  BY DEF HeldIn
<1> HIDE DEF a, b, u
<1>6. HeldIn(e, u, c) = HeldIn(e, w, c) + n
  <2>1. CASE Len(AccountsOf(e)) = 2
    BY <1>1, <1>2, <1>4, <1>5, <2>1
  <2>2. CASE Len(AccountsOf(e)) # 2
    BY <1>1, <1>2, <1>4, <1>5, <2>2
  <2>3. QED
    BY <2>1, <2>2
<1>7. ASSUME NEW d \in Coins \ {c} PROVE HeldIn(e, u, d) = HeldIn(e, w, d)
  BY <1>1, <1>4, <1>5
<1>8. QED
  BY <1>3, <1>6, <1>7 DEF a, u

-----------------------------------------------------------------------------
(***************************************************************************)
(* TypeOK is inductive only together with two facts.  The user has no more *)
(* coins than were bought, and fills are numbered without gaps: the bounds *)
(* of the wallet.  A sync that is not on its way through the balances has  *)
(* none left over, and one that is past the first account has seen the     *)
(* clock move on: the bounds of what it has got, and what it has touched.  *)
(***************************************************************************)
CoinsInv ==
    \A c \in Coins :
        /\ IsFiniteSet(FillsOf(c)) /\ Cardinality(FillsOf(c)) <= MaxFills
        /\ Holding(c) <= Cardinality(FillsOf(c))
        /\ \A f \in FillsOf(c) : f.n <= Cardinality(FillsOf(c))
        /\ c \in kept => Holding(c) > 0

PassInv ==
    \A s \in Syncs :
        /\ passed[s] => pc[s] # "idle"
        /\ asked[s] + 1 <= Len(AccountsOf(ex))
        /\ asked[s] > 0 => pc[s] = "balances"
        /\ pc[s] \notin {"idle", "balances"} \/ asked[s] > 0 => passed[s]
        /\ pc[s] # "upsert" /\ asked[s] = 0 => got[s] = Nothing
        /\ asked[s] > 0 => \A c \in Coins : got[s][c] <= MaxFills

IInv == TypeOK /\ CoinsInv /\ PassInv

LEMMA Exchange == ASSUME ExchOK PROVE ex \in Exchanges /\ wallet \in Wallets(ex)
BY UseAssumption DEF ExchOK, Wallets

LEMMA NothingType == Nothing \in [Coins -> 0..2*MaxFills] /\ \A c \in Coins : Nothing[c] = 0
BY FaultsAssumption DEF Nothing

LEMMA InitInv == Init => IInv
<1> SUFFICES ASSUME Init PROVE IInv
  OBVIOUS
<1>1. ex \in Exchanges /\ Len(AccountsOf(ex)) \in {1, 2}
  <2>1. ex \in Exchanges
    BY UseAssumption DEF Init
  <2>2. QED
    BY <2>1, AccountFacts
<1>2. ExchOK
  BY FaultsAssumption DEF Init, ExchOK, Nothing
<1>3. TableOK
  BY NoRowOK DEF Init, TableOK
<1>4. LocalOK /\ TouchedOK
  <2>1. 0 \in 0..Len(AccountsOf(ex))
    BY <1>1
  <2>2. QED
    BY <2>1, NothingType DEF Init, LocalOK, TouchedOK, Steps
<1>5. CountOK
  <2>1. faults \in 0..MaxFaults
    BY FaultsAssumption DEF Init
  <2>2. cooling \in BOOLEAN /\ gaps \in BOOLEAN
    BY Zenon DEF Init
  <2>3. QED
    BY <2>1, <2>2 DEF CountOK
<1>6. CoinsInv
  <2> SUFFICES ASSUME NEW c \in Coins
               PROVE  /\ IsFiniteSet(FillsOf(c)) /\ Cardinality(FillsOf(c)) <= MaxFills
                      /\ Holding(c) <= Cardinality(FillsOf(c))
                      /\ \A f \in FillsOf(c) : f.n <= Cardinality(FillsOf(c))
                      /\ c \in kept => Holding(c) > 0
    BY DEF CoinsInv
  <2>1. FillsOf(c) = {} /\ kept = {}
    BY DEF Init, FillsOf
  <2>2. IsFiniteSet(FillsOf(c)) /\ Cardinality(FillsOf(c)) = 0
    BY <2>1, FS_EmptySet
  <2>3. Holding(c) = 0
    <3>1. \A a \in Accounts(ex) : wallet[a][c] = 0
      BY DEF Init, Nothing
    <3>2. QED
      BY <1>1, <3>1, AccountFacts DEF Holding
  <2>4. QED
    BY <2>1, <2>2, <2>3, FaultsAssumption
<1>7. PassInv
  <2> SUFFICES ASSUME NEW s \in Syncs
               PROVE  /\ passed[s] => pc[s] # "idle"
                      /\ asked[s] + 1 <= Len(AccountsOf(ex))
                      /\ asked[s] > 0 => pc[s] = "balances"
                      /\ pc[s] \notin {"idle", "balances"} \/ asked[s] > 0 => passed[s]
                      /\ pc[s] # "upsert" /\ asked[s] = 0 => got[s] = Nothing
                      /\ asked[s] > 0 => \A c \in Coins : got[s][c] <= MaxFills
    BY DEF PassInv
  <2>1. pc[s] = "idle" /\ asked[s] = 0 /\ got[s] = Nothing /\ ~passed[s]
    BY DEF Init
  <2>2. ~(asked[s] > 0) /\ asked[s] + 1 <= Len(AccountsOf(ex))
    BY <1>1, <2>1
  <2>3. QED
    BY <2>1, <2>2, Zenon
<1>8. QED
  BY <1>2, <1>3, <1>4, <1>5, <1>6, <1>7, TypeParts DEF IInv

-----------------------------------------------------------------------------
(***************************************************************************)
(* Steps: the exchange and its coins.                                      *)
(***************************************************************************)
LEMMA CallType ==
    ASSUME CountOK, NEW fault, Call(fault)
    PROVE  faults' \in 0..MaxFaults
BY FaultsAssumption DEF CountOK, Call

LEMMA CoinsKept ==
    ASSUME CoinsInv, UNCHANGED exch, kept' \subseteq kept
    PROVE  CoinsInv'
<1>1. \A c \in Coins : FillsOf(c)' = FillsOf(c) /\ Holding(c)' = Holding(c)
  BY DEF exch, FillsOf, Holding
<1>2. QED
  BY <1>1 DEF CoinsInv

LEMMA CoinsBought ==
    ASSUME ExchOK, CoinsInv, NEW c \in Coins, NEW cat \in {"spot", "linear"}, Buy(c, cat)
    PROVE  ExchOK' /\ CoinsInv'
<1> DEFINE n == Cardinality(FillsOf(c))
           f == [coin |-> c, n |-> n + 1, cat |-> cat]
<1>1. /\ ex' = ex /\ kept' = kept /\ n < MaxFills /\ fills' = fills \cup {f}
      /\ wallet' = IF cat = "linear" THEN wallet ELSE [wallet EXCEPT ![AccountsOf(ex)[1]][c] = @ + 1]
  BY DEF Buy, table
<1>2. /\ IsFiniteSet(FillsOf(c)) /\ n \in Nat /\ Holding(c) <= n
      /\ \A g \in FillsOf(c) : g.n <= n
  BY FS_CardinalityType DEF CoinsInv
<1>3. ex \in Exchanges /\ wallet \in Wallets(ex) /\ Holding(c) \in Nat /\ MaxFills \in Nat
  BY Exchange, HoldingIs, HeldFacts, FaultsAssumption
<1> HIDE DEF n
<1>4. f.coin = c /\ f.n = n + 1 /\ f \in Fills
  BY <1>1, <1>2, <1>3 DEF Fills
<1>5. f \notin FillsOf(c)
  BY <1>2, <1>4
<1> HIDE DEF f
<1>6. /\ FillsOf(c)' = FillsOf(c) \cup {f}
      /\ \A d \in Coins \ {c} : FillsOf(d)' = FillsOf(d)
  BY <1>1, <1>4 DEF FillsOf
<1>7. IsFiniteSet(FillsOf(c)') /\ Cardinality(FillsOf(c)') = n + 1
  <2>1. n = Cardinality(FillsOf(c))
    BY DEF n
  <2>2. \A T : T = FillsOf(c) \cup {f} => IsFiniteSet(T) /\ Cardinality(T) = Cardinality(FillsOf(c)) + 1
    BY <1>2, <1>5, FS_AddElement
  <2>3. QED
    BY <1>6, <2>1, <2>2
<1>8. /\ Holding(c)' \in {Holding(c), Holding(c) + 1} /\ wallet' \in Wallets(ex)
      /\ \A d \in Coins \ {c} : Holding(d)' = Holding(d)
  <2>1. \A d : Holding(d) = HeldIn(ex, wallet, d) /\ Holding(d)' = HeldIn(ex, wallet', d)
    BY <1>1, HoldingIs
  <2>2. CASE cat = "linear"
    BY <1>1, <1>3, <2>1, <2>2
  <2>3. CASE cat # "linear"
    <3>1. wallet' = [wallet EXCEPT ![AccountsOf(ex)[1]][c] = @ + 1]
      BY <1>1, <2>3
    <3>2. wallet[AccountsOf(ex)[1]][c] + 1 \in 0..MaxFills
      <4>1. wallet[AccountsOf(ex)[1]][c] \in Nat /\ wallet[AccountsOf(ex)[1]][c] <= Holding(c)
        BY <1>3, <2>1, HeldFacts
      <4>2. QED
        BY <1>1, <1>2, <1>3, <4>1
    <3>3. /\ HeldIn(ex, wallet', c) = HeldIn(ex, wallet, c) + 1
          /\ \A d \in Coins \ {c} : HeldIn(ex, wallet', d) = HeldIn(ex, wallet, d)
          /\ wallet' \in Wallets(ex)
      BY <1>3, <3>1, <3>2, HeldChanged
    <3>4. QED
      BY <2>1, <3>3
  <2>4. QED
    BY <2>2, <2>3
<1>9. ExchOK'
  BY <1>1, <1>4, <1>8 DEF ExchOK, Wallets
<1>10. ASSUME NEW d \in Coins
       PROVE  (/\ IsFiniteSet(FillsOf(d)) /\ Cardinality(FillsOf(d)) <= MaxFills
               /\ Holding(d) <= Cardinality(FillsOf(d))
               /\ \A g \in FillsOf(d) : g.n <= Cardinality(FillsOf(d))
               /\ d \in kept => Holding(d) > 0)'
  <2>1. CASE d # c
    BY <1>1, <1>6, <1>8, <2>1 DEF CoinsInv
  <2>2. CASE d = c
    <3>1. \A g \in FillsOf(c)' : g.n <= n + 1
      <4>1. \A g \in FillsOf(c) : g.n \in Nat
        BY DEF FillsOf, ExchOK, Fills
      <4>2. QED
        BY <1>2, <1>4, <1>6, <4>1
    <3>2. c \in kept => Holding(c) > 0
      BY DEF CoinsInv
    <3>3. Holding(c)' <= n + 1 /\ (c \in kept' => Holding(c)' > 0) /\ n + 1 <= MaxFills
      BY <1>1, <1>2, <1>3, <1>8, <3>2
    <3>4. QED
      BY <1>7, <2>2, <3>1, <3>3
  <2>3. QED
    BY <2>1, <2>2
<1>11. QED
  BY <1>9, <1>10 DEF CoinsInv

LEMMA CoinsSold ==
    ASSUME ExchOK, CoinsInv, NEW c \in Coins, Sell(c)
    PROVE  ExchOK' /\ CoinsInv'
<1> DEFINE a == AccountsOf(ex)[1]
<1>1. /\ ex' = ex /\ fills' = fills /\ wallet[a][c] > 0
      /\ wallet' = [wallet EXCEPT ![a][c] = @ - 1]
      /\ kept' = IF Holding(c) = 1 THEN kept \ {c} ELSE kept
  BY DEF Sell
<1>2. ex \in Exchanges /\ wallet \in Wallets(ex) /\ a \in Accounts(ex)
  BY Exchange, HeldFacts
<1>3. \A d : Holding(d) = HeldIn(ex, wallet, d) /\ Holding(d)' = HeldIn(ex, wallet', d)
  BY <1>1, HoldingIs
<1>4. \A d \in Coins : Holding(d) \in Nat /\ wallet[a][d] \in 0..MaxFills /\ FillsOf(d)' = FillsOf(d)
  BY <1>1, <1>2, <1>3, HeldFacts DEF Wallets, FillsOf
<1>5. wallet' = [wallet EXCEPT ![a][c] = @ + (-1)] /\ wallet[a][c] + (-1) \in 0..MaxFills
  <2>1. wallet[a][c] - 1 = wallet[a][c] + (-1)
    BY <1>4
  <2>2. [wallet EXCEPT ![a][c] = @ - 1] = [wallet EXCEPT ![a][c] = @ + (-1)]
    BY <2>1
  <2>3. QED
    BY <1>1, <1>4, <2>2, FaultsAssumption
<1>6. /\ Holding(c)' = Holding(c) + (-1) /\ wallet' \in Wallets(ex)
      /\ \A d \in Coins \ {c} : Holding(d)' = Holding(d)
  BY <1>2, <1>3, <1>5, HeldChanged
<1>7. ExchOK'
  BY <1>1, <1>6 DEF ExchOK, Wallets
<1>8. ASSUME NEW d \in Coins
      PROVE  (/\ IsFiniteSet(FillsOf(d)) /\ Cardinality(FillsOf(d)) <= MaxFills
              /\ Holding(d) <= Cardinality(FillsOf(d))
              /\ \A g \in FillsOf(d) : g.n <= Cardinality(FillsOf(d))
              /\ d \in kept => Holding(d) > 0)'
  <2>1. /\ IsFiniteSet(FillsOf(d)) /\ Cardinality(FillsOf(d)) <= MaxFills
        /\ Holding(d) <= Cardinality(FillsOf(d))
        /\ \A g \in FillsOf(d) : g.n <= Cardinality(FillsOf(d))
        /\ d \in kept => Holding(d) > 0
    BY DEF CoinsInv
  <2>2. Cardinality(FillsOf(d)) \in Nat /\ Holding(d) \in Nat
    BY <1>4, <2>1, FS_CardinalityType
  <2>3. /\ Holding(d)' <= Cardinality(FillsOf(d))
        /\ d \in kept' => Holding(d)' > 0
    BY <1>1, <1>6, <2>1, <2>2
  <2>4. QED
    BY <1>4, <2>1, <2>3
<1>9. QED
  BY <1>7, <1>8 DEF CoinsInv

LEMMA CoinsMoved ==
    ASSUME ExchOK, CoinsInv, NEW c \in Coins, NEW a \in Accounts(ex), NEW b \in Accounts(ex),
           Move(c, a, b)
    PROVE  ExchOK' /\ CoinsInv' /\ Holding(c)' = Holding(c)
<1>1. /\ ex' = ex /\ fills' = fills /\ kept' = kept /\ a # b /\ wallet[a][c] > 0
      /\ wallet' = [wallet EXCEPT ![a][c] = @ - 1, ![b][c] = @ + 1]
  BY DEF Move, table
<1>2. ex \in Exchanges /\ wallet \in Wallets(ex)
  BY Exchange
<1>3. \A d : Holding(d) = HeldIn(ex, wallet, d) /\ Holding(d)' = HeldIn(ex, wallet', d)
  BY <1>1, HoldingIs
<1>4. HeldIn(ex, wallet, c) <= MaxFills
  <2>1. /\ Holding(c) <= Cardinality(FillsOf(c)) /\ Cardinality(FillsOf(c)) <= MaxFills
        /\ IsFiniteSet(FillsOf(c))
    BY DEF CoinsInv
  <2>2. Holding(c) \in Nat /\ Cardinality(FillsOf(c)) \in Nat
    BY <1>2, <1>3, <2>1, HeldFacts, FS_CardinalityType
  <2>3. QED
    BY <1>3, <2>1, <2>2, FaultsAssumption
<1>5. /\ wallet[a][c] \in Nat /\ wallet[b][c] \in Nat
      /\ wallet[a][c] + wallet[b][c] = HeldIn(ex, wallet, c)
      /\ wallet[a][c] <= HeldIn(ex, wallet, c) /\ Accounts(ex) = {a, b}
  BY <1>1, <1>2, HeldFacts, AccountFacts
<1>6. wallet[a][c] - 1 \in 0..MaxFills /\ wallet[b][c] + 1 \in 0..MaxFills
  BY <1>1, <1>4, <1>5, FaultsAssumption
<1>7. /\ wallet' \in Wallets(ex)
      /\ wallet'[a][c] = wallet[a][c] - 1 /\ wallet'[b][c] = wallet[b][c] + 1
      /\ \A d \in Coins \ {c} : wallet'[a][d] = wallet[a][d] /\ wallet'[b][d] = wallet[b][d]
  <2> DEFINE v == [wallet EXCEPT ![a][c] = @ - 1]
  <2>1. /\ v \in Wallets(ex) /\ v[a][c] = wallet[a][c] - 1 /\ v[b] = wallet[b]
        /\ \A d \in Coins \ {c} : v[a][d] = wallet[a][d]
    BY <1>1, <1>2, <1>6 DEF Wallets
  <2>2. wallet' = [v EXCEPT ![b] = [wallet[b] EXCEPT ![c] = @ + 1]]
    BY <1>1, <2>1
  <2> HIDE DEF v
  <2>3. wallet'[a] = v[a] /\ wallet'[b] = [wallet[b] EXCEPT ![c] = @ + 1] /\ DOMAIN wallet' = DOMAIN v
    BY <1>1, <2>1, <2>2 DEF Wallets
  <2>4. /\ wallet[b] \in [Coins -> 0..MaxFills] /\ wallet'[b] \in [Coins -> 0..MaxFills]
        /\ wallet'[b][c] = wallet[b][c] + 1
        /\ \A d \in Coins \ {c} : wallet'[b][d] = wallet[b][d]
    BY <1>2, <1>6, <2>3 DEF Wallets
  <2>5. wallet' \in Wallets(ex)
    <3>1. wallet' = [x \in Accounts(ex) |-> wallet'[x]]
      BY <2>1, <2>2 DEF Wallets
    <3>2. \A x \in Accounts(ex) : wallet'[x] \in [Coins -> 0..MaxFills]
      BY <1>5, <2>1, <2>3, <2>4 DEF Wallets
    <3>3. QED
      BY <3>1, <3>2 DEF Wallets
  <2>6. QED
    BY <2>1, <2>3, <2>4, <2>5
<1>8. ASSUME NEW d \in Coins PROVE Holding(d)' = Holding(d)
  <2>1. /\ HeldIn(ex, wallet', d) = wallet'[a][d] + wallet'[b][d]
        /\ HeldIn(ex, wallet, d) = wallet[a][d] + wallet[b][d]
    <3>1. a # b /\ ex \in Exchanges /\ wallet \in Wallets(ex) /\ wallet' \in Wallets(ex)
      BY <1>1, <1>2, <1>7
    <3>2. HeldIn(ex, wallet', d) = wallet'[a][d] + wallet'[b][d]
      BY <3>1, HeldFacts
    <3>3. HeldIn(ex, wallet, d) = wallet[a][d] + wallet[b][d]
      BY <3>1, HeldFacts
    <3>4. QED
      BY <3>2, <3>3
  <2>2. wallet'[a][d] + wallet'[b][d] = wallet[a][d] + wallet[b][d]
    <3>1. CASE d = c
      <4>1. \A i, j, k, l \in Int : k = i - 1 /\ l = j + 1 => k + l = i + j
        OBVIOUS
      <4>2. /\ wallet'[a][c] \in Int /\ wallet'[b][c] \in Int
            /\ wallet[a][c] \in Int /\ wallet[b][c] \in Int
        BY <1>5, <1>7
      <4>3. QED
        BY <1>7, <3>1, <4>1, <4>2
    <3>2. CASE d # c
      BY <1>7, <3>2
    <3>3. QED
      BY <3>1, <3>2
  <2>3. QED
    BY <1>3, <2>1, <2>2
<1>9. \A d \in Coins : FillsOf(d)' = FillsOf(d)
  BY <1>1 DEF FillsOf
<1>10. ExchOK'
  BY <1>1, <1>7 DEF ExchOK, Wallets
<1>11. kept' = kept
  BY <1>1
<1>12. CoinsInv'
  BY <1>9, <1>11, <1>8 DEF CoinsInv
<1>13. QED
  BY <1>10, <1>12, <1>8

LEMMA StepCoins ==
    ASSUME IInv, [Next]_vars
    PROVE  ExchOK' /\ CoinsInv'
<1>0. ExchOK /\ CoinsInv
  BY TypeParts DEF IInv
<1>a. ASSUME UNCHANGED exch, kept' \subseteq kept PROVE ExchOK' /\ CoinsInv'
  BY <1>0, <1>a, CoinsKept DEF ExchOK, exch
<1>1. ASSUME NEW s \in Syncs, SyncBalances(s) \/ SyncUser(s) \/ BalancesDone(s) \/ SkipTrades(s)
      PROVE  UNCHANGED exch /\ kept' \subseteq kept
  BY <1>1 DEF SyncBalances, SyncUser, Start, BalancesDone, SkipTrades, table
<1>2. ASSUME NEW s \in Syncs, NEW f,
             GetBalances(s, f) \/ DeleteStale(s, f) \/ UpdateAverages(s, f)
                \/ (\E c \in Coins : UpsertBalance(s, c, f))
                \/ (\E hit \in SUBSET TradeRequests(ex) : GetRecentTrades(s, f, hit))
      PROVE  UNCHANGED exch /\ kept' \subseteq kept
  BY <1>2 DEF GetBalances, DeleteStale, UpdateAverages, UpsertBalance, GetRecentTrades, table
<1>3. ASSUME NextSecond \/ CoolOff \/ Restart \/ UNCHANGED vars
      PROVE  UNCHANGED exch /\ kept' \subseteq kept
  BY <1>3 DEF NextSecond, CoolOff, Restart, vars, table
<1>4. ASSUME NEW c \in Coins, NEW cat \in {"spot", "linear"}, Buy(c, cat) PROVE ExchOK' /\ CoinsInv'
  BY <1>0, <1>4, CoinsBought
<1>5. ASSUME NEW c \in Coins, Sell(c) PROVE ExchOK' /\ CoinsInv'
  BY <1>0, <1>5, CoinsSold
<1>6. ASSUME NEW c \in Coins, NEW a \in Accounts(ex), NEW b \in Accounts(ex), Move(c, a, b)
      PROVE  ExchOK' /\ CoinsInv'
  BY <1>0, <1>6, CoinsMoved
<1>7. ASSUME NEW c \in Coins, NEW manual \in BOOLEAN, UpdateAssetPrice(c, manual)
      PROVE  ExchOK' /\ CoinsInv'
  <2>1. UNCHANGED exch /\ \A d \in kept' : d \in kept \/ Holding(d) > 0
    BY <1>7 DEF UpdateAssetPrice
  <2>2. \A d \in Coins : FillsOf(d)' = FillsOf(d) /\ Holding(d)' = Holding(d)
    BY <2>1 DEF exch, FillsOf, Holding
  <2>3. QED
    BY <1>0, <2>1, <2>2 DEF ExchOK, CoinsInv, exch
<1>8. QED
  BY <1>a, <1>1, <1>2, <1>3, <1>4, <1>5, <1>6, <1>7 DEF Next, Work, User

-----------------------------------------------------------------------------
(***************************************************************************)
(* Steps: the tables.                                                      *)
(***************************************************************************)
LEMMA TableGrows ==
    ASSUME TableOK, row' = row, kept' \subseteq kept, fills \subseteq fills', trades' \subseteq fills'
    PROVE  TableOK'
<1>1. \A c \in Coins : RowOK(row[c], fills')
  BY RowChanges DEF TableOK
<1>2. QED
  BY <1>1 DEF TableOK

LEMMA TableWritten ==
    ASSUME TableOK, fills' = fills, trades' = trades,
           DOMAIN row' = Coins /\ row' = [c \in Coins |-> row'[c]],
           \A c \in Coins : RowOK(row'[c], fills),
           \A c \in kept' : c \in Coins /\ row'[c].manual
    PROVE  TableOK'
BY DEF TableOK

\* What the steps that write rows make of them.
LEMMA PriceSet ==
    ASSUME TableOK, NEW c \in Coins, NEW manual \in BOOLEAN, UpdateAssetPrice(c, manual)
    PROVE  /\ row[c].in /\ DOMAIN row' = Coins /\ row' = [d \in Coins |-> row'[d]]
           /\ row'[c] = [row[c] EXCEPT !.avg = {}, !.manual = manual]
           /\ row'[c].in = row[c].in /\ row'[c].manual = manual
           /\ \A d \in Coins \ {c} : row'[d] = row[d]
<1>1. row[c].in /\ row' = [row EXCEPT ![c].avg = {}, ![c].manual = manual]
  BY DEF UpdateAssetPrice
<1>2. DOMAIN row = Coins /\ row[c] \in RowType(fills)
  BY DEF TableOK, RowOK
<1>3. /\ row'[c] = [row[c] EXCEPT !.avg = {}, !.manual = manual]
      /\ DOMAIN row' = Coins /\ \A d \in Coins \ {c} : row'[d] = row[d]
      /\ row' = [d \in Coins |-> row'[d]]
  BY <1>1, <1>2
<1>4. row'[c].in = row[c].in /\ row'[c].manual = manual
  BY <1>2, <1>3 DEF RowType
<1>5. QED
  BY <1>1, <1>3, <1>4

LEMMA BalanceWritten ==
    ASSUME TableOK, NEW s \in Syncs, NEW c \in Coins, NEW fault, UpsertBalance(s, c, fault)
    PROVE  \/ row' = row /\ touched' = touched /\ gaps'
           \/ /\ DOMAIN row' = Coins /\ row' = [d \in Coins |-> row'[d]] /\ Touch({c}) /\ gaps' = gaps
              /\ row'[c] = [row[c] EXCEPT !.in = TRUE, !.qty = got[s][c]]
              /\ row'[c].in /\ row'[c].manual = row[c].manual
              /\ \A d \in Coins \ {c} : row'[d] = row[d]
<1>1. DOMAIN row = Coins /\ row[c] \in RowType(fills)
  BY DEF TableOK, RowOK
<1>2. CASE fault # "none"
  BY <1>2 DEF UpsertBalance
<1>3. CASE fault = "none"
  <2>1. /\ row' = [row EXCEPT ![c].in = TRUE, ![c].qty = got[s][c]]
        /\ Touch({c}) /\ gaps' = gaps
    BY <1>3 DEF UpsertBalance
  <2>2. /\ row'[c] = [row[c] EXCEPT !.in = TRUE, !.qty = got[s][c]]
        /\ DOMAIN row' = Coins /\ \A d \in Coins \ {c} : row'[d] = row[d]
        /\ row' = [d \in Coins |-> row'[d]]
    BY <1>1, <2>1
  <2>3. row'[c].in = TRUE /\ row'[c].manual = row[c].manual
    BY <1>1, <2>2 DEF RowType
  <2>4. QED
    BY <2>1, <2>2, <2>3
<1>4. QED
  BY <1>2, <1>3

LEMMA RowsDeleted ==
    ASSUME NEW s \in Syncs, NEW fault, DeleteStale(s, fault)
    PROVE  /\ DOMAIN row' = Coins /\ row' = [d \in Coins |-> row'[d]] /\ kept' \subseteq kept
           /\ \E stale \in SUBSET Coins :
                /\ stale \subseteq Coins \ touched[s]
                /\ \A d \in Coins : row'[d] = IF d \in stale THEN NoRow ELSE row[d]
                /\ kept' = kept \ stale
                /\ touched' = [r \in Syncs |->
                        IF r = s /\ s \in LiveSyncs THEN {} ELSE touched[r] \ stale]
<1> DEFINE stale == IF fault = "none" THEN Coins \ touched[s] ELSE {}
<1>1. /\ row' = [d \in Coins |-> IF d \in stale THEN NoRow ELSE row[d]]
      /\ kept' = kept \ stale
      /\ touched' = [r \in Syncs |-> IF r = s /\ s \in LiveSyncs THEN {} ELSE touched[r] \ stale]
  BY DEF DeleteStale
<1>2. stale \in SUBSET Coins /\ stale \subseteq Coins \ touched[s]
  OBVIOUS
<1> HIDE DEF stale
<1>3. QED
  BY <1>1, <1>2

LEMMA RowsAveraged ==
    ASSUME TableOK, NEW s \in Syncs, NEW fault, UpdateAverages(s, fault)
    PROVE  /\ DOMAIN row' = Coins /\ row' = [d \in Coins |-> row'[d]] /\ kept' = kept
           /\ \A d \in Coins :
                \/ row'[d] = row[d]
                \/ /\ row[d].in /\ ~row[d].manual /\ row'[d].in
                   /\ \E B \in SUBSET fills : row'[d] = [row[d] EXCEPT !.avg = B]
           /\ touched' = [r \in Syncs |->
                CASE r = s -> {}
                  [] r # s /\ passed[r] -> touched[r] \cup {d \in Coins : row'[d] # row[d]}
                  [] OTHER -> touched[r]]
<1> DEFINE new == [d \in Coins |-> IF fault = "none" THEN Average(row[d], d) ELSE row[d]]
<1>1. /\ row' = new /\ kept' = kept
      /\ touched' = [r \in Syncs |->
                CASE r = s -> {}
                  [] r # s /\ passed[r] -> touched[r] \cup {d \in Coins : new[d] # row[d]}
                  [] OTHER -> touched[r]]
  BY DEF UpdateAverages
<1>2. \A d \in Coins : row'[d] = row[d] \/ row'[d] = Average(row[d], d)
  BY <1>1
<1>3. DOMAIN row' = Coins /\ row' = [d \in Coins |-> row'[d]]
  BY <1>1
<1> HIDE DEF new
<1>4. ASSUME NEW d \in Coins, row'[d] # row[d]
      PROVE  /\ row[d].in /\ ~row[d].manual /\ row'[d].in
             /\ \E B \in SUBSET fills : row'[d] = [row[d] EXCEPT !.avg = B]
  <2>1. row'[d] = Average(row[d], d) /\ Average(row[d], d) # row[d]
    BY <1>2, <1>4
  <2>2. row[d].in /\ ~row[d].manual /\ row'[d] = [row[d] EXCEPT !.avg = Bought(d)]
    BY <2>1 DEF Average
  <2>3. Bought(d) \subseteq fills
    BY DEF Bought, TableOK
  <2>4. row[d] \in RowType(fills)
    BY DEF TableOK, RowOK
  <2>5. row'[d].in = row[d].in
    BY <2>2, <2>4 DEF RowType
  <2>6. QED
    BY <2>2, <2>3, <2>5
<1>5. QED
  BY <1>1, <1>3, <1>4

LEMMA StepTable ==
    ASSUME IInv, [Next]_vars
    PROVE  TableOK'
<1>0. ExchOK /\ TableOK /\ LocalOK /\ ex \in Exchanges
  BY TypeParts, Exchange DEF IInv
<1>a. \A c \in Coins : RowOK(row[c], fills)
  BY <1>0 DEF TableOK
<1>b. \A c \in kept : c \in Coins /\ row[c].manual
  BY <1>0 DEF TableOK
<1>1. ASSUME fills' = fills, row' = row, kept' \subseteq kept, trades' = trades PROVE TableOK'
  <2>1. row' = row /\ kept' \subseteq kept /\ trades' \subseteq fills'
    BY <1>0, <1>1 DEF TableOK
  <2>2. QED
    BY <1>0, <1>1, <2>1, TableGrows
<1>2. ASSUME NEW s \in Syncs,
             SyncBalances(s) \/ SyncUser(s) \/ BalancesDone(s) \/ SkipTrades(s)
                \/ \E f : GetBalances(s, f)
      PROVE  TableOK'
  <2>1. fills' = fills /\ row' = row /\ kept' = kept /\ trades' = trades
    BY <1>2 DEF SyncBalances, SyncUser, Start, BalancesDone, SkipTrades, GetBalances, exch, table
  <2>2. QED
    BY <1>1, <2>1
<1>3. ASSUME NextSecond \/ CoolOff \/ Restart \/ UNCHANGED vars
      PROVE  TableOK'
  <2>1. fills' = fills /\ row' = row /\ kept' = kept /\ trades' = trades
    BY <1>3 DEF NextSecond, CoolOff, Restart, vars, exch, table
  <2>2. QED
    BY <1>1, <2>1
<1>4. ASSUME NEW c \in Coins,
             Sell(c) \/ \E a, b \in Accounts(ex) : Move(c, a, b)
      PROVE  TableOK'
  <2>1. CASE Sell(c)
    <3>1. fills' = fills /\ row' = row /\ kept' \subseteq kept /\ trades' = trades
      BY <2>1 DEF Sell
    <3>2. QED
      BY <1>1, <3>1
  <2>2. CASE \E a, b \in Accounts(ex) : Move(c, a, b)
    <3>1. fills' = fills /\ row' = row /\ kept' = kept /\ trades' = trades
      BY <2>2 DEF Move, table
    <3>2. QED
      BY <1>1, <3>1
  <2>3. QED
    BY <1>4, <2>1, <2>2
<1>5. ASSUME NEW c \in Coins, NEW cat \in {"spot", "linear"}, Buy(c, cat)
      PROVE  TableOK'
  <2>1. row' = row /\ kept' \subseteq kept /\ fills \subseteq fills' /\ trades' = trades
    BY <1>5 DEF Buy, table
  <2>2. trades' \subseteq fills'
    BY <1>0, <2>1 DEF TableOK
  <2>3. QED
    BY <1>0, <2>1, <2>2, TableGrows
<1>6. ASSUME NEW s \in Syncs, NEW f, NEW hit, GetRecentTrades(s, f, hit)
      PROVE  TableOK'
  <2> DEFINE answer == GetRecentTradesOf(ex, fills, [c \in Coins |-> Holding(c)], hit, f)
  <2>1. /\ row' = row /\ kept' = kept /\ fills' = fills /\ ex \in SpotTraders
        /\ trades' = trades \cup answer.list
    BY <1>6 DEF GetRecentTrades, exch
  <2>2. answer.list \subseteq fills
    BY <2>1, TradesAnswered
  <2>3. trades \subseteq fills
    BY <1>0 DEF TableOK
  <2> HIDE DEF answer
  <2>4. trades' \subseteq fills' /\ kept' \subseteq kept /\ fills \subseteq fills'
    BY <2>1, <2>2, <2>3
  <2>5. QED
    BY <1>0, <2>1, <2>4, TableGrows
<1>7. ASSUME NEW c \in Coins, NEW manual \in BOOLEAN, UpdateAssetPrice(c, manual)
      PROVE  TableOK'
  <2>1. /\ row[c].in /\ DOMAIN row' = Coins /\ row' = [d \in Coins |-> row'[d]]
        /\ row'[c] = [row[c] EXCEPT !.avg = {}, !.manual = manual]
        /\ row'[c].manual = manual /\ \A d \in Coins \ {c} : row'[d] = row[d]
    BY <1>0, <1>7, PriceSet
  <2>2. /\ fills' = fills /\ trades' = trades
        /\ kept' = IF manual /\ Holding(c) > 0 THEN kept \cup {c} ELSE kept \ {c}
    BY <1>7 DEF UpdateAssetPrice, exch
  <2>3. RowOK([row[c] EXCEPT !.avg = {}, !.manual = manual], fills)
    BY <1>a, <2>1, RowChanges
  <2>4. \A d \in Coins : RowOK(row'[d], fills)
    BY <1>a, <2>1, <2>3
  <2>5. \A d \in kept' : d \in Coins /\ row'[d].manual
    BY <1>b, <2>1, <2>2
  <2>6. QED
    BY <1>0, <2>1, <2>2, <2>4, <2>5, TableWritten
<1>8. ASSUME NEW s \in Syncs, NEW c \in Coins, NEW f, UpsertBalance(s, c, f)
      PROVE  TableOK'
  <2>1. fills' = fills /\ kept' = kept /\ trades' = trades /\ got[s][c] > 0
    BY <1>8 DEF UpsertBalance, exch
  <2>2. CASE row' = row
    BY <1>1, <2>1, <2>2
  <2>3. CASE /\ DOMAIN row' = Coins /\ row' = [d \in Coins |-> row'[d]]
             /\ row'[c] = [row[c] EXCEPT !.in = TRUE, !.qty = got[s][c]]
             /\ row'[c].manual = row[c].manual /\ \A d \in Coins \ {c} : row'[d] = row[d]
    <3>1. got[s][c] \in 0..2*MaxFills
      BY <1>0 DEF LocalOK
    <3>2. RowOK([row[c] EXCEPT !.in = TRUE, !.qty = got[s][c]], fills)
      BY <1>a, <2>1, <3>1, RowChanges
    <3>3. \A d \in Coins : RowOK(row'[d], fills)
      BY <1>a, <2>3, <3>2
    <3>4. \A d \in kept' : d \in Coins /\ row'[d].manual
      BY <1>b, <2>1, <2>3
    <3>5. QED
      BY <1>0, <2>1, <2>3, <3>3, <3>4, TableWritten
  <2>4. QED
    BY <1>0, <1>8, <2>2, <2>3, BalanceWritten
<1>9. ASSUME NEW s \in Syncs, NEW f, DeleteStale(s, f)
      PROVE  TableOK'
  <2>1. PICK stale \in SUBSET Coins :
            /\ DOMAIN row' = Coins /\ row' = [d \in Coins |-> row'[d]]
            /\ \A d \in Coins : row'[d] = IF d \in stale THEN NoRow ELSE row[d]
            /\ kept' = kept \ stale
    BY <1>9, RowsDeleted
  <2>2. fills' = fills /\ trades' = trades
    BY <1>9 DEF DeleteStale, exch
  <2>3. \A d \in Coins : RowOK(row'[d], fills)
    BY <1>a, <2>1, NoRowOK
  <2>4. \A d \in kept' : d \in Coins /\ row'[d].manual
    BY <1>b, <2>1
  <2>5. QED
    BY <1>0, <2>1, <2>2, <2>3, <2>4, TableWritten
<1>10. ASSUME NEW s \in Syncs, NEW f, UpdateAverages(s, f)
       PROVE  TableOK'
  <2>1. /\ DOMAIN row' = Coins /\ row' = [d \in Coins |-> row'[d]] /\ kept' = kept
        /\ \A d \in Coins :
             \/ row'[d] = row[d]
             \/ /\ row[d].in /\ ~row[d].manual
                /\ \E B \in SUBSET fills : row'[d] = [row[d] EXCEPT !.avg = B]
    BY <1>0, <1>10, RowsAveraged
  <2>2. fills' = fills /\ trades' = trades
    BY <1>10 DEF UpdateAverages, exch
  <2>3. ASSUME NEW d \in Coins PROVE RowOK(row'[d], fills)
    <3>1. CASE row'[d] = row[d]
      BY <1>a, <3>1
    <3>2. ASSUME NEW B \in SUBSET fills, row[d].in, ~row[d].manual, row'[d] = [row[d] EXCEPT !.avg = B]
          PROVE  RowOK(row'[d], fills)
      <4>1. RowOK(row[d], fills)
        BY <1>a
      <4>2. RowOK([row[d] EXCEPT !.avg = B], fills)
        BY <3>2, <4>1, RowChanges
      <4>3. QED
        BY <3>2, <4>2
    <3>3. QED
      BY <2>1, <3>1, <3>2
  <2>4. \A d \in kept' : d \in Coins /\ row'[d].manual
    BY <1>b, <2>1
  <2>5. QED
    BY <1>0, <2>1, <2>2, <2>3, <2>4, TableWritten
<1>11. QED
  BY <1>2, <1>3, <1>4, <1>5, <1>6, <1>7, <1>8, <1>9, <1>10 DEF Next, Work, User

-----------------------------------------------------------------------------
(***************************************************************************)
(* Steps: counters, and what each sync remembers.                          *)
(***************************************************************************)
LEMMA StepCount ==
    ASSUME IInv, [Next]_vars
    PROVE  CountOK'
<1>0. CountOK
  BY TypeParts DEF IInv
<1>a. cooling \in BOOLEAN /\ gaps \in BOOLEAN /\ faults \in 0..MaxFaults
  BY <1>0 DEF CountOK
<1>b. ASSUME faults' = faults \/ \E fault : Call(fault) PROVE faults' \in 0..MaxFaults
  BY <1>0, <1>a, <1>b, CallType
<1>1. ASSUME faults' = faults \/ (\E fault : Call(fault)),
             cooling' \in BOOLEAN, gaps' \in BOOLEAN
      PROVE  CountOK'
  BY <1>b, <1>1 DEF CountOK
<1>2. ASSUME NEW s \in Syncs, SyncBalances(s) \/ SyncUser(s) \/ BalancesDone(s) \/ SkipTrades(s)
      PROVE  CountOK'
  BY <1>a, <1>1, <1>2 DEF SyncBalances, SyncUser, Start, BalancesDone, SkipTrades
<1>3. ASSUME NEW s \in Syncs, NEW f,
             DeleteStale(s, f) \/ UpdateAverages(s, f) \/ \E c \in Coins : UpsertBalance(s, c, f)
      PROVE  CountOK'
  <2>1. Call(f) /\ cooling' = cooling /\ (gaps' = gaps \/ gaps' = TRUE)
    BY <1>3 DEF DeleteStale, UpdateAverages, UpsertBalance
  <2>2. gaps' \in BOOLEAN
    BY <1>a, <2>1
  <2>3. QED
    BY <1>a, <1>1, <2>1, <2>2
<1>4. ASSUME NEW s \in Syncs, NEW f, GetBalances(s, f) PROVE CountOK'
  <2>1. Call(f)
    BY <1>4 DEF GetBalances
  <2>2. gaps' \in BOOLEAN /\ cooling' \in BOOLEAN
    BY <1>4, Zenon DEF GetBalances, SyncError
  <2>3. QED
    BY <1>1, <2>1, <2>2
<1>5. ASSUME NEW s \in Syncs, NEW f, NEW hit, GetRecentTrades(s, f, hit) PROVE CountOK'
  <2>1. Call(f) /\ gaps' = gaps
    BY <1>5 DEF GetRecentTrades
  <2>2. cooling' \in BOOLEAN
    BY <1>5, Zenon DEF GetRecentTrades, SyncError
  <2>3. QED
    BY <1>a, <1>1, <2>1, <2>2
<1>6. ASSUME NEW c \in Coins,
             \/ \E cat \in {"spot", "linear"} : Buy(c, cat)
             \/ Sell(c)
             \/ \E manual \in BOOLEAN : UpdateAssetPrice(c, manual)
      PROVE  CountOK'
  BY <1>a, <1>1, <1>6 DEF Buy, Sell, UpdateAssetPrice
<1>7. ASSUME NEW c \in Coins, NEW a, NEW b, Move(c, a, b) PROVE CountOK'
  <2>1. Call("move") /\ cooling' = cooling
    BY <1>7 DEF Move
  <2>2. gaps' \in BOOLEAN
    BY <1>7, Zenon DEF Move
  <2>3. QED
    BY <1>a, <1>1, <2>1, <2>2
<1>8. ASSUME NextSecond \/ CoolOff \/ Restart \/ UNCHANGED vars PROVE CountOK'
  BY <1>a, <1>1, <1>8 DEF NextSecond, CoolOff, Restart, vars
<1>9. QED
  BY <1>2, <1>3, <1>4, <1>5, <1>6, <1>7, <1>8 DEF Next, Work, User

\* What one sync remembers, on an exchange with n accounts: its step, the
\* accounts asked, the coins got, whether the clock passed, the rows touched.
SyncOK(n, p, k, g, b, t) ==
    /\ p \in Steps /\ k \in Nat /\ k + 1 <= n
    /\ g \in [Coins -> 0..2*MaxFills] /\ b \in BOOLEAN /\ t \in SUBSET Coins
    /\ b => p # "idle"
    /\ k > 0 => p = "balances"
    /\ p \notin {"idle", "balances"} \/ k > 0 => b
    /\ p # "upsert" /\ k = 0 => g = Nothing
    /\ k > 0 => \A c \in Coins : g[c] <= MaxFills

Now(s) == SyncOK(Len(AccountsOf(ex)), pc[s], asked[s], got[s], passed[s], touched[s])

Functions ==
    /\ pc = [s \in Syncs |-> pc[s]] /\ asked = [s \in Syncs |-> asked[s]]
    /\ got = [s \in Syncs |-> got[s]] /\ passed = [s \in Syncs |-> passed[s]]
    /\ touched = [s \in Syncs |-> touched[s]]

LocalSplit == ex \in Exchanges => (LocalOK /\ PassInv <=> Functions /\ \A s \in Syncs : Now(s))

LEMMA LocalParts == LocalSplit
<1> SUFFICES ASSUME ex \in Exchanges PROVE LocalOK /\ PassInv <=> Functions /\ \A s \in Syncs : Now(s)
  BY DEF LocalSplit
<1>0. Len(AccountsOf(ex)) \in Nat
  BY AccountFacts
<1>1. ASSUME LocalOK, PassInv PROVE Functions
  BY <1>1, Zenon DEF LocalOK, Functions
<1>2. ASSUME LocalOK, PassInv, NEW s \in Syncs PROVE Now(s)
  <2>1. /\ pc[s] \in Steps /\ asked[s] \in Nat /\ got[s] \in [Coins -> 0..2*MaxFills]
        /\ passed[s] \in BOOLEAN /\ touched[s] \in SUBSET Coins
    BY <1>0, <1>2 DEF LocalOK
  <2>2. QED
    BY <1>2, <2>1, Zenon DEF Now, SyncOK, PassInv
<1>3. ASSUME Functions, \A s \in Syncs : Now(s) PROVE PassInv
  BY <1>3, Zenon DEF Now, SyncOK, PassInv
<1>4. ASSUME Functions, \A s \in Syncs : Now(s) PROVE LocalOK
  <2>1. ASSUME NEW s \in Syncs
        PROVE  /\ pc[s] \in Steps /\ asked[s] \in Nat /\ asked[s] + 1 <= Len(AccountsOf(ex))
               /\ got[s] \in [Coins -> 0..2*MaxFills]
               /\ passed[s] \in BOOLEAN /\ touched[s] \in SUBSET Coins
    BY <1>4, Zenon DEF Now, SyncOK
  <2>2. \A s \in Syncs : asked[s] \in 0..Len(AccountsOf(ex))
    BY <1>0, <2>1
  <2>3. pc \in [Syncs -> Steps] /\ got \in [Syncs -> [Coins -> 0..2*MaxFills]]
    BY <1>4, <2>1, Zenon DEF Functions
  <2>4. asked \in [Syncs -> 0..Len(AccountsOf(ex))]
    BY <1>4, <2>2, Zenon DEF Functions
  <2>5. passed \in [Syncs -> BOOLEAN] /\ touched \in [Syncs -> SUBSET Coins]
    BY <1>4, <2>1, Zenon DEF Functions
  <2>6. QED
    BY <2>3, <2>4, <2>5, Zenon DEF LocalOK
<1>5. QED
  BY <1>1, <1>2, <1>3, <1>4, Zenon

LEMMA LocalPartsNext == LocalSplit'
BY LocalParts, PTL

LEMMA OneMoves ==
    ASSUME LocalOK, PassInv, ex \in Exchanges, ex' = ex, Functions', NEW s \in Syncs,
           \A r \in Syncs \ {s} :
              /\ pc'[r] = pc[r] /\ asked'[r] = asked[r] /\ got'[r] = got[r] /\ passed'[r] = passed[r]
              /\ touched'[r] \in SUBSET Coins,
           SyncOK(Len(AccountsOf(ex)), pc'[s], asked'[s], got'[s], passed'[s], touched'[s])
    PROVE  LocalOK' /\ PassInv'
<1>1. ASSUME NEW r \in Syncs \ {s}
      PROVE  SyncOK(Len(AccountsOf(ex)), pc'[r], asked'[r], got'[r], passed'[r], touched'[r])
  <2>1. Now(r)
    BY LocalParts DEF LocalSplit
  <2>2. SyncOK(Len(AccountsOf(ex)), pc[r], asked[r], got[r], passed[r], touched'[r])
    BY <2>1, Zenon DEF Now, SyncOK
  <2>3. QED
    BY <2>2
<1>2. \A r \in Syncs : SyncOK(Len(AccountsOf(ex)), pc'[r], asked'[r], got'[r], passed'[r], touched'[r])
  BY <1>1
<1>3. \A r \in Syncs : Now(r)'
  BY <1>2 DEF Now
<1>4. QED
  BY <1>3, LocalPartsNext DEF LocalSplit

\* Only what has been touched changes.
LEMMA NoneMoves ==
    ASSUME LocalOK, PassInv, ex' = ex, UNCHANGED <<pc, asked, got, passed>>,
           touched' \in [Syncs -> SUBSET Coins]
    PROVE  LocalOK' /\ PassInv'
<1>1. pc' = pc /\ asked' = asked /\ got' = got /\ passed' = passed
  OBVIOUS
<1>2. LocalOK'
  <2>1. pc' \in [Syncs -> Steps] /\ got' \in [Syncs -> [Coins -> 0..2*MaxFills]]
    BY <1>1, Zenon DEF LocalOK
  <2>2. asked' \in [Syncs -> 0..Len(AccountsOf(ex'))]
    BY <1>1, Zenon DEF LocalOK
  <2>3. passed' \in [Syncs -> BOOLEAN]
    BY <1>1, Zenon DEF LocalOK
  <2>4. QED
    BY <2>1, <2>2, <2>3, Zenon DEF LocalOK
<1>3. PassInv'
  BY <1>1, Zenon DEF PassInv
<1>4. QED
  BY <1>2, <1>3

LEMMA BalancesAsked ==
    ASSUME ExchOK, LocalOK, PassInv, NEW s \in Syncs, NEW fault, GetBalances(s, fault)
    PROVE  LET n     == Len(AccountsOf(ex))
               found == wallet[AccountsOf(ex)[asked[s] + 1]]
           IN
           /\ pc[s] = "balances" /\ passed[s] /\ Functions'
           /\ \A r \in Syncs \ {s} : /\ pc'[r] = pc[r] /\ asked'[r] = asked[r] /\ got'[r] = got[r]
                                     /\ passed'[r] = passed[r] /\ touched'[r] = touched[r]
           /\ \/ /\ asked'[s] = 0 /\ got'[s] = Nothing
                 /\ IF s \in FullSyncs
                    THEN pc'[s] = "tradesOnly" /\ passed'[s] = TRUE /\ touched'[s] = touched[s]
                    ELSE pc'[s] = "idle" /\ passed'[s] = FALSE /\ touched'[s] = {}
              \/ /\ IF asked[s] + 1 = n THEN asked'[s] = 0 /\ pc'[s] = "upsert"
                    ELSE asked'[s] = asked[s] + 1 /\ pc'[s] = "balances"
                 /\ passed'[s] = passed[s] /\ touched'[s] = touched[s]
                 /\ \/ got'[s] = IF n = 2 THEN Plus(got[s], found) ELSE found
                    \/ got'[s] = got[s] /\ n = 2 /\ gaps'
<1> DEFINE n      == Len(AccountsOf(ex))
           account == AccountsOf(ex)[asked[s] + 1]
           found  == wallet[account]
           answer == GetBalancesOf(ex, got[s], account, found, fault)
<1>1. /\ pc[s] = "balances" /\ passed[s]
      /\ gaps' = (gaps \/ (fault # "none" /\ answer.err = "none"))
      /\ got' = [got EXCEPT ![s] = answer.sum]
      /\ CASE answer.err # "none" ->
                /\ asked' = [asked EXCEPT ![s] = 0]
                /\ Goto(s, IF s \in FullSyncs THEN "tradesOnly" ELSE "idle")
                /\ passed' = [passed EXCEPT ![s] = s \in FullSyncs]
                /\ touched' = [touched EXCEPT ![s] = IF s \in FullSyncs THEN @ ELSE {}]
           [] answer.err = "none" /\ asked[s] + 1 = n ->
                /\ asked' = [asked EXCEPT ![s] = 0]
                /\ Goto(s, "upsert")
                /\ UNCHANGED <<passed, touched>>
           [] OTHER ->
                /\ asked' = [asked EXCEPT ![s] = @ + 1]
                /\ UNCHANGED <<pc, passed, touched>>
  BY DEF GetBalances
<1>2. ex \in Exchanges
  BY Exchange
<1>3. /\ answer.err # "none" => answer.sum = Nothing
      /\ answer.err = "none" /\ fault # "none" => answer.sum = got[s] /\ n = 2
      /\ fault = "none" => /\ answer.err = "none"
                           /\ answer.sum = IF n = 2 THEN Plus(got[s], found) ELSE found
  BY <1>2, BalancesAnswered
<1>4. Functions
  BY <1>2, LocalParts DEF LocalSplit
<1>5. DOMAIN pc = Syncs /\ DOMAIN asked = Syncs /\ DOMAIN got = Syncs /\ DOMAIN passed = Syncs
      /\ DOMAIN touched = Syncs
  BY DEF LocalOK
<1> HIDE DEF n, account, found, answer
<1>6. /\ got' = [r \in Syncs |-> got'[r]] /\ got'[s] = answer.sum
      /\ \A r \in Syncs \ {s} : got'[r] = got[r]
  BY <1>1, <1>5
<1>7. CASE answer.err # "none"
  <2>1. /\ asked' = [asked EXCEPT ![s] = 0]
        /\ pc' = [pc EXCEPT ![s] = IF s \in FullSyncs THEN "tradesOnly" ELSE "idle"]
        /\ passed' = [passed EXCEPT ![s] = s \in FullSyncs]
        /\ touched' = [touched EXCEPT ![s] = IF s \in FullSyncs THEN touched[s] ELSE {}]
    BY <1>1, <1>7 DEF Goto
  <2>2. /\ Functions'
        /\ \A r \in Syncs \ {s} : /\ pc'[r] = pc[r] /\ asked'[r] = asked[r]
                                  /\ passed'[r] = passed[r] /\ touched'[r] = touched[r]
    BY <1>5, <1>6, <2>1 DEF Functions
  <2>3. /\ asked'[s] = 0 /\ got'[s] = Nothing
        /\ IF s \in FullSyncs
           THEN pc'[s] = "tradesOnly" /\ passed'[s] = TRUE /\ touched'[s] = touched[s]
           ELSE pc'[s] = "idle" /\ passed'[s] = FALSE /\ touched'[s] = {}
    <3>1. asked'[s] = 0 /\ got'[s] = Nothing
      BY <1>3, <1>5, <1>6, <1>7, <2>1
    <3>2. CASE s \in FullSyncs
      BY <1>5, <2>1, <3>1, <3>2
    <3>3. CASE s \notin FullSyncs
      <4>1. (s \in FullSyncs) = FALSE
        BY <3>3
      <4>2. passed' = [passed EXCEPT ![s] = FALSE]
        BY <2>1, <4>1, Zenon
      <4>3. pc'[s] = "idle" /\ passed'[s] = FALSE /\ touched'[s] = {}
        BY <1>5, <2>1, <3>3, <4>2
      <4>4. QED
        BY <3>1, <3>3, <4>3
    <3>4. QED
      BY <3>2, <3>3
  <2>4. QED
    BY <1>1, <1>6, <2>2, <2>3 DEF n, account, found
<1>8. CASE answer.err = "none"
  <2>1. /\ passed' = passed /\ touched' = touched
        /\ IF asked[s] + 1 = n THEN asked' = [asked EXCEPT ![s] = 0] /\ pc' = [pc EXCEPT ![s] = "upsert"]
           ELSE asked' = [asked EXCEPT ![s] = @ + 1] /\ pc' = pc
    BY <1>1, <1>8 DEF Goto
  <2>2. /\ Functions'
        /\ \A r \in Syncs \ {s} : /\ pc'[r] = pc[r] /\ asked'[r] = asked[r]
                                  /\ passed'[r] = passed[r] /\ touched'[r] = touched[r]
        /\ IF asked[s] + 1 = n THEN asked'[s] = 0 /\ pc'[s] = "upsert"
           ELSE asked'[s] = asked[s] + 1 /\ pc'[s] = "balances"
    BY <1>1, <1>4, <1>5, <1>6, <2>1 DEF Functions
  <2>3. \/ got'[s] = IF n = 2 THEN Plus(got[s], found) ELSE found
        \/ got'[s] = got[s] /\ n = 2 /\ gaps'
    BY <1>1, <1>3, <1>6, <1>8
  <2>4. QED
    BY <1>1, <1>6, <2>1, <2>2, <2>3 DEF n, account, found
<1>9. QED
  BY <1>7, <1>8

LEMMA StepLocal ==
    ASSUME IInv, [Next]_vars
    PROVE  LocalOK' /\ PassInv'
<1>0. ExchOK /\ LocalOK /\ PassInv /\ TableOK /\ ex \in Exchanges
  BY TypeParts, Exchange DEF IInv
<1> DEFINE n == Len(AccountsOf(ex))
<1>a. n \in {1, 2} /\ n \in Nat /\ MaxFills \in Nat
  BY <1>0, AccountFacts, FaultsAssumption
<1>b. Functions /\ \A s \in Syncs : SyncOK(n, pc[s], asked[s], got[s], passed[s], touched[s])
  BY <1>0, LocalParts DEF LocalSplit, Now
<1>c. /\ DOMAIN pc = Syncs /\ DOMAIN asked = Syncs /\ DOMAIN got = Syncs /\ DOMAIN passed = Syncs
      /\ DOMAIN touched = Syncs /\ touched \in [Syncs -> SUBSET Coins]
  BY <1>0 DEF LocalOK
<1>d. Nothing \in [Coins -> 0..2*MaxFills]
  BY NothingType
<1>1. ASSUME NEW s \in Syncs, SyncBalances(s) \/ SyncUser(s) PROVE LocalOK' /\ PassInv'
  <2>1. /\ ex' = ex /\ pc[s] = "idle" /\ pc' = [pc EXCEPT ![s] = "balances"]
        /\ asked' = asked /\ got' = got /\ passed' = passed /\ touched' = touched
    BY <1>1 DEF SyncBalances, SyncUser, Start, Goto, exch
  <2>2. /\ Functions' /\ pc'[s] = "balances"
        /\ \A r \in Syncs \ {s} : /\ pc'[r] = pc[r] /\ asked'[r] = asked[r] /\ got'[r] = got[r]
                                  /\ passed'[r] = passed[r] /\ touched'[r] \in SUBSET Coins
    BY <1>b, <1>c, <2>1 DEF Functions
  <2>3. SyncOK(n, pc[s], asked[s], got[s], passed[s], touched[s])
    BY <1>b
  <2>4. "balances" \in Steps /\ "idle" # "upsert" /\ "idle" # "balances"
    BY DEF Steps
  <2>5. SyncOK(n, "balances", asked[s], got[s], passed[s], touched[s])
    BY <2>1, <2>3, <2>4 DEF SyncOK
  <2>6. SyncOK(n, pc'[s], asked'[s], got'[s], passed'[s], touched'[s])
    BY <2>1, <2>2, <2>5
  <2>7. QED
    BY <1>0, <2>1, <2>2, <2>6, OneMoves
<1>2. ASSUME NEW s \in Syncs, NEW step \in {"trades", "delete", "average"},
             pc[s] \in {"upsert", "trades", "tradesOnly", "delete"}, got[s] = Nothing, ex' = ex,
             pc' = [pc EXCEPT ![s] = step],
             asked' = asked, got' = got, passed' = passed,
             touched' = [r \in Syncs |-> touched'[r]], \A r \in Syncs : touched'[r] \in SUBSET Coins
      PROVE  LocalOK' /\ PassInv'
  <2>1. /\ Functions' /\ pc'[s] = step
        /\ \A r \in Syncs \ {s} : /\ pc'[r] = pc[r] /\ asked'[r] = asked[r] /\ got'[r] = got[r]
                                  /\ passed'[r] = passed[r] /\ touched'[r] \in SUBSET Coins
    BY <1>b, <1>c, <1>2 DEF Functions
  <2>2. SyncOK(n, pc[s], asked[s], got[s], passed[s], touched[s])
    BY <1>b
  <2>3. pc[s] \notin {"idle", "balances"} /\ step \in Steps /\ step \notin {"idle", "balances"}
    BY <1>2 DEF Steps
  <2>4. passed[s] /\ ~(asked[s] > 0)
    BY <2>2, <2>3 DEF SyncOK
  <2>5. SyncOK(n, step, asked[s], got[s], passed[s], touched'[s])
    BY <1>2, <2>2, <2>3, <2>4 DEF SyncOK
  <2>6. SyncOK(n, pc'[s], asked'[s], got'[s], passed'[s], touched'[s])
    BY <1>2, <2>1, <2>5
  <2>7. QED
    BY <1>0, <1>2, <2>1, <2>6, OneMoves
<1>e. ASSUME NEW s \in Syncs, pc[s] \notin {"idle", "balances", "upsert"} PROVE got[s] = Nothing
  <2>1. SyncOK(n, pc[s], asked[s], got[s], passed[s], touched[s])
    BY <1>b
  <2>2. QED
    BY <1>e, <2>1 DEF SyncOK
<1>3. ASSUME NEW s \in Syncs, BalancesDone(s) \/ SkipTrades(s) PROVE LocalOK' /\ PassInv'
  <2>1. /\ pc[s] \in {"upsert", "tradesOnly"} /\ got[s] = Nothing /\ ex' = ex
        /\ asked' = asked /\ got' = got /\ passed' = passed /\ touched' = touched
        /\ \E step \in {"trades", "delete", "average"} : pc' = [pc EXCEPT ![s] = step]
    BY <1>3, <1>e DEF BalancesDone, SkipTrades, Goto, exch
  <2>2. touched' = [r \in Syncs |-> touched'[r]] /\ \A r \in Syncs : touched'[r] \in SUBSET Coins
    BY <1>c, <2>1
  <2>3. QED
    BY <1>2, <2>1, <2>2
<1>4. ASSUME NEW s \in Syncs, NEW f, NEW hit, GetRecentTrades(s, f, hit) PROVE LocalOK' /\ PassInv'
  <2>1. /\ pc[s] \in {"trades", "tradesOnly"} /\ ex' = ex
        /\ asked' = asked /\ got' = got /\ passed' = passed /\ touched' = touched
        /\ \E step \in {"trades", "delete", "average"} : pc' = [pc EXCEPT ![s] = step]
    BY <1>4 DEF GetRecentTrades, Goto, exch
  <2>2. touched' = [r \in Syncs |-> touched'[r]] /\ \A r \in Syncs : touched'[r] \in SUBSET Coins
    BY <1>c, <2>1
  <2>3. got[s] = Nothing
    BY <2>1, <1>e
  <2>4. QED
    BY <1>2, <2>1, <2>2, <2>3
<1>5. ASSUME NEW s \in Syncs, ex' = ex, asked[s] = 0,
             pc' = [pc EXCEPT ![s] = "idle"], got' = [got EXCEPT ![s] = Nothing],
             passed' = [passed EXCEPT ![s] = FALSE], asked' = asked,
             touched' = [r \in Syncs |-> touched'[r]], \A r \in Syncs : touched'[r] \in SUBSET Coins
      PROVE  LocalOK' /\ PassInv'
  <2>1. /\ Functions' /\ pc'[s] = "idle" /\ got'[s] = Nothing /\ passed'[s] = FALSE /\ asked'[s] = 0
        /\ \A r \in Syncs \ {s} : /\ pc'[r] = pc[r] /\ asked'[r] = asked[r] /\ got'[r] = got[r]
                                  /\ passed'[r] = passed[r] /\ touched'[r] \in SUBSET Coins
    BY <1>b, <1>c, <1>5 DEF Functions
  <2>2. "idle" \in Steps /\ 0 \in Nat /\ 0 + 1 <= n /\ ~(0 > 0) /\ touched'[s] \in SUBSET Coins
    BY <1>a, <1>5 DEF Steps
  <2>3. SyncOK(n, "idle", 0, Nothing, FALSE, touched'[s])
    BY <1>d, <2>2 DEF SyncOK
  <2>4. QED
    BY <1>0, <1>5, <2>1, <2>3, OneMoves
<1>f. ASSUME NEW s \in Syncs, pc[s] # "balances" PROVE asked[s] = 0
  <2>1. SyncOK(n, pc[s], asked[s], got[s], passed[s], touched[s])
    BY <1>b
  <2>2. QED
    BY <1>f, <2>1 DEF SyncOK
<1>6. ASSUME NEW s \in Syncs, NEW f, DeleteStale(s, f) PROVE LocalOK' /\ PassInv'
  <2>1. ex' = ex /\ pc[s] = "delete" /\ asked' = asked
    BY <1>6 DEF DeleteStale, exch
  <2>2. touched' = [r \in Syncs |-> touched'[r]] /\ \A r \in Syncs : touched'[r] \in SUBSET Coins
    BY <1>c, <1>6, RowsDeleted
  <2>3. CASE s \in FullSyncs
    <3>1. pc' = [pc EXCEPT ![s] = "average"] /\ got' = got /\ passed' = passed
      BY <1>6, <2>3 DEF DeleteStale, Goto
    <3>2. got[s] = Nothing
      BY <2>1, <1>e
    <3>3. QED
      BY <1>2, <2>1, <2>2, <3>1, <3>2
  <2>4. CASE s \notin FullSyncs
    <3>1. /\ pc' = [pc EXCEPT ![s] = "idle"] /\ got' = [got EXCEPT ![s] = Nothing]
          /\ passed' = [passed EXCEPT ![s] = FALSE]
      BY <1>6, <2>4 DEF DeleteStale, Finish, Goto
    <3>2. asked[s] = 0
      BY <2>1, <1>f
    <3>3. QED
      BY <1>5, <2>1, <2>2, <3>1, <3>2
  <2>5. QED
    BY <2>3, <2>4
<1>7. ASSUME NEW s \in Syncs, NEW f, UpdateAverages(s, f) PROVE LocalOK' /\ PassInv'
  <2>1. /\ ex' = ex /\ pc[s] = "average" /\ asked' = asked
        /\ pc' = [pc EXCEPT ![s] = "idle"] /\ got' = [got EXCEPT ![s] = Nothing]
        /\ passed' = [passed EXCEPT ![s] = FALSE]
    BY <1>7 DEF UpdateAverages, Finish, Goto, exch
  <2>2. touched' = [r \in Syncs |->
                CASE r = s -> {}
                  [] r # s /\ passed[r] -> touched[r] \cup {d \in Coins : row'[d] # row[d]}
                  [] OTHER -> touched[r]]
    BY <1>0, <1>7, RowsAveraged
  <2>3. touched' = [r \in Syncs |-> touched'[r]] /\ \A r \in Syncs : touched'[r] \in SUBSET Coins
    <3>1. ASSUME NEW r \in Syncs
          PROVE  touched'[r] \in {{}, touched[r] \cup {d \in Coins : row'[d] # row[d]}, touched[r]}
      BY <2>2
    <3>2. QED
      BY <1>c, <2>2, <3>1
  <2>4. asked[s] = 0
    BY <2>1, <1>f
  <2>5. QED
    BY <1>5, <2>1, <2>3, <2>4
<1>g. ASSUME NEW C \in SUBSET Coins, Touch(C) PROVE touched' \in [Syncs -> SUBSET Coins]
  BY <1>c, <1>g DEF Touch
<1>8. ASSUME NEW s \in Syncs, NEW c \in Coins, NEW f, UpsertBalance(s, c, f)
      PROVE  LocalOK' /\ PassInv'
  <2>1. /\ ex' = ex /\ pc[s] = "upsert" /\ asked' = asked /\ pc' = pc /\ passed' = passed
        /\ got' = [got EXCEPT ![s][c] = 0]
    BY <1>8 DEF UpsertBalance, exch
  <2>2. touched' \in [Syncs -> SUBSET Coins]
    BY <1>0, <1>c, <1>g, <1>8, BalanceWritten
  <2>3. /\ Functions' /\ got'[s] = [got[s] EXCEPT ![c] = 0]
        /\ \A r \in Syncs \ {s} : /\ pc'[r] = pc[r] /\ asked'[r] = asked[r] /\ got'[r] = got[r]
                                  /\ passed'[r] = passed[r] /\ touched'[r] \in SUBSET Coins
    BY <1>b, <1>c, <2>1, <2>2 DEF Functions
  <2>4. SyncOK(n, pc[s], asked[s], got[s], passed[s], touched[s]) /\ asked[s] = 0
    BY <1>b, <1>f, <2>1
  <2>5. got'[s] \in [Coins -> 0..2*MaxFills] /\ touched'[s] \in SUBSET Coins
    <3>1. got[s] \in [Coins -> 0..2*MaxFills] /\ 0 \in 0..2*MaxFills
      BY <1>0, <1>a DEF LocalOK
    <3>2. QED
      BY <2>2, <2>3, <3>1
  <2>6. ~(asked[s] > 0)
    BY <2>4
  <2>7. SyncOK(n, pc[s], asked[s], got'[s], passed[s], touched'[s])
    BY <2>1, <2>4, <2>5, <2>6 DEF SyncOK
  <2>8. SyncOK(n, pc'[s], asked'[s], got'[s], passed'[s], touched'[s])
    BY <2>1, <2>7
  <2>9. QED
    BY <1>0, <2>1, <2>3, <2>8, OneMoves
<1>9. ASSUME NEW s \in Syncs, NEW f, GetBalances(s, f) PROVE LocalOK' /\ PassInv'
  <2> DEFINE found == wallet[AccountsOf(ex)[asked[s] + 1]]
  <2>1. /\ pc[s] = "balances" /\ passed[s] /\ Functions'
        /\ \A r \in Syncs \ {s} : /\ pc'[r] = pc[r] /\ asked'[r] = asked[r] /\ got'[r] = got[r]
                                  /\ passed'[r] = passed[r] /\ touched'[r] \in SUBSET Coins
    BY <1>0, <1>c, <1>9, BalancesAsked
  <2>2. \/ /\ asked'[s] = 0 /\ got'[s] = Nothing
           /\ IF s \in FullSyncs
              THEN pc'[s] = "tradesOnly" /\ passed'[s] = TRUE /\ touched'[s] = touched[s]
              ELSE pc'[s] = "idle" /\ passed'[s] = FALSE /\ touched'[s] = {}
        \/ /\ IF asked[s] + 1 = n THEN asked'[s] = 0 /\ pc'[s] = "upsert"
              ELSE asked'[s] = asked[s] + 1 /\ pc'[s] = "balances"
           /\ passed'[s] = passed[s] /\ touched'[s] = touched[s]
           /\ \/ got'[s] = IF n = 2 THEN Plus(got[s], found) ELSE found
              \/ got'[s] = got[s] /\ n = 2
    BY <1>0, <1>9, BalancesAsked
  <2>3. SyncOK(n, pc[s], asked[s], got[s], passed[s], touched[s])
    BY <1>b
  <2>4. /\ asked[s] \in Nat /\ asked[s] + 1 <= n /\ got[s] \in [Coins -> 0..2*MaxFills]
        /\ touched[s] \in SUBSET Coins
        /\ asked[s] = 0 => got[s] = Nothing
        /\ asked[s] > 0 => \A c \in Coins : got[s][c] <= MaxFills
    BY <2>1, <2>3 DEF SyncOK
  <2>5. \A c \in Coins : got[s][c] \in Nat /\ got[s][c] <= MaxFills
    <3>1. CASE asked[s] = 0
      <4>1. \A c \in Coins : got[s][c] = 0
        BY <2>4, <3>1, NothingType
      <4>2. QED
        BY <1>a, <4>1
    <3>2. CASE asked[s] > 0
      BY <1>a, <2>4, <3>2
    <3>3. QED
      BY <2>4, <3>1, <3>2
  <2>6. found \in [Coins -> 0..MaxFills]
    <3>1. asked[s] + 1 \in 1..n
      BY <1>a, <2>4
    <3>2. AccountsOf(ex)[asked[s] + 1] \in Accounts(ex)
      BY <1>0, <3>1, AccountFacts DEF Accounts, AccountsOf
    <3>3. QED
      BY <3>2, <1>0 DEF ExchOK
  <2> HIDE DEF n, found
  <2>a. asked[s] = 0 \/ asked[s] + 1 = n
    <3>1. \A k \in Nat : k + 1 <= n => k = 0 \/ k + 1 = n
      BY <1>a
    <3>2. QED
      BY <2>4, <3>1
  <2>7. \A c \in Coins : found[c] \in Nat /\ found[c] <= MaxFills
    BY <1>a, <2>6
  <2>8. /\ Plus(got[s], found) \in [Coins -> 0..2*MaxFills]
        /\ found \in [Coins -> 0..2*MaxFills]
    <3>1. \A c \in Coins : got[s][c] + found[c] \in 0..2*MaxFills /\ found[c] \in 0..2*MaxFills
      BY <1>a, <2>5, <2>7
    <3>2. found = [c \in Coins |-> found[c]]
      BY <2>6
    <3>3. Plus(got[s], found) \in [Coins -> 0..2*MaxFills]
      BY <3>1 DEF Plus
    <3>4. found \in [Coins -> 0..2*MaxFills]
      BY <2>6, <3>1
    <3>5. QED
      BY <3>3, <3>4
  <2>9. CASE /\ asked'[s] = 0 /\ got'[s] = Nothing
             /\ IF s \in FullSyncs
                THEN pc'[s] = "tradesOnly" /\ passed'[s] = TRUE /\ touched'[s] = touched[s]
                ELSE pc'[s] = "idle" /\ passed'[s] = FALSE /\ touched'[s] = {}
    <3>1. "idle" \in Steps /\ "tradesOnly" \in Steps /\ 0 \in Nat /\ 0 + 1 <= n /\ ~(0 > 0)
      BY <1>a DEF Steps
    <3>2. SyncOK(n, "tradesOnly", 0, Nothing, TRUE, touched[s]) /\ SyncOK(n, "idle", 0, Nothing, FALSE, {})
      BY <1>d, <2>4, <3>1 DEF SyncOK
    <3>3. SyncOK(n, pc'[s], asked'[s], got'[s], passed'[s], touched'[s])
      BY <2>9, <3>2
    <3>4. QED
      BY <1>0, <1>9, <2>1, <3>3, OneMoves DEF GetBalances, exch, n
  <2>10. CASE /\ IF asked[s] + 1 = n THEN asked'[s] = 0 /\ pc'[s] = "upsert"
                 ELSE asked'[s] = asked[s] + 1 /\ pc'[s] = "balances"
              /\ passed'[s] = passed[s] /\ touched'[s] = touched[s]
              /\ \/ got'[s] = IF n = 2 THEN Plus(got[s], found) ELSE found
                 \/ got'[s] = got[s] /\ n = 2
    <3>1. got'[s] \in [Coins -> 0..2*MaxFills]
      BY <2>4, <2>8, <2>10
    <3>2. passed[s] \in BOOLEAN
      BY <2>3 DEF SyncOK
    <3>3. CASE asked[s] + 1 = n
      <4>1. "upsert" \in Steps /\ 0 \in Nat /\ 0 + 1 <= n /\ ~(0 > 0)
        BY <1>a DEF Steps
      <4>2. SyncOK(n, "upsert", 0, got'[s], passed[s], touched[s])
        BY <2>1, <2>4, <3>1, <3>2, <4>1 DEF SyncOK
      <4>3. SyncOK(n, pc'[s], asked'[s], got'[s], passed'[s], touched'[s])
        BY <2>10, <3>3, <4>2
      <4>4. QED
        BY <1>0, <1>9, <2>1, <4>3, OneMoves DEF GetBalances, exch, n
    <3>4. CASE asked[s] + 1 # n
      <4>1. asked[s] = 0 /\ n = 2 /\ got[s] = Nothing
        BY <1>a, <2>4, <2>a, <3>4
      <4>2. "balances" \in Steps /\ 1 \in Nat /\ 1 + 1 <= n /\ 1 # 0 /\ asked[s] + 1 = 1
        BY <4>1 DEF Steps
      <4>3. \A c \in Coins : got'[s][c] <= MaxFills
        <5>1. \A c \in Coins : got[s][c] = 0
          BY <4>1, NothingType
        <5>2. \A c \in Coins : Plus(got[s], found)[c] = got[s][c] + found[c]
          BY DEF Plus
        <5>3. \A c \in Coins : Plus(got[s], found)[c] <= MaxFills
          BY <2>7, <5>1, <5>2
        <5>4. QED
          BY <2>5, <2>10, <4>1, <5>3
      <4>4. SyncOK(n, "balances", 1, got'[s], passed[s], touched[s])
        BY <2>1, <2>4, <3>1, <3>2, <4>2, <4>3 DEF SyncOK
      <4>5. SyncOK(n, pc'[s], asked'[s], got'[s], passed'[s], touched'[s])
        BY <2>10, <3>4, <4>2, <4>4
      <4>6. QED
        BY <1>0, <1>9, <2>1, <4>5, OneMoves DEF GetBalances, exch, n
    <3>5. QED
      BY <3>3, <3>4
  <2>11. QED
    BY <2>2, <2>9, <2>10 DEF n, found
<1>10. CASE NextSecond
  <2>1. /\ passed' = [s \in Syncs |-> pc[s] # "idle"] /\ ex' = ex
        /\ pc' = pc /\ asked' = asked /\ got' = got /\ touched' = touched
    BY <1>10 DEF NextSecond, exch
  <2>2. Functions'
    BY <1>b, <2>1 DEF Functions
  <2>3. ASSUME NEW s \in Syncs PROVE Now(s)'
    <3>1. SyncOK(n, pc[s], asked[s], got[s], passed[s], touched[s])
      BY <1>b
    <3>2. passed'[s] \in BOOLEAN /\ (passed'[s] <=> pc[s] # "idle")
      BY <2>1
    <3>3. asked[s] > 0 => pc[s] = "balances"
      BY <3>1 DEF SyncOK
    <3>4. SyncOK(n, pc[s], asked[s], got[s], passed'[s], touched[s])
      BY <3>1, <3>2, <3>3 DEF SyncOK
    <3>5. QED
      BY <2>1, <3>4 DEF Now
  <2>4. QED
    BY <1>0, <2>1, <2>2, <2>3, LocalPartsNext DEF LocalSplit
<1>11. CASE Restart
  <2>1. /\ ex' = ex /\ pc' = [s \in Syncs |-> "idle"] /\ asked' = [s \in Syncs |-> 0]
        /\ got' = [s \in Syncs |-> Nothing] /\ passed' = [s \in Syncs |-> FALSE]
        /\ touched' = [s \in Syncs |-> {}]
    BY <1>11 DEF Restart, exch
  <2>2. Functions'
    BY <2>1 DEF Functions
  <2>3. "idle" \in Steps /\ 0 \in Nat /\ 0 + 1 <= n /\ ~(0 > 0)
    BY <1>a DEF Steps
  <2>4. SyncOK(n, "idle", 0, Nothing, FALSE, {})
    BY <1>d, <2>3 DEF SyncOK
  <2>5. \A s \in Syncs : Now(s)'
    BY <2>1, <2>4 DEF Now
  <2>6. QED
    BY <1>0, <2>1, <2>2, <2>5, LocalPartsNext DEF LocalSplit
<1>12. ASSUME NEW c \in Coins, NEW manual \in BOOLEAN, UpdateAssetPrice(c, manual)
       PROVE  LocalOK' /\ PassInv'
  <2>1. /\ ex' = ex /\ pc' = pc /\ asked' = asked /\ got' = got /\ passed' = passed /\ Touch({c})
    BY <1>12 DEF UpdateAssetPrice, exch
  <2>2. QED
    BY <1>0, <1>g, <2>1, NoneMoves
<1>13. ASSUME ex' = ex, local' = local PROVE LocalOK' /\ PassInv'
  <2>1. pc' = pc /\ asked' = asked /\ got' = got /\ passed' = passed /\ touched' = touched
    BY <1>13 DEF local
  <2>2. QED
    BY <1>0, <1>13, <1>c, <2>1, NoneMoves
<1>14. ASSUME NEW c \in Coins,
              \/ \E cat \in {"spot", "linear"} : Buy(c, cat)
              \/ Sell(c)
              \/ \E a, b \in Accounts(ex) : Move(c, a, b)
       PROVE  LocalOK' /\ PassInv'
  BY <1>13, <1>14 DEF Buy, Sell, Move
<1>15. CASE CoolOff \/ UNCHANGED vars
  BY <1>13, <1>15 DEF CoolOff, vars, exch
<1>16. QED
  BY <1>1, <1>3, <1>4, <1>6, <1>7, <1>8, <1>9, <1>10, <1>11, <1>12, <1>14, <1>15
     DEF Next, Work, User

LEMMA StepTouched ==
    ASSUME IInv, [Next]_vars
    PROVE  TouchedOK'
<1>0. ExchOK /\ LocalOK /\ PassInv /\ TableOK /\ TouchedOK
  BY TypeParts DEF IInv
<1>a. \A s \in Syncs : touched[s] # {} => passed[s] /\ \A c \in touched[s] : row[c].in
  BY <1>0, Zenon DEF TouchedOK
<1>b. DOMAIN pc = Syncs /\ DOMAIN passed = Syncs /\ touched \in [Syncs -> SUBSET Coins]
  BY <1>0 DEF LocalOK
\* Rows stay, and each sync has touched no more than before, or starts anew.
<1>1. ASSUME \A s \in Syncs : touched'[s] = {} \/ (touched'[s] = touched[s] /\ (passed[s] => passed'[s])),
             \A c \in Coins : row[c].in => row'[c].in
      PROVE  TouchedOK'
  BY <1>a, <1>b, <1>1 DEF TouchedOK
<1>2. ASSUME NEW C \in SUBSET Coins, Touch(C), passed' = passed,
             \A c \in C : row'[c].in, \A c \in Coins : row[c].in => row'[c].in
      PROVE  TouchedOK'
  <2>1. \A s \in Syncs : touched'[s] = IF passed[s] THEN touched[s] \cup C ELSE touched[s]
    BY <1>2 DEF Touch
  <2>2. ASSUME NEW s \in Syncs, touched'[s] # {} PROVE passed[s] /\ \A c \in touched'[s] : row'[c].in
    BY <1>a, <1>b, <1>2, <2>1, <2>2
  <2>3. QED
    BY <1>2, <2>2 DEF TouchedOK
<1>3. ASSUME NEW s \in Syncs, NEW f, GetBalances(s, f) PROVE TouchedOK'
  <2>1. \A r \in Syncs \ {s} : passed'[r] = passed[r] /\ touched'[r] = touched[r]
    BY <1>0, <1>3, BalancesAsked
  <2>2. \/ passed'[s] = passed[s] /\ touched'[s] = touched[s]
        \/ passed'[s] = TRUE /\ touched'[s] = touched[s]
        \/ touched'[s] = {}
    BY <1>0, <1>3, BalancesAsked
  <2>3. row' = row
    BY <1>3 DEF GetBalances, table
  <2>4. QED
    BY <1>1, <2>1, <2>2, <2>3
<1>4. ASSUME touched' = touched, passed' = passed, row' = row PROVE TouchedOK'
  BY <1>1, <1>4
<1>5. ASSUME NEW s \in Syncs, SyncBalances(s) \/ SyncUser(s) \/ BalancesDone(s) \/ SkipTrades(s)
      PROVE  TouchedOK'
  BY <1>4, <1>5 DEF SyncBalances, SyncUser, Start, BalancesDone, SkipTrades, table
<1>6. ASSUME NEW s \in Syncs, NEW f, NEW hit, GetRecentTrades(s, f, hit) PROVE TouchedOK'
  BY <1>4, <1>6 DEF GetRecentTrades
<1>7. ASSUME NEW s \in Syncs, NEW c \in Coins, NEW f, UpsertBalance(s, c, f) PROVE TouchedOK'
  <2>1. passed' = passed
    BY <1>7 DEF UpsertBalance
  <2>2. CASE row' = row /\ touched' = touched
    BY <1>4, <2>1, <2>2
  <2>3. CASE Touch({c}) /\ row'[c].in /\ \A d \in Coins \ {c} : row'[d] = row[d]
    <3>1. \A d \in Coins : row[d].in => row'[d].in
      BY <2>3
    <3>2. QED
      BY <1>2, <2>1, <2>3, <3>1
  <2>4. QED
    BY <1>0, <1>7, <2>2, <2>3, BalanceWritten
<1>8. ASSUME NEW s \in Syncs, NEW f, DeleteStale(s, f) PROVE TouchedOK'
  <2>1. PICK stale \in SUBSET Coins :
            /\ \A d \in Coins : row'[d] = IF d \in stale THEN NoRow ELSE row[d]
            /\ touched' = [r \in Syncs |-> IF r = s /\ s \in LiveSyncs THEN {} ELSE touched[r] \ stale]
    BY <1>8, RowsDeleted
  <2>2. passed' = passed \/ (s \notin FullSyncs /\ passed' = [passed EXCEPT ![s] = FALSE])
    BY <1>8 DEF DeleteStale, Finish
  <2>3. ASSUME NEW r \in Syncs, touched'[r] # {}
        PROVE  passed'[r] /\ \A c \in touched'[r] : row'[c].in
    <3>1. touched'[r] = touched[r] \ stale /\ ~(r = s /\ s \in LiveSyncs)
      BY <2>1, <2>3
    <3>2. passed'[r] = passed[r]
      BY <1>b, <2>2, <3>1 DEF Syncs
    <3>3. \A c \in touched'[r] : c \in Coins /\ c \in touched[r] /\ row'[c] = row[c]
      BY <1>b, <2>1, <3>1
    <3>4. passed[r] /\ \A c \in touched[r] : row[c].in
      BY <1>a, <2>3, <3>1
    <3>5. QED
      BY <3>2, <3>3, <3>4
  <2>4. QED
    BY <2>3 DEF TouchedOK
<1>9. ASSUME NEW s \in Syncs, NEW f, UpdateAverages(s, f) PROVE TouchedOK'
  <2>1. /\ \A d \in Coins : row'[d] = row[d] \/ row'[d].in
        /\ touched' = [r \in Syncs |->
                CASE r = s -> {}
                  [] r # s /\ passed[r] -> touched[r] \cup {d \in Coins : row'[d] # row[d]}
                  [] OTHER -> touched[r]]
    BY <1>0, <1>9, RowsAveraged
  <2>2. passed' = [passed EXCEPT ![s] = FALSE]
    BY <1>9 DEF UpdateAverages, Finish
  <2>3. ASSUME NEW r \in Syncs, touched'[r] # {}
        PROVE  passed'[r] /\ \A c \in touched'[r] : row'[c].in
    <3>1. r # s
      BY <2>1, <2>3
    <3>2. passed'[r] = passed[r]
      BY <1>b, <2>2, <3>1
    <3>3. \/ passed[r] /\ touched'[r] = touched[r] \cup {d \in Coins : row'[d] # row[d]}
          \/ touched'[r] = touched[r]
      BY <2>1, <3>1
    <3>4. touched[r] # {} => passed[r] /\ \A c \in touched[r] : row[c].in
      BY <1>a
    <3>5. \A c \in touched[r] : c \in Coins
      BY <1>b
    <3>6. QED
      BY <2>1, <2>3, <3>2, <3>3, <3>4, <3>5
  <2>4. QED
    BY <2>3 DEF TouchedOK
<1>10. CASE NextSecond
  <2>1. passed' = [s \in Syncs |-> pc[s] # "idle"] /\ touched' = touched /\ row' = row
    BY <1>10 DEF NextSecond, table
  <2>2. \A s \in Syncs : passed[s] => pc[s] # "idle"
    BY <1>0, Zenon DEF PassInv
  <2>3. QED
    BY <1>1, <2>1, <2>2
<1>11. CASE Restart
  <2>1. touched' = [s \in Syncs |-> {}] /\ row' = row
    BY <1>11 DEF Restart, table
  <2>2. QED
    BY <1>1, <2>1
<1>12. ASSUME NEW c \in Coins, NEW manual \in BOOLEAN, UpdateAssetPrice(c, manual) PROVE TouchedOK'
  <2>1. /\ row[c].in /\ row'[c].in = row[c].in /\ \A d \in Coins \ {c} : row'[d] = row[d]
    BY <1>0, <1>12, PriceSet
  <2>2. Touch({c}) /\ passed' = passed
    BY <1>12 DEF UpdateAssetPrice
  <2>3. \A d \in Coins : row[d].in => row'[d].in
    BY <2>1
  <2>4. QED
    BY <1>2, <2>1, <2>2, <2>3
<1>13. ASSUME NEW c \in Coins,
              \/ \E cat \in {"spot", "linear"} : Buy(c, cat)
              \/ Sell(c)
              \/ \E a, b \in Accounts(ex) : Move(c, a, b)
       PROVE  TouchedOK'
  BY <1>4, <1>13 DEF Buy, Sell, Move, local, table
<1>14. CASE CoolOff \/ UNCHANGED vars
  BY <1>4, <1>14 DEF CoolOff, vars, local, table
<1>15. QED
  BY <1>3, <1>5, <1>6, <1>7, <1>8, <1>9, <1>10, <1>11, <1>12, <1>13, <1>14 DEF Next, Work, User

LEMMA StepInv == IInv /\ [Next]_vars => IInv'
<1>1. ASSUME IInv, [Next]_vars
      PROVE  /\ ExchOK' /\ CoinsInv' /\ TableOK' /\ LocalOK' /\ PassInv' /\ TouchedOK' /\ CountOK'
  BY <1>1, StepCoins, StepTable, StepCount, StepLocal, StepTouched
<1>2. (TypeOK <=> ExchOK /\ TableOK /\ LocalOK /\ TouchedOK /\ CountOK)'
  BY TypeParts, PTL
<1>3. QED
  BY <1>1, <1>2 DEF IInv

(***************************************************************************)
(* The rows of user_portfolios are well formed whatever syncs and failures *)
(* there are: a row has coins, one whose price the user has set has no     *)
(* average, averages are over fills of the exchange, and what a sync takes *)
(* for fresh is there.                                                     *)
(***************************************************************************)
THEOREM InductiveInv == Spec => []IInv
BY InitInv, StepInv, PTL DEF Spec

THEOREM TypeCorrect == Spec => []TypeOK
<1>1. IInv => TypeOK
  BY DEF IInv
<1>2. QED
  BY InductiveInv, <1>1, PTL

-----------------------------------------------------------------------------
(***************************************************************************)
(* Prices the user has set.  Only a cleanup could take the price of a coin *)
(* that is kept.  It does not, because a sync on its way to the cleanup    *)
(* has written the coin's row since it started, or is still to write it:   *)
(* it has not asked yet, or will find the coin in the second account, or   *)
(* has found it.  This is so while no answer has been short of coins.      *)
(***************************************************************************)
Cleaning == {"balances", "upsert", "trades", "delete"}

Safe(s, c) ==
    \/ c \in touched[s]
    \/ pc[s] = "balances" /\ asked[s] = 0
    \/ pc[s] = "balances" /\ asked[s] > 0 /\ got[s][c] + wallet[AccountsOf(ex)[2]][c] > 0
    \/ pc[s] = "upsert" /\ got[s][c] > 0

KeptInv == ~gaps => \A s \in Syncs, c \in kept : pc[s] \in Cleaning => Safe(s, c)

LEMMA InitKept == Init => KeptInv
BY DEF Init, KeptInv

\* A step that leaves a sync and the second account alone.
LEMMA SafeStays ==
    ASSUME NEW s, NEW c, Safe(s, c),
           pc'[s] = pc[s] /\ asked'[s] = asked[s] /\ got'[s] = got[s],
           c \in touched[s] => c \in touched'[s],
           asked[s] > 0 => wallet'[AccountsOf(ex)[2]][c] = wallet[AccountsOf(ex)[2]][c] /\ ex' = ex
    PROVE  Safe(s, c)'
<1>1. CASE c \in touched[s]
  BY <1>1 DEF Safe
<1>2. CASE pc[s] = "balances" /\ asked[s] = 0
  BY <1>2 DEF Safe
<1>3. CASE pc[s] = "balances" /\ asked[s] > 0 /\ got[s][c] + wallet[AccountsOf(ex)[2]][c] > 0
  BY <1>3 DEF Safe
<1>4. CASE pc[s] = "upsert" /\ got[s][c] > 0
  BY <1>4 DEF Safe
<1>5. QED
  BY <1>1, <1>2, <1>3, <1>4 DEF Safe

\* A sync that has asked all accounts for a coin that is kept has found it.
LEMMA KeptFound ==
    ASSUME IInv, NEW s \in Syncs, NEW c \in kept, Safe(s, c),
           NEW f, GetBalances(s, f), ~gaps', pc'[s] \in Cleaning
    PROVE  Safe(s, c)'
<1>0. ExchOK /\ LocalOK /\ PassInv /\ ex \in Exchanges /\ wallet \in Wallets(ex) /\ c \in Coins
  <2>1. ExchOK /\ LocalOK /\ PassInv /\ TableOK
    BY TypeParts DEF IInv
  <2>2. QED
    BY <2>1, Exchange DEF TableOK
<1> DEFINE n     == Len(AccountsOf(ex))
           first == AccountsOf(ex)[1]
           last  == AccountsOf(ex)[2]
           found == wallet[AccountsOf(ex)[asked[s] + 1]]
<1>1. ex' = ex /\ wallet' = wallet
  BY DEF GetBalances, exch
<1>2. /\ pc[s] = "balances" /\ touched'[s] = touched[s]
      /\ IF asked[s] + 1 = n THEN asked'[s] = 0 /\ pc'[s] = "upsert"
         ELSE asked'[s] = asked[s] + 1 /\ pc'[s] = "balances"
      /\ got'[s] = IF n = 2 THEN Plus(got[s], found) ELSE found
  BY <1>0, BalancesAsked DEF Cleaning
<1>3. /\ n \in {1, 2} /\ asked[s] \in Nat /\ asked[s] + 1 <= n
      /\ asked[s] = 0 => got[s] = Nothing
  <2>1. n \in {1, 2} /\ n \in Nat
    BY <1>0, AccountFacts
  <2>2. asked[s] \in Nat
    BY <1>0, <2>1 DEF LocalOK
  <2>3. asked[s] + 1 <= n /\ (asked[s] = 0 => got[s] = Nothing)
    BY <1>0, <1>2 DEF PassInv
  <2>4. QED
    BY <2>1, <2>2, <2>3
<1>4. /\ wallet[first][c] \in Nat /\ (n = 2 => wallet[last][c] \in Nat)
      /\ wallet[first][c] + (IF n = 2 THEN wallet[last][c] ELSE 0) > 0
  <2>1. Holding(c) > 0
    BY <1>0 DEF IInv, CoinsInv
  <2>2. wallet[first][c] \in Nat /\ (n = 2 => wallet[last][c] \in Nat)
    BY <1>0, AccountFacts, HeldFacts
  <2>3. QED
    BY <2>1, <2>2 DEF Holding
<1>5. CASE c \in touched[s]
  BY <1>2, <1>5 DEF Safe
<1>6. CASE n = 1
  <2>1. asked[s] + 1 = n /\ asked[s] + 1 = 1
    BY <1>3, <1>6
  <2>2. pc'[s] = "upsert" /\ got'[s] = found
    BY <1>2, <1>6, <2>1
  <2>3. found[c] > 0
    BY <1>4, <1>6, <2>1
  <2>4. QED
    BY <2>2, <2>3 DEF Safe
<1>7. CASE n = 2 /\ asked[s] = 0
  <2>1. asked'[s] = 1 /\ pc'[s] = "balances" /\ got'[s] = Plus(Nothing, wallet[first])
    BY <1>2, <1>3, <1>7
  <2>2. Plus(Nothing, wallet[first])[c] = 0 + wallet[first][c]
    BY <1>0, NothingType DEF Plus
  <2>3. got'[s][c] + wallet[last][c] > 0
    BY <1>4, <1>7, <2>1, <2>2
  <2>4. QED
    BY <1>1, <2>1, <2>3 DEF Safe
<1>8. CASE n = 2 /\ asked[s] # 0 /\ c \notin touched[s]
  <2>1. asked[s] + 1 = n /\ asked[s] + 1 = 2 /\ asked[s] > 0
    BY <1>3, <1>8
  <2>2. pc'[s] = "upsert" /\ got'[s] = Plus(got[s], wallet[last])
    BY <1>2, <1>8, <2>1
  <2>3. got[s][c] + wallet[last][c] > 0
    BY <1>2, <1>8, <2>1 DEF Safe
  <2>4. got'[s][c] > 0
    BY <1>0, <2>2, <2>3 DEF Plus
  <2>5. QED
    BY <2>2, <2>4 DEF Safe
<1>9. QED
  BY <1>3, <1>5, <1>6, <1>7, <1>8

LEMMA StepKept ==
    ASSUME IInv, KeptInv, [Next]_vars
    PROVE  KeptInv'
<1>0. /\ ExchOK /\ LocalOK /\ PassInv /\ ex \in Exchanges /\ wallet \in Wallets(ex)
      /\ kept \subseteq Coins
  <2>1. ExchOK /\ LocalOK /\ PassInv /\ TableOK
    BY TypeParts DEF IInv
  <2>2. QED
    BY <2>1, Exchange DEF TableOK
<1>a. /\ DOMAIN pc = Syncs /\ DOMAIN asked = Syncs /\ DOMAIN got = Syncs /\ DOMAIN passed = Syncs
      /\ touched \in [Syncs -> SUBSET Coins] /\ got \in [Syncs -> [Coins -> 0..2*MaxFills]]
  BY <1>0 DEF LocalOK
<1>b. ~gaps => \A s \in Syncs, c \in kept : pc[s] \in Cleaning => Safe(s, c)
  BY DEF KeptInv
\* Steps that leave the coins where they are, and a sync s alone.
<1>1. ASSUME ~gaps, NEW s \in Syncs, NEW c \in kept, pc[s] \in Cleaning,
             pc'[s] = pc[s], asked'[s] = asked[s], got'[s] = got[s],
             c \in touched[s] => c \in touched'[s], wallet' = wallet /\ ex' = ex
      PROVE  Safe(s, c)'
  <2>1. Safe(s, c)
    BY <1>b, <1>1
  <2>2. wallet'[AccountsOf(ex)[2]][c] = wallet[AccountsOf(ex)[2]][c]
    BY <1>1
  <2>3. QED
    BY <1>1, <2>1, <2>2, SafeStays
<1>2. ASSUME gaps' = gaps, kept' \subseteq kept, exch' = exch, local' = local PROVE KeptInv'
  <2>1. /\ pc' = pc /\ asked' = asked /\ got' = got /\ touched' = touched
        /\ wallet' = wallet /\ ex' = ex
    BY <1>2 DEF local, exch
  <2>2. ASSUME ~gaps', NEW s \in Syncs, NEW c \in kept', pc'[s] \in Cleaning PROVE Safe(s, c)'
    BY <1>1, <1>2, <2>1, <2>2
  <2>3. QED
    BY <2>2 DEF KeptInv
\* Steps of one sync that has, afterwards, c among what it touched, or is done.
<1>3. ASSUME NEW s \in Syncs, gaps' = gaps, kept' \subseteq kept, ex' = ex, wallet' = wallet,
             \A r \in Syncs \ {s} : /\ pc'[r] = pc[r] /\ asked'[r] = asked[r] /\ got'[r] = got[r]
                                     /\ \A c \in kept' : c \in touched[r] => c \in touched'[r],
             ~gaps => \A c \in kept' : pc'[s] \in Cleaning => Safe(s, c)'
      PROVE  KeptInv'
  <2>1. ASSUME ~gaps', NEW r \in Syncs \ {s}, NEW c \in kept', pc'[r] \in Cleaning PROVE Safe(r, c)'
    BY <1>1, <1>3, <2>1
  <2>2. ASSUME ~gaps', NEW c \in kept', pc'[s] \in Cleaning PROVE Safe(s, c)'
    BY <1>3, <2>2
  <2>3. QED
    BY <2>1, <2>2 DEF KeptInv
<1>4. ASSUME NEW s \in Syncs, SyncBalances(s) \/ SyncUser(s) PROVE KeptInv'
  <2>1. /\ pc[s] = "idle" /\ pc' = [pc EXCEPT ![s] = "balances"] /\ gaps' = gaps /\ kept' = kept
        /\ ex' = ex /\ wallet' = wallet /\ asked' = asked /\ got' = got /\ touched' = touched
    BY <1>4 DEF SyncBalances, SyncUser, Start, Goto, exch, table
  <2>2. asked[s] = 0
    <3>1. asked[s] \in Nat /\ ~(asked[s] > 0)
      <4>1. Len(AccountsOf(ex)) \in Nat
        BY <1>0, AccountFacts
      <4>2. asked[s] \in Nat
        BY <1>0, <4>1 DEF LocalOK
      <4>3. asked[s] > 0 => pc[s] = "balances"
        BY <1>0 DEF PassInv
      <4>4. QED
        BY <2>1, <4>2, <4>3
    <3>2. QED
      BY <3>1
  <2>3. pc'[s] = "balances" /\ \A r \in Syncs \ {s} : pc'[r] = pc[r]
    BY <1>a, <2>1
  <2>4. \A c \in kept' : Safe(s, c)'
    BY <2>1, <2>2, <2>3 DEF Safe
  <2>5. QED
    BY <1>3, <2>1, <2>3, <2>4
<1>5. ASSUME NEW s \in Syncs, NEW f, GetBalances(s, f) PROVE KeptInv'
  <2>1. ex' = ex /\ wallet' = wallet /\ kept' = kept /\ (gaps => gaps') /\ pc[s] = "balances"
    BY <1>5 DEF GetBalances, exch, table
  <2>2. \A r \in Syncs \ {s} : /\ pc'[r] = pc[r] /\ asked'[r] = asked[r] /\ got'[r] = got[r]
                                /\ touched'[r] = touched[r]
    BY <1>0, <1>5, BalancesAsked
  <2>3. ASSUME ~gaps', NEW c \in kept', pc'[s] \in Cleaning PROVE Safe(s, c)'
    <3>1. Safe(s, c)
      BY <1>b, <2>1, <2>3 DEF Cleaning
    <3>2. QED
      BY <1>5, <2>1, <2>3, <3>1, KeptFound
  <2>4. ASSUME ~gaps', NEW r \in Syncs \ {s}, NEW c \in kept', pc'[r] \in Cleaning PROVE Safe(r, c)'
    BY <1>1, <2>1, <2>2, <2>4
  <2>5. QED
    BY <2>3, <2>4 DEF KeptInv
<1>6. ASSUME NEW s \in Syncs, NEW c \in Coins, NEW f, UpsertBalance(s, c, f) PROVE KeptInv'
  <2>1. /\ ex' = ex /\ wallet' = wallet /\ kept' = kept /\ pc[s] = "upsert"
        /\ pc' = pc /\ asked' = asked /\ passed' = passed /\ got' = [got EXCEPT ![s][c] = 0]
    BY <1>6 DEF UpsertBalance, exch
  <2>2. CASE gaps'
    BY <2>2 DEF KeptInv
  <2>3. CASE Touch({c}) /\ gaps' = gaps
    <3>1. \A r \in Syncs : touched'[r] = IF passed[r] THEN touched[r] \cup {c} ELSE touched[r]
      BY <2>3 DEF Touch
    <3>2. passed[s]
      BY <1>0, <2>1 DEF PassInv
    <3>3. /\ \A r \in Syncs \ {s} : got'[r] = got[r]
          /\ \A d \in Coins \ {c} : got'[s][d] = got[s][d]
      BY <1>a, <2>1
    <3>4. ASSUME ~gaps, NEW d \in kept', pc'[s] \in Cleaning PROVE Safe(s, d)'
      <4>1. CASE d = c
        BY <3>1, <3>2, <4>1 DEF Safe
      <4>2. CASE d # c
        <5>1. Safe(s, d) /\ d \in Coins
          BY <1>0, <1>b, <2>1, <3>4
        <5>2. d \in touched[s] \/ got[s][d] > 0
          BY <2>1, <5>1 DEF Safe
        <5>3. got'[s][d] = got[s][d] /\ (d \in touched[s] => d \in touched'[s])
          BY <3>1, <3>3, <4>2, <5>1
        <5>4. QED
          BY <2>1, <5>2, <5>3 DEF Safe
      <4>3. QED
        BY <4>1, <4>2
    <3>5. QED
      BY <1>3, <2>1, <2>3, <3>1, <3>3, <3>4
  <2>4. TableOK
    BY TypeParts DEF IInv
  <2>5. QED
    BY <1>6, <2>2, <2>3, <2>4, BalanceWritten
<1>7. ASSUME NEW s \in Syncs, BalancesDone(s) PROVE KeptInv'
  <2>1. /\ ex' = ex /\ wallet' = wallet /\ kept' = kept /\ gaps' = gaps /\ pc[s] = "upsert"
        /\ got[s] = Nothing /\ asked' = asked /\ got' = got /\ touched' = touched
        /\ \E step : pc' = [pc EXCEPT ![s] = step]
    BY <1>7 DEF BalancesDone, Goto, exch, table
  <2>2. \A r \in Syncs \ {s} : pc'[r] = pc[r]
    BY <1>a, <2>1
  <2>3. ASSUME ~gaps, NEW c \in kept', pc'[s] \in Cleaning PROVE Safe(s, c)'
    <3>1. Safe(s, c) /\ got[s][c] = 0
      BY <1>0, <1>b, <2>1, <2>3, NothingType DEF Cleaning
    <3>2. QED
      BY <2>1, <3>1 DEF Safe
  <2>4. QED
    BY <1>3, <2>1, <2>2, <2>3
<1>8. ASSUME NEW s \in Syncs, SkipTrades(s) \/ \E f, hit : GetRecentTrades(s, f, hit) PROVE KeptInv'
  <2>1. /\ ex' = ex /\ wallet' = wallet /\ kept' = kept /\ gaps' = gaps
        /\ asked' = asked /\ got' = got /\ touched' = touched
        /\ pc[s] \in {"trades", "tradesOnly"}
        /\ \E step : pc' = [pc EXCEPT ![s] = step] /\ (pc[s] = "trades" \/ step = "average")
    BY <1>8 DEF SkipTrades, GetRecentTrades, Goto, exch, table
  <2>2. \A r \in Syncs \ {s} : pc'[r] = pc[r]
    BY <1>a, <2>1
  <2>3. ASSUME ~gaps, NEW c \in kept', pc'[s] \in Cleaning PROVE Safe(s, c)'
    <3>1. pc[s] = "trades"
      BY <1>a, <2>1, <2>3 DEF Cleaning
    <3>2. Safe(s, c)
      BY <1>b, <2>1, <2>3, <3>1 DEF Cleaning
    <3>3. QED
      BY <2>1, <3>1, <3>2 DEF Safe
  <2>4. QED
    BY <1>3, <2>1, <2>2, <2>3
<1>9. ASSUME NEW s \in Syncs, NEW f, DeleteStale(s, f) PROVE KeptInv'
  <2>1. PICK stale \in SUBSET Coins :
            /\ kept' = kept \ stale
            /\ touched' = [r \in Syncs |-> IF r = s /\ s \in LiveSyncs THEN {} ELSE touched[r] \ stale]
    BY <1>9, RowsDeleted
  <2>2. /\ ex' = ex /\ wallet' = wallet /\ gaps' = gaps /\ asked' = asked
        /\ (got' = got \/ got' = [got EXCEPT ![s] = Nothing])
        /\ \E step \in {"average", "idle"} : pc' = [pc EXCEPT ![s] = step]
    BY <1>9 DEF DeleteStale, Finish, Goto, exch
  <2>3. pc'[s] \notin Cleaning /\ \A r \in Syncs \ {s} : pc'[r] = pc[r] /\ got'[r] = got[r]
    BY <1>a, <2>2 DEF Cleaning
  <2>4. \A r \in Syncs \ {s} : \A c \in kept' : c \in touched[r] => c \in touched'[r]
    BY <2>1
  <2>5. kept' \subseteq kept
    BY <2>1
  <2>6. QED
    BY <1>3, <2>2, <2>3, <2>4, <2>5
<1>10. ASSUME NEW s \in Syncs, NEW f, UpdateAverages(s, f) PROVE KeptInv'
  <2>1. /\ ex' = ex /\ wallet' = wallet /\ kept' = kept /\ gaps' = gaps /\ asked' = asked
        /\ got' = [got EXCEPT ![s] = Nothing] /\ pc' = [pc EXCEPT ![s] = "idle"]
    BY <1>10 DEF UpdateAverages, Finish, Goto, exch
  <2>2. pc'[s] \notin Cleaning /\ \A r \in Syncs \ {s} : pc'[r] = pc[r] /\ got'[r] = got[r]
    BY <1>a, <2>1 DEF Cleaning
  <2>3. \A r \in Syncs \ {s} : \A c \in kept' : c \in touched[r] => c \in touched'[r]
    <3>1. TableOK
      BY TypeParts DEF IInv
    <3>2. touched' = [r \in Syncs |->
                CASE r = s -> {}
                  [] r # s /\ passed[r] -> touched[r] \cup {d \in Coins : row'[d] # row[d]}
                  [] OTHER -> touched[r]]
      BY <1>10, <3>1, RowsAveraged
    <3>3. QED
      BY <3>2
  <2>4. QED
    BY <1>3, <2>1, <2>2, <2>3
<1>11. CASE NextSecond
  <2>1. /\ ex' = ex /\ wallet' = wallet /\ kept' = kept /\ gaps' = gaps
        /\ pc' = pc /\ asked' = asked /\ got' = got /\ touched' = touched
    BY <1>11 DEF NextSecond, exch, table
  <2>2. ASSUME ~gaps', NEW s \in Syncs, NEW c \in kept', pc'[s] \in Cleaning PROVE Safe(s, c)'
    BY <1>1, <2>1, <2>2
  <2>3. QED
    BY <2>2 DEF KeptInv
<1>12. CASE Restart
  <2>1. \A s \in Syncs : pc'[s] \notin Cleaning
    BY <1>12 DEF Restart, Cleaning
  <2>2. QED
    BY <2>1 DEF KeptInv
<1>13. ASSUME NEW c \in Coins, (\E cat \in {"spot", "linear"} : Buy(c, cat)) \/ Sell(c) PROVE KeptInv'
  <2>1. /\ ex' = ex /\ kept' \subseteq kept /\ gaps' = gaps
        /\ \/ wallet' = wallet
           \/ \E n : wallet' = [wallet EXCEPT ![AccountsOf(ex)[1]][c] = n]
    BY <1>13 DEF Buy, Sell, table
  <2>2. pc' = pc /\ asked' = asked /\ got' = got /\ touched' = touched
    BY <1>13 DEF Buy, Sell, local
  <2>3. Len(AccountsOf(ex)) = 2 => wallet'[AccountsOf(ex)[2]] = wallet[AccountsOf(ex)[2]]
    BY <1>0, <2>1, AccountFacts DEF Wallets
  <2>4. ASSUME NEW s \in Syncs, asked[s] > 0 PROVE Len(AccountsOf(ex)) = 2
    <3>1. asked[s] + 1 <= Len(AccountsOf(ex)) /\ Len(AccountsOf(ex)) \in {1, 2} /\ asked[s] \in Nat
      <4>1. Len(AccountsOf(ex)) \in {1, 2} /\ Len(AccountsOf(ex)) \in Nat
        BY <1>0, AccountFacts
      <4>2. asked[s] \in Nat
        BY <1>0, <4>1 DEF LocalOK
      <4>3. asked[s] + 1 <= Len(AccountsOf(ex))
        BY <1>0 DEF PassInv
      <4>4. QED
        BY <4>1, <4>2, <4>3
    <3>2. QED
      BY <2>4, <3>1
  <2>5. ASSUME ~gaps', NEW s \in Syncs, NEW d \in kept', pc'[s] \in Cleaning PROVE Safe(s, d)'
    <3>1. Safe(s, d)
      BY <1>b, <2>1, <2>2, <2>5
    <3>2. asked[s] > 0 => wallet'[AccountsOf(ex)[2]][d] = wallet[AccountsOf(ex)[2]][d] /\ ex' = ex
      BY <2>1, <2>3, <2>4
    <3>3. QED
      BY <2>2, <3>1, <3>2, SafeStays
  <2>6. QED
    BY <2>5 DEF KeptInv
<1>14. ASSUME NEW c, NEW a, NEW b, Move(c, a, b) PROVE KeptInv'
  <2>1. /\ ex' = ex /\ kept' = kept
        /\ pc' = pc /\ asked' = asked /\ got' = got /\ touched' = touched
        /\ ~gaps' => ~gaps /\ \A s \in Syncs : ~(pc[s] = "balances" /\ asked[s] > 0)
    BY <1>14 DEF Move, table, local
  <2>2. ASSUME ~gaps', NEW s \in Syncs, NEW d \in kept', pc'[s] \in Cleaning PROVE Safe(s, d)'
    <3>1. Safe(s, d) /\ ~(pc[s] = "balances" /\ asked[s] > 0)
      BY <1>b, <2>1, <2>2
    <3>2. asked[s] > 0 => pc[s] = "balances"
      BY <1>0 DEF PassInv
    <3>3. QED
      BY <2>1, <3>1, <3>2, SafeStays
  <2>3. QED
    BY <2>2 DEF KeptInv
<1>15. ASSUME NEW c \in Coins, NEW manual \in BOOLEAN, UpdateAssetPrice(c, manual) PROVE KeptInv'
  <2>1. /\ ex' = ex /\ wallet' = wallet /\ gaps' = gaps /\ pc' = pc /\ asked' = asked /\ got' = got
        /\ Touch({c}) /\ kept' \subseteq kept \cup {c}
    BY <1>15 DEF UpdateAssetPrice, exch
  <2>2. \A s \in Syncs : touched'[s] = IF passed[s] THEN touched[s] \cup {c} ELSE touched[s]
    BY <2>1 DEF Touch
  <2>3. ASSUME ~gaps', NEW s \in Syncs, NEW d \in kept', pc'[s] \in Cleaning PROVE Safe(s, d)'
    <3>1. CASE d \in kept
      BY <1>1, <2>1, <2>2, <2>3, <3>1
    <3>2. CASE d \notin kept /\ passed[s]
      BY <2>1, <2>2, <3>2 DEF Safe
    <3>3. CASE ~passed[s]
      <4>1. pc[s] = "balances" /\ ~(asked[s] > 0)
        BY <1>0, <2>1, <2>3, <3>3 DEF PassInv, Cleaning
      <4>2. asked[s] \in Nat
        <5>1. Len(AccountsOf(ex)) \in Nat
          BY <1>0, AccountFacts
        <5>2. QED
          BY <1>0, <5>1 DEF LocalOK
      <4>3. asked[s] = 0
        BY <4>1, <4>2
      <4>4. QED
        BY <2>1, <4>1, <4>3 DEF Safe
    <3>4. QED
      BY <3>1, <3>2, <3>3
  <2>4. QED
    BY <2>3 DEF KeptInv
<1>16. CASE CoolOff \/ UNCHANGED vars
  BY <1>2, <1>16 DEF CoolOff, vars, exch, table, local
<1>17. QED
  BY <1>4, <1>5, <1>6, <1>7, <1>8, <1>9, <1>10, <1>11, <1>12, <1>13, <1>14, <1>15, <1>16
     DEF Next, Work, User

(***************************************************************************)
(* A price the user has set stays as long as the user holds the coin,      *)
(* until the user changes it: for any coins, any number of overlapping     *)
(* syncs and any failures that leave no answer short of coins.             *)
(***************************************************************************)
LEMMA StepPrices ==
    ASSUME IInv, KeptInv, Next, NEW c \in kept, ~gaps',
           row'[c] # [row[c] EXCEPT !.qty = row'[c].qty]
    PROVE  \E m \in BOOLEAN : UpdateAssetPrice(c, m)
<1>0. TableOK /\ LocalOK /\ c \in Coins /\ row[c].manual /\ row[c] \in RowType(fills)
  <2>1. TableOK /\ LocalOK
    BY TypeParts DEF IInv
  <2>2. QED
    BY <2>1 DEF TableOK, RowOK
<1>a. row[c].in
  <2>1. row[c].in \/ row[c] = NoRow
    BY <1>0 DEF TableOK, RowOK
  <2>2. QED
    BY <1>0, <2>1, NoRowOK
<1>b. row'[c] # row[c]
  BY <1>0 DEF RowType
<1>1. ASSUME NEW s \in Syncs, NEW d \in Coins, NEW f, UpsertBalance(s, d, f) PROVE FALSE
  <2>1. d = c /\ row'[c] = [row[c] EXCEPT !.in = TRUE, !.qty = got[s][c]]
    BY <1>0, <1>b, <1>1, BalanceWritten
  <2>2. row[c].in = TRUE
    BY <1>0, <1>a DEF RowType
  <2>3. row'[c] = [row[c] EXCEPT !.qty = got[s][c]]
    BY <1>0, <2>1, <2>2 DEF RowType
  <2>4. QED
    BY <1>0, <2>3 DEF RowType
<1>2. ASSUME NEW s \in Syncs, NEW f, DeleteStale(s, f) PROVE FALSE
  <2>1. c \notin touched[s]
    BY <1>0, <1>b, <1>2, RowsDeleted
  <2>2. pc[s] = "delete" /\ ~gaps
    BY <1>2 DEF DeleteStale
  <2>3. Safe(s, c)
    BY <2>2 DEF KeptInv, Cleaning
  <2>4. QED
    BY <2>1, <2>2, <2>3 DEF Safe
<1>3. ASSUME NEW s \in Syncs, NEW f, UpdateAverages(s, f) PROVE FALSE
  BY <1>0, <1>b, <1>3, RowsAveraged
<1>4. ASSUME NEW d \in Coins, NEW m \in BOOLEAN, UpdateAssetPrice(d, m) PROVE d = c
  BY <1>0, <1>b, <1>4, PriceSet
<1>5. ASSUME NEW s \in Syncs,
             \/ SyncBalances(s) \/ SyncUser(s) \/ BalancesDone(s) \/ SkipTrades(s)
             \/ \E f : GetBalances(s, f) \/ \E hit : GetRecentTrades(s, f, hit)
      PROVE  FALSE
  BY <1>b, <1>5 DEF SyncBalances, SyncUser, Start, BalancesDone, SkipTrades, GetBalances,
                    GetRecentTrades, table
<1>6. ASSUME NEW d \in Coins,
             \/ \E cat \in {"spot", "linear"} : Buy(d, cat)
             \/ Sell(d)
             \/ \E a, b \in Accounts(ex) : Move(d, a, b)
      PROVE  FALSE
  BY <1>b, <1>6 DEF Buy, Sell, Move, table
<1>7. ASSUME NextSecond \/ CoolOff \/ Restart PROVE FALSE
  BY <1>b, <1>7 DEF NextSecond, CoolOff, Restart, table
<1>8. QED
  BY <1>1, <1>2, <1>3, <1>4, <1>5, <1>6, <1>7 DEF Next, Work, User

THEOREM PricesStay == Spec => ManualPricesStay
<1>1. IInv /\ KeptInv /\ [Next]_vars =>
        [\A c \in kept :
            ~gaps' /\ row[c].manual /\ row'[c] # [row[c] EXCEPT !.qty = row'[c].qty]
                => \E m \in BOOLEAN : UpdateAssetPrice(c, m)]_vars
  BY StepPrices
<1>2. IInv /\ KeptInv /\ [Next]_vars => KeptInv'
  BY StepKept
<1>3. QED
  BY InductiveInv, InitKept, <1>1, <1>2, PTL DEF Spec, ManualPricesStay
=============================================================================
