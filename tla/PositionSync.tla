---------------------------- MODULE PositionSync ----------------------------
(***************************************************************************)
(* SyncService over the open positions and the position history of a user  *)
(* on one exchange, with one credential for it: SyncPositions (the sync-   *)
(* live job, POST /api/sync/positions), SyncUser (sync-deep, POST          *)
(* /api/sync/full) and SyncRecentHistory, any number of them at the same   *)
(* time, each call of an adapter and each statement a step of its own.     *)
(*                                                                         *)
(* A sync asks for the trades that were closed before its own start.       *)
(*                                                                         *)
(* A position is the n-th one opened under its key (symbol and side).      *)
(* updated_at has whole seconds, syncStart has not: instead of times, the  *)
(* module keeps for each sync whether the clock has passed into the next   *)
(* second since its start, and which rows were written after that, that is *)
(* with updated_at >= syncStart.                                           *)
(***************************************************************************)
EXTENDS FuturesAdapters

CONSTANTS
    Used,          \* exchanges the user may have
    Traded,        \* keys positions are opened under
    LiveSyncs,     \* goroutines of SyncPositions
    OtherSyncs,    \* goroutines of SyncUser and SyncRecentHistory
    Commented,     \* positions the user comments on
    Edited,        \* trades in the history whose comment the user may set
    Losing,        \* positions that are closed at a loss
    SameSecond,    \* whether positions may arrive in the second a sync starts in
    FaultKinds,    \* "refused", "error", "limit" of a request, "write", "crash"
    MaxFaults,     \* bound on failures
    MaxOpens,      \* bound on positions opened per key
    None           \* no trade

ASSUME SyncsAssumption == LiveSyncs \cap OtherSyncs = {}
ASSUME UseAssumption == Used \subseteq Exchanges /\ Traded \subseteq Keys /\ SameSecond \in BOOLEAN
ASSUME FaultsAssumption ==
    FaultKinds \subseteq {"refused", "error", "limit", "write", "crash"} /\ MaxFaults \in Nat
ASSUME OpensAssumption == MaxOpens \in Nat /\ None \notin Keys \X Nat

Syncs  == LiveSyncs \cup OtherSyncs
Opens  == 0..MaxOpens
Trades == Keys \X (1..MaxOpens)

VARIABLES
    ex,        \* the exchange
    count,     \* positions opened under each key so far, on the exchange
    open,      \* the one that is open there, 0 for none
    closings,  \* the others, in the order they were closed in
    row,       \* open_positions: which position, and the one its comment is about
    hist,      \* position_history: the position the comment is about, whether it has a margin
    cooling,   \* the exchange is in cooldownAt
    pc,        \* where each sync is
    until,     \* closings before its start
    todo,      \* trades, positions or comments it has still to write
    passed,    \* the clock has reached a full second since its start
    touched,   \* keys of rows written since then
    faults     \* failures so far

exch  == <<ex, count, open, closings>>
table == <<row, hist>>
local == <<pc, until, todo, passed, touched>>
vars  == <<exch, table, cooling, local, faults>>

\* The positions closed so far.
Closed == Members(closings)

NoRow   == [n |-> 0, com |-> 0]
NoTrade == [in |-> FALSE, com |-> None, mar |-> FALSE]

\* Trades are read before the positions (history), after them (later), or
\* without them (recent): by SyncRecentHistory, and by a SyncUser that has not
\* got the positions and will clean nothing up.
Steps == {"idle", "history", "recent", "later", "insert", "recentInsert", "laterInsert",
          "positions", "upsert", "comments", "transfer", "margin", "delete"}

TypeOK ==
    /\ ex \in Used
    /\ count \in [Keys -> Opens] /\ open \in [Keys -> Opens]
    /\ \A k \in Keys : open[k] \in {0, count[k]}
    /\ Closed = {t \in Trades : t[2] <= count[t[1]] /\ t[2] # open[t[1]]}
    /\ Len(closings) = Cardinality(Closed)
    /\ row \in [Keys -> [n : Opens, com : Opens]]
    /\ \A k \in Keys : row[k].com <= count[k] /\ row[k].n <= count[k]
    /\ \A k \in Keys : row[k].n = 0 => row[k] = NoRow
    /\ hist \in [Trades -> [in : BOOLEAN, com : Trades \cup {None}, mar : BOOLEAN]]
    /\ \A t \in Trades : IF hist[t].in THEN t \in Closed ELSE hist[t] = NoTrade
    /\ cooling \in BOOLEAN
    /\ pc \in [Syncs -> Steps]
    /\ until \in [Syncs -> 0..Len(closings)]
    /\ todo \in [Syncs -> SUBSET Trades]
    /\ passed \in [Syncs -> BOOLEAN]
    /\ touched \in [Syncs -> SUBSET Keys]
    /\ \A s \in Syncs : touched[s] # {} => passed[s] /\ \A k \in touched[s] : row[k].n # 0
    /\ faults \in 0..MaxFaults

Init ==
    /\ ex \in Used
    /\ count = [k \in Keys |-> 0]
    /\ open = [k \in Keys |-> 0]
    /\ closings = <<>>
    /\ row = [k \in Keys |-> NoRow]
    /\ hist = [t \in Trades |-> NoTrade]
    /\ cooling = FALSE
    /\ pc = [s \in Syncs |-> "idle"]
    /\ until = [s \in Syncs |-> 0]
    /\ todo = [s \in Syncs |-> {}]
    /\ passed = [s \in Syncs |-> FALSE]
    /\ touched = [s \in Syncs |-> {}]
    /\ faults = 0

-----------------------------------------------------------------------------
(***************************************************************************)
(* The exchange, the clocks, the user's comments.                          *)
(***************************************************************************)

OpenPosition(k) ==
    /\ k \in Traded /\ open[k] = 0 /\ count[k] < MaxOpens
    /\ count' = [count EXCEPT ![k] = @ + 1]
    /\ open' = [open EXCEPT ![k] = count[k] + 1]
    /\ UNCHANGED <<ex, closings, table, cooling, local, faults>>

ClosePosition(k) ==
    /\ open[k] # 0
    /\ open' = [open EXCEPT ![k] = 0]
    /\ closings' = Append(closings, <<k, open[k]>>)
    /\ UNCHANGED <<ex, count, table, cooling, local, faults>>

Open == {t \in Trades : t[2] = open[t[1]]}

Nth(t)    == CHOOSE i \in DOMAIN closings : closings[i] = t
Under(k)  == {t \in Trades : hist[t].in /\ RecordedUnder(ex, t, Losing) = k}
Last(set) == CHOOSE t \in set : \A u \in set : Nth(u) <= Nth(t)

NextSecond ==
    /\ \E s \in Syncs : pc[s] # "idle" /\ ~passed[s]
    /\ passed' = [s \in Syncs |-> pc[s] # "idle"]
    /\ UNCHANGED <<exch, table, cooling, pc, until, todo, touched, faults>>

\* Faulty variant: an exchange that has once answered 429 stays on cooldown.
CoolOffNever ==
    /\ FALSE
    /\ UNCHANGED vars

\* The five minutes after a 429 are over.
CoolOff ==
    /\ cooling
    /\ cooling' = FALSE
    /\ UNCHANGED <<exch, table, local, faults>>

\* Faulty variant: updated_at may be rounded up, a row is fresh for every sync.
TouchAll(k) == touched' = [s \in Syncs |-> touched[s] \cup {k}]

\* The syncs a row written now is fresh for.
Touch(k) == touched' = [s \in Syncs |-> IF passed[s] THEN touched[s] \cup {k} ELSE touched[s]]

\* A comment on an open position; the column updated_at is ON UPDATE
\* CURRENT_TIMESTAMP, so a comment that changes also refreshes the row.
UpdatePositionComment(k) ==
    /\ <<k, row[k].n>> \in Commented /\ row[k].com # row[k].n
    /\ row' = [row EXCEPT ![k].com = row[k].n]
    /\ Touch(k)
    /\ UNCHANGED <<exch, hist, cooling, pc, until, todo, passed, faults>>

UpdateHistoryComment(t) ==
    /\ t \in Edited /\ hist[t].in /\ hist[t].com # t
    /\ hist' = [hist EXCEPT ![t].com = t]
    /\ UNCHANGED <<exch, row, cooling, local, faults>>

-----------------------------------------------------------------------------
(***************************************************************************)
(* Steps of a sync.                                                        *)
(***************************************************************************)

\* A call succeeds (fault = "none") or fails in one of the ways considered.
Call(fault) ==
    /\ fault = "none" \/ (fault \in FaultKinds /\ faults < MaxFaults)
    /\ faults' = IF fault = "none" THEN faults ELSE faults + 1

Goto(s, step) == pc' = [pc EXCEPT ![s] = step]

\* The sync is over, and its variables with it.
Finish(s) ==
    /\ Goto(s, "idle")
    /\ until' = [until EXCEPT ![s] = 0]
    /\ todo' = [todo EXCEPT ![s] = {}]
    /\ passed' = [passed EXCEPT ![s] = FALSE]
    /\ touched' = [touched EXCEPT ![s] = {}]

\* On to the next step, or to the end.
Continue(s, step) ==
    IF step = "idle" THEN Finish(s)
    ELSE Goto(s, step) /\ UNCHANGED <<until, todo, passed, touched>>

\* One of the rows the sync goes through, in the order the exchange or the
\* database returned them.
Take(s, t) ==
    /\ t \in todo[s]
    /\ todo' = [todo EXCEPT ![s] = @ \ {t}]

Start(s, step) ==
    /\ pc[s] = "idle"
    /\ Goto(s, step)
    /\ until' = [until EXCEPT ![s] = Len(closings)]
    /\ UNCHANGED <<exch, table, cooling, todo, passed, touched, faults>>

\* Only SyncPositions respects the cooldown.
SyncPositions(s) == s \in LiveSyncs /\ ~cooling /\ Start(s, "history")

SyncUser(s) == s \in OtherSyncs /\ Start(s, "positions")

SyncRecentHistory(s) == s \in OtherSyncs /\ Start(s, "recent")

\* logSyncError: a 429 that reaches it puts the exchange on cooldown.
SyncError(answer) == cooling' = (cooling \/ answer.err = "limit")

\* The requests of an exchange call: those that fail, if any, fail alike.
Asked(fault, hit) ==
    /\ fault \in {"none", "refused", "error", "limit"} /\ Call(fault)
    /\ hit \subseteq Requests(ex) /\ (fault = "none" <=> hit = {})

\* Faulty variant: SyncUser cleans up without transferring the comments.
AfterHistoryBare(s) ==
    CASE pc[s] \in {"history", "insert"} -> "positions"
      [] pc[s] \in {"later", "laterInsert"} -> "margin"
      [] pc[s] \in {"recent", "recentInsert"} -> "idle"

\* After the trades SyncPositions gets the positions, SyncUser cleans up and
\* SyncRecentHistory is done.
AfterHistory(s) ==
    CASE pc[s] \in {"history", "insert"} -> "positions"
      [] pc[s] \in {"later", "laterInsert"} -> "comments"
      [] pc[s] \in {"recent", "recentInsert"} -> "idle"

Inserting == [history |-> "insert", recent |-> "recentInsert", later |-> "laterInsert"]

GetClosedTrades(s, fault, hit, pages) ==
    LET answer == GetClosedTradesOf(ex, closings, until[s], fault, hit, pages) IN
    /\ pc[s] \in DOMAIN Inserting
    /\ Asked(fault, hit)
    /\ SyncError(answer)
    /\ IF answer.err = "none"
       THEN /\ Goto(s, Inserting[pc[s]])
            /\ todo' = [todo EXCEPT ![s] = answer.list]
            /\ UNCHANGED <<until, passed, touched>>
       ELSE Continue(s, AfterHistory(s))
    /\ UNCHANGED <<exch, table>>

HistoryDone(s) ==
    /\ pc[s] \in {"insert", "recentInsert", "laterInsert"} /\ todo[s] = {}
    /\ Continue(s, AfterHistory(s))
    /\ UNCHANGED <<exch, table, cooling, faults>>

\* insertHistory takes a leverage the trade lacks from an open position of the
\* symbol, of either side; the margin needs the size too.
Margined(t) ==
    TradeSized(ex) /\ (TradeLevered(ex) \/
        (RowLevered(ex) /\ \E k \in Keys : k[1] = Symbol(t) /\ row[k].n # 0))

\* INSERT ... ON DUPLICATE KEY UPDATE: the comment stays, and so does the
\* margin when there is no new one.
InsertHistory(s, t, fault) ==
    /\ pc[s] \in {"insert", "recentInsert", "laterInsert"}
    /\ Take(s, t)
    /\ fault \in {"none", "write"} /\ Call(fault)
    /\ hist' = IF fault # "none" THEN hist
               ELSE [hist EXCEPT ![t].in = TRUE, ![t].mar = @ \/ Margined(t)]
    /\ UNCHANGED <<exch, row, cooling, pc, until, passed, touched>>

\* Faulty variant: an error is taken for an empty list, and the cleanup runs.
GetOpenPositionsBlind(s, fault, hit) ==
    LET answer == GetOpenPositionsOf(ex, Open, fault, hit) IN
    /\ pc[s] = "positions"
    /\ SameSecond \/ passed[s]
    /\ Asked(fault, hit)
    /\ SyncError(answer)
    /\ Goto(s, "upsert")
    /\ todo' = [todo EXCEPT ![s] = answer.list]
    /\ UNCHANGED <<exch, table, until, passed, touched>>

GetOpenPositions(s, fault, hit) ==
    LET answer == GetOpenPositionsOf(ex, Open, fault, hit) IN
    /\ pc[s] = "positions"
    /\ SameSecond \/ passed[s]
    /\ Asked(fault, hit)
    /\ SyncError(answer)
    /\ IF answer.err = "none"
       THEN /\ Goto(s, "upsert")
            /\ todo' = [todo EXCEPT ![s] = answer.list]
            /\ UNCHANGED <<until, passed, touched>>
       ELSE Continue(s, IF s \in OtherSyncs THEN "recent" ELSE "idle")
    /\ UNCHANGED <<exch, table>>

\* Faulty variant: INSERT IGNORE, a row that exists is left as it is.
UpsertPositionIgnore(s, t, fault) ==
    /\ pc[s] = "upsert"
    /\ Take(s, t)
    /\ fault \in {"none", "write"} /\ Call(fault)
    /\ IF fault = "none" /\ row[t[1]].n = 0
       THEN row' = [row EXCEPT ![t[1]].n = t[2]] /\ Touch(t[1])
       ELSE UNCHANGED <<row, touched>>
    /\ UNCHANGED <<exch, hist, cooling, pc, until, passed>>

\* INSERT ... ON DUPLICATE KEY UPDATE: the row keeps its comment; an error is
\* logged and the loop goes on.
UpsertPosition(s, t, fault) ==
    /\ pc[s] = "upsert"
    /\ Take(s, t)
    /\ fault \in {"none", "write"} /\ Call(fault)
    /\ IF fault = "none" THEN row' = [row EXCEPT ![t[1]].n = t[2]] /\ Touch(t[1])
                         ELSE UNCHANGED <<row, touched>>
    /\ UNCHANGED <<exch, hist, cooling, pc, until, passed>>

PositionsDone(s) ==
    /\ pc[s] = "upsert" /\ todo[s] = {}
    /\ Goto(s, IF s \in OtherSyncs THEN "later" ELSE "comments")
    /\ UNCHANGED <<exch, table, cooling, until, todo, passed, touched, faults>>

\* Rows with updated_at < syncStart.
Stale(s) == {k \in Keys : row[k].n # 0 /\ k \notin touched[s]}

\* transferCommentsToHistory selects the stale rows with a comment ...
SelectStale(s, fault) ==
    /\ pc[s] = "comments"
    /\ fault \in {"none", "write"} /\ Call(fault)
    /\ Goto(s, "transfer")
    /\ todo' = [todo EXCEPT ![s] =
            IF fault # "none" THEN {} ELSE {<<k, row[k].com>> : k \in {k \in Stale(s) : row[k].com # 0}}]
    /\ UNCHANGED <<exch, table, cooling, until, passed, touched>>

\* Faulty variant: the latest trade of the key, with a comment or without.
BlankAny(k) == Under(k)

\* ... and copies each to the latest trade of the key that has none; an error
\* ends the transfer, not the sync.
Blank(k) == {t \in Under(k) : hist[t].com = None}

TransferComment(s, c, fault) ==
    LET blank == Blank(Key(c)) IN
    /\ pc[s] = "transfer" /\ c \in todo[s]
    /\ fault \in {"none", "write"} /\ Call(fault)
    /\ todo' = [todo EXCEPT ![s] = IF fault = "none" THEN @ \ {c} ELSE {}]
    /\ hist' = IF fault # "none" \/ blank = {} THEN hist
               ELSE [hist EXCEPT ![Last(blank)].com = c]
    /\ UNCHANGED <<exch, row, cooling, pc, until, passed, touched>>

CommentsDone(s) ==
    /\ pc[s] = "transfer" /\ todo[s] = {}
    /\ Goto(s, "margin")
    /\ UNCHANGED <<exch, table, cooling, until, todo, passed, touched, faults>>

\* transferMarginToHistory, one statement: to the latest trade of each stale
\* key, if it has no margin.
TransferMargin(s, fault) ==
    LET to == {Last(Under(k)) : k \in {k \in Stale(s) : Under(k) # {}}} IN
    /\ pc[s] = "margin"
    /\ fault \in {"none", "write"} /\ Call(fault)
    /\ hist' = IF fault # "none" \/ ~RowSized(ex) \/ ~RowLevered(ex) THEN hist
               ELSE [t \in Trades |-> IF t \in to THEN [hist[t] EXCEPT !.mar = TRUE] ELSE hist[t]]
    /\ Goto(s, "delete")
    /\ UNCHANGED <<exch, row, cooling, until, todo, passed, touched>>

\* deleteStalePositions, and the end of the sync.
DeleteStale(s, fault) ==
    /\ pc[s] = "delete"
    /\ fault \in {"none", "write"} /\ Call(fault)
    /\ row' = IF fault # "none" THEN row
              ELSE [k \in Keys |-> IF k \in Stale(s) THEN NoRow ELSE row[k]]
    /\ Goto(s, "idle")
    /\ until' = [until EXCEPT ![s] = 0]
    /\ passed' = [passed EXCEPT ![s] = FALSE]
    /\ touched' = [r \in Syncs |-> IF r = s THEN {} ELSE {k \in touched[r] : row'[k].n # 0}]
    /\ UNCHANGED <<exch, hist, cooling, todo>>

\* The process ends and comes back: no sync runs, no cooldown is remembered.
Restart ==
    /\ "crash" \in FaultKinds /\ Call("crash")
    /\ cooling' = FALSE
    /\ pc' = [s \in Syncs |-> "idle"]
    /\ until' = [s \in Syncs |-> 0]
    /\ todo' = [s \in Syncs |-> {}]
    /\ passed' = [s \in Syncs |-> FALSE]
    /\ touched' = [s \in Syncs |-> {}]
    /\ UNCHANGED <<exch, table>>

-----------------------------------------------------------------------------
Faults == {"none"} \cup FaultKinds

Work(s) ==
    \/ HistoryDone(s) \/ PositionsDone(s) \/ CommentsDone(s)
    \/ \E f \in Faults :
        \/ \E hit \in SUBSET Requests(ex) :
            \/ GetOpenPositions(s, f, hit)
            \/ \E pages \in 0..(MaxPages - 1) : GetClosedTrades(s, f, hit, pages)
        \/ SelectStale(s, f) \/ TransferMargin(s, f) \/ DeleteStale(s, f)
        \/ \E t \in todo[s] :
            InsertHistory(s, t, f) \/ UpsertPosition(s, t, f) \/ TransferComment(s, t, f)

User ==
    \/ \E k \in Keys : OpenPosition(k) \/ UpdatePositionComment(k)
    \/ \E k \in Keys : ClosePosition(k)
    \/ \E t \in Trades : UpdateHistoryComment(t)

Next ==
    \/ \E s \in Syncs : SyncPositions(s) \/ SyncUser(s) \/ SyncRecentHistory(s) \/ Work(s)
    \/ User \/ NextSecond \/ CoolOff \/ Restart

Spec == Init /\ [][Next]_vars

\* Clocks run, a started sync goes on, and the sync-live job starts syncs.
FairSpec ==
    /\ Spec
    /\ WF_vars(NextSecond) /\ WF_vars(CoolOff)
    /\ \A s \in Syncs : WF_vars(Work(s))
    /\ \A s \in LiveSyncs : WF_vars(SyncPositions(s))

-----------------------------------------------------------------------------
(***************************************************************************)
(* Properties.                                                             *)
(***************************************************************************)

\* The cleanup takes closed positions only: a row that goes away is not of the
\* position that is open on the exchange. On OKX whatever fails; the adapters
\* of the others hide failed requests, and it holds as long as none fails.
OpenRowsSurvive ==
    [][\A k \in Keys :
            /\ ex = "okx" \/ faults' = 0
            /\ row[k].n # 0 /\ row'[k].n = 0
            => open[k] # row[k].n]_vars

\* What the cleanup is meant to be, on every exchange and whatever fails.
CleanupOnlyAfterSuccess ==
    [][\A k \in Keys : row[k].n # 0 /\ row'[k].n = 0 => open[k] # row[k].n]_vars

\* Trades the next request of a sync still reaches.
Reach == IF ex = "bybit" THEN PageSize * MaxPages ELSE PageSize
Reached(t) == Len(closings) - Nth(t) < Reach

\* While nothing has failed, no sync loses a comment on a position that was
\* closed before the sync began, by no more closings than a request reaches,
\* and that is recorded under its own side: when the row is deleted, its trade,
\* or a later one of the key, has a comment.
KeepsComments ==
    [][\A s \in Syncs, k \in Keys :
        LET t == <<k, row[k].com>> IN
            /\ faults' = 0 /\ pc[s] = "delete" /\ pc'[s] = "idle"
            /\ row[k].com # 0 /\ row'[k].n = 0
            /\ t \in Members(Earlier(closings, until[s])) 
            /\ RecordedUnder(ex, t, Losing) = k /\ Reached(t)
            => \E u \in Under(k) : Nth(u) >= Nth(t) /\ hist[u].com # None]_vars

\* No sync changes a comment that is in the history.
HistoryCommentsStay ==
    [][\A t \in Trades : hist[t].com # None /\ hist'[t].com # hist[t].com => UpdateHistoryComment(t)]_vars

\* What stays closed is cleared away, what stays open is shown, and what has
\* been closed is in the history in the end, unless so many positions have been
\* closed since that no request reaches it.
RowsFollow ==
    \A k \in Keys : \A n \in Opens : <>[](open[k] = n) => <>[](row[k].n = n)

HistoryFollows == \A t \in Trades : t \in Closed ~> hist[t].in \/ (t \in Closed /\ ~Reached(t))
=============================================================================
