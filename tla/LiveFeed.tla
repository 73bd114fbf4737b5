------------------------------ MODULE LiveFeed ------------------------------
(***************************************************************************)
(* How a change on an exchange reaches the page of a user who has it open: *)
(* api-gateway tells market-data every 10 s who is connected, market-data  *)
(* syncs those users (sync-live) and all users (sync-deep), trading syncs  *)
(* a user who adds a credential, and market-data's notice that a sync is   *)
(* over makes the page fetch the tables again. The services talk over NATS *)
(* and may restart; a message to a service that is not there is lost.      *)
(*                                                                         *)
(* The exchange's state of a user is a version number. A sync fetches it   *)
(* and writes it in two steps; PositionSync and SpotSync have them in      *)
(* detail. The hub's connections are those of WsHub.                       *)
(***************************************************************************)
EXTENDS Integers, Sequences, FiniteSets

CONSTANTS
    Users,
    Trading,       \* users whose exchange state changes
    Roaming,       \* users who open and close the page
    Managing,      \* users who add and delete credentials
    FaultKinds,    \* "fetch", "lost", "gateway", "market", "trading"
    MaxFaults,     \* bound on failures
    MaxVersion,    \* bound on changes of a user's exchange state
    MaxQueue       \* bound on heartbeats under way

ASSUME UsersAssumption ==
    Trading \subseteq Users /\ Roaming \subseteq Users /\ Managing \subseteq Users
ASSUME BoundsAssumption ==
    /\ FaultKinds \subseteq {"fetch", "lost", "gateway", "market", "trading"}
    /\ MaxFaults \in Nat /\ MaxVersion \in Nat /\ MaxQueue \in Nat \ {0}

Jobs     == {"live", "deep", "hook"}
Versions == 0..MaxVersion

VARIABLES
    wallet,        \* version on the exchange
    cred,          \* users with an active credential
    rows,          \* version in the tables
    open,          \* users with the page open
    online,        \* users with an authenticated connection to the hub
    page,          \* version each page shows
    due,           \* pages whose queries are invalidated
    beats,         \* heartbeats under way, oldest first
    notices,       \* users of the portfolio.synced messages under way
    activeUserIDs, \* users of the last heartbeat, in market-data
    sync,          \* the sync of each job and user
    deep,          \* sync-deep: whether it runs, users it has not synced yet
    faults         \* failures so far

exchange == <<wallet, cred>>
browser  == <<open, online, page, due>>
bus      == <<beats, notices>>
market   == <<activeUserIDs, deep>>
vars     == <<exchange, rows, browser, bus, market, sync, faults>>

\* at: where it is; held: the version it has fetched.
Off == [at |-> "off", held |-> 0]

DeepOff == [runs |-> FALSE, left |-> {}]

Busy(j, u) == sync[j, u].at # "off"

TypeOK ==
    /\ wallet \in [Users -> Versions] /\ cred \subseteq Users
    /\ rows \in [Users -> Versions] /\ \A u \in Users : rows[u] <= wallet[u]
    /\ open \subseteq Users /\ online \subseteq open /\ due \subseteq open
    /\ page \in [Users -> Versions]
    /\ \A i \in DOMAIN beats : beats[i] \subseteq Users
    /\ Len(beats) <= MaxQueue
    /\ notices \subseteq Users
    /\ activeUserIDs \subseteq Users
    /\ sync \in [Jobs \X Users -> [at : {"off", "fetch", "write", "notify"}, held : Versions]]
    /\ \A p \in Jobs \X Users : sync[p].at = "off" => sync[p] = Off
    /\ deep \in [runs : BOOLEAN, left : SUBSET Users] /\ (~deep.runs => deep = DeepOff)
    /\ Cardinality({u \in Users : Busy("deep", u)}) <= 1
    /\ faults \in 0..MaxFaults

Init ==
    /\ wallet = [u \in Users |-> 0]
    /\ cred = Users \ Managing
    /\ rows = [u \in Users |-> 0]
    /\ open = Users \ Roaming /\ online = open
    /\ page = [u \in Users |-> 0]
    /\ due = {}
    /\ beats = <<>>
    /\ notices = {}
    /\ activeUserIDs = {}
    /\ sync = [p \in Jobs \X Users |-> Off]
    /\ deep = DeepOff
    /\ faults = 0

-----------------------------------------------------------------------------
(***************************************************************************)
(* Users, their exchange accounts and their pages.                         *)
(***************************************************************************)
Trade(u) ==
    /\ u \in Trading /\ wallet[u] < MaxVersion
    /\ wallet' = [wallet EXCEPT ![u] = @ + 1]
    /\ UNCHANGED <<cred, rows, browser, bus, market, sync, faults>>

\* A page fetches everything when it is opened.
Open(u) ==
    /\ u \notin open
    /\ open' = open \cup {u}
    /\ page' = [page EXCEPT ![u] = rows[u]]
    /\ UNCHANGED <<exchange, rows, online, due, bus, market, sync, faults>>

Close(u) ==
    /\ u \in open \cap Roaming
    /\ open' = open \ {u} /\ online' = online \ {u} /\ due' = due \ {u}
    /\ UNCHANGED <<exchange, rows, page, bus, market, sync, faults>>

\* A page that has its connection back fetches nothing.
Connect(u) ==
    /\ u \in open \ online
    /\ online' = online \cup {u}
    /\ UNCHANGED <<exchange, rows, open, page, due, bus, market, sync, faults>>

Disconnect(u) ==
    /\ u \in online \cap Roaming
    /\ online' = online \ {u}
    /\ UNCHANGED <<exchange, rows, open, page, due, bus, market, sync, faults>>

Refetch(u) ==
    /\ u \in due
    /\ due' = due \ {u}
    /\ page' = [page EXCEPT ![u] = rows[u]]
    /\ UNCHANGED <<exchange, rows, open, online, bus, market, sync, faults>>

-----------------------------------------------------------------------------
(***************************************************************************)
(* A sync of one user, by any of the three.                                *)
(***************************************************************************)
\* The syncs once those of users have begun in job j: without a credential
\* there is nothing to fetch.
Begun(j, users) ==
    [p \in Jobs \X Users |->
        IF p[1] = j /\ p[2] \in users
        THEN [Off EXCEPT !.at = IF p[2] \in cred THEN "fetch" ELSE "notify"]
        ELSE sync[p]]

\* A failed exchange call is logged, and the sync goes on without it.
Fetch(j, u, fault) ==
    /\ sync[j, u].at = "fetch"
    /\ fault \in {"none", "fetch"}
    /\ fault = "none" \/ (fault \in FaultKinds /\ faults < MaxFaults)
    /\ faults' = IF fault = "none" THEN faults ELSE faults + 1
    /\ sync' = [sync EXCEPT ![j, u].at = IF fault = "none" THEN "write" ELSE "notify",
                            ![j, u].held = IF fault = "none" THEN wallet[u] ELSE 0]
    /\ UNCHANGED <<exchange, rows, browser, bus, market>>

Write(j, u) ==
    /\ sync[j, u].at = "write"
    /\ rows' = [rows EXCEPT ![u] = sync[j, u].held]
    /\ sync' = [sync EXCEPT ![j, u].at = "notify", ![j, u].held = 0]
    /\ UNCHANGED <<exchange, browser, bus, market, faults>>

\* sync-deep has its notices sent in the end, the hook sends none.
End(j, u) ==
    /\ j # "live" /\ sync[j, u].at = "notify"
    /\ sync' = [sync EXCEPT ![j, u] = Off]
    /\ UNCHANGED <<exchange, rows, browser, bus, market, faults>>

\* A goroutine of sync-live publishes its notice, whatever has failed.
Notify(u) ==
    /\ sync["live", u].at = "notify"
    /\ notices' = notices \cup {u}
    /\ sync' = [sync EXCEPT !["live", u] = Off]
    /\ UNCHANGED <<exchange, rows, browser, beats, market, faults>>

-----------------------------------------------------------------------------
(***************************************************************************)
(* market-data.                                                            *)
(***************************************************************************)

\* Ticks that come while a job runs are dropped.
SyncLive ==
    /\ \A u \in Users : ~Busy("live", u)
    /\ activeUserIDs # {}
    /\ sync' = Begun("live", activeUserIDs)
    /\ UNCHANGED <<exchange, rows, browser, bus, market, faults>>

\* Faulty variant: sync-deep, too, is for users who are connected.
SyncDeepActive ==
    /\ ~deep.runs
    /\ deep' = [runs |-> TRUE, left |-> cred \cap activeUserIDs]
    /\ UNCHANGED <<exchange, rows, browser, bus, activeUserIDs, sync, faults>>

SyncDeep ==
    /\ ~deep.runs
    /\ deep' = [runs |-> TRUE, left |-> cred]
    /\ UNCHANGED <<exchange, rows, browser, bus, activeUserIDs, sync, faults>>

\* SyncAllUsers: one user after the other.
SyncNextUser(u) ==
    /\ u \in deep.left
    /\ \A v \in Users : ~Busy("deep", v)
    /\ sync' = Begun("deep", {u})
    /\ deep' = [deep EXCEPT !.left = @ \ {u}]
    /\ UNCHANGED <<exchange, rows, browser, bus, activeUserIDs, faults>>

\* All users that are active, synced or not, are told.
NotifyAll ==
    /\ deep.runs /\ deep.left = {} /\ \A u \in Users : ~Busy("deep", u)
    /\ notices' = notices \cup activeUserIDs
    /\ deep' = DeepOff
    /\ UNCHANGED <<exchange, rows, browser, beats, activeUserIDs, sync, faults>>

\* Faulty variant: users are added to those that are active.
HearBeatAdding ==
    /\ beats # <<>>
    /\ activeUserIDs' = activeUserIDs \cup Head(beats)
    /\ beats' = Tail(beats)
    /\ UNCHANGED <<exchange, rows, browser, notices, deep, sync, faults>>

HearBeat ==
    /\ beats # <<>>
    /\ activeUserIDs' = Head(beats)
    /\ beats' = Tail(beats)
    /\ UNCHANGED <<exchange, rows, browser, notices, deep, sync, faults>>

-----------------------------------------------------------------------------
(***************************************************************************)
(* api-gateway and trading.                                                *)
(***************************************************************************)

\* Heartbeats are sent when nobody is connected, too.
Heartbeat ==
    /\ Len(beats) < MaxQueue
    /\ beats' = Append(beats, online)
    /\ UNCHANGED <<exchange, rows, browser, notices, market, sync, faults>>

\* Faulty variant: the hub delivers to users it has no connection of.
SendToUserAnyway(u) ==
    /\ u \in notices
    /\ notices' = notices \ {u}
    /\ due' = due \cup {u}
    /\ UNCHANGED <<exchange, rows, open, online, page, beats, market, sync, faults>>

\* Faulty variant: the page keeps the queries it has.
SendToUserUnheard(u) ==
    /\ u \in notices
    /\ notices' = notices \ {u}
    /\ UNCHANGED <<exchange, rows, browser, beats, market, sync, faults>>

\* hub.SendToUser, and the page's answer to {type: "synced"}.
SendToUser(u) ==
    /\ u \in notices
    /\ notices' = notices \ {u}
    /\ due' = due \cup ({u} \cap online)
    /\ UNCHANGED <<exchange, rows, open, online, page, beats, market, sync, faults>>

\* The credential hook: a goroutine of SyncPositions in trading.
AddCredential(u) ==
    /\ u \in Managing \ cred /\ ~Busy("hook", u)
    /\ cred' = cred \cup {u}
    /\ sync' = [sync EXCEPT !["hook", u].at = "fetch"]
    /\ UNCHANGED <<wallet, rows, browser, bus, market, faults>>

\* The rows of the exchange stay.
DeleteCredential(u) ==
    /\ u \in Managing \cap cred
    /\ cred' = cred \ {u}
    /\ UNCHANGED <<wallet, rows, browser, bus, market, sync, faults>>

-----------------------------------------------------------------------------
(***************************************************************************)
(* Lost messages and restarts.                                             *)
(***************************************************************************)
Fault(kind) == kind \in FaultKinds /\ faults < MaxFaults /\ faults' = faults + 1

LoseMessage ==
    /\ Fault("lost")
    /\ \/ beats # <<>> /\ beats' = Tail(beats) /\ UNCHANGED notices
       \/ \E u \in notices : notices' = notices \ {u} /\ UNCHANGED beats
    /\ UNCHANGED <<exchange, rows, browser, market, sync>>

\* The syncs of a process end with it.
Without(jobs) == [p \in Jobs \X Users |-> IF p[1] \in jobs THEN Off ELSE sync[p]]

RestartMarketData ==
    /\ Fault("market")
    /\ activeUserIDs' = {} /\ deep' = DeepOff /\ beats' = <<>>
    /\ sync' = Without({"live", "deep"})
    /\ UNCHANGED <<exchange, rows, browser, notices>>

RestartGateway ==
    /\ Fault("gateway")
    /\ online' = {} /\ notices' = {}
    /\ UNCHANGED <<exchange, rows, open, page, due, beats, market, sync>>

RestartTrading ==
    /\ Fault("trading")
    /\ sync' = Without({"hook"})
    /\ UNCHANGED <<exchange, rows, browser, bus, market>>

-----------------------------------------------------------------------------
SyncStep(j, u) ==
    \/ \E f \in {"none", "fetch"} : Fetch(j, u, f)
    \/ Write(j, u)
    \/ j = "live" /\ Notify(u)
    \/ End(j, u)

Next ==
    \/ \E u \in Users :
        \/ Trade(u) \/ Open(u) \/ Close(u) \/ Connect(u) \/ Disconnect(u) \/ Refetch(u)
        \/ AddCredential(u) \/ DeleteCredential(u) \/ SyncNextUser(u)
        \/ SendToUser(u)
        \/ \E j \in Jobs : SyncStep(j, u)
    \/ SyncLive \/ SyncDeep \/ NotifyAll
    \/ Heartbeat \/ HearBeat
    \/ LoseMessage \/ RestartMarketData \/ RestartGateway \/ RestartTrading

Spec == Init /\ [][Next]_vars

\* Tickers, goroutines, the connections to NATS and the pages go on; whether a
\* user trades, connects or changes credentials is up to the user.
FairSpec ==
    /\ Spec
    /\ WF_vars(Heartbeat) /\ WF_vars(HearBeat)
    /\ WF_vars(SyncLive) /\ WF_vars(SyncDeep) /\ WF_vars(NotifyAll)
    /\ \A u \in Users : WF_vars(SendToUser(u)) /\ WF_vars(Refetch(u)) /\ WF_vars(SyncNextUser(u))
    /\ \A j \in Jobs, u \in Users : WF_vars(SyncStep(j, u))

-----------------------------------------------------------------------------
(***************************************************************************)
(* Properties.                                                             *)
(***************************************************************************)

\* The tables of a user with a credential end up with what the exchange has,
\* whether or not the user is connected.
RowsFollow ==
    \A u \in Users : <>[](u \in cred) => <>[](rows[u] = wallet[u])

\* The page of a user who stays connected ends up showing what the exchange
\* has, whatever has been lost or restarted before.
PageFollows ==
    \A u \in Users : <>[](u \in cred /\ u \in online) => <>[](page[u] = wallet[u])

\* Who has left for good is no longer synced every few seconds.
LeaversForgotten ==
    \A u \in Users : <>[](u \notin online) => <>[](~Busy("live", u))
=============================================================================
