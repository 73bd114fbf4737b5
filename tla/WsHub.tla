------------------------------- MODULE WsHub --------------------------------
(***************************************************************************)
(* The WebSocket hub of api-gateway: every connection has a ReadPump and a *)
(* WritePump goroutine and a buffered channel between them and the         *)
(* goroutines that call sendToUser, which are the broadcast loop and the   *)
(* NATS callback.  The map of connections is under an RWMutex; userID is   *)
(* written by ReadPump without it.                                         *)
(***************************************************************************)
EXTENDS Integers, Sequences

CONSTANTS
    Clients,   \* connections, each made once
    Users,     \* user ids
    Senders,   \* goroutines that call sendToUser
    Buffer,    \* capacity of Client.send
    MaxAuths,  \* bound on auth messages of a connection
    NoUser     \* the user id 0

ASSUME BoundsAssumption == Buffer \in Nat \ {0} /\ MaxAuths \in Nat
ASSUME NoUserAssumption == NoUser \notin Users

VARIABLES
    clients,   \* Hub.clients
    userID,    \* Client.userID
    send,      \* contents of the channel Client.send
    closed,    \* the channel is closed
    conn,      \* "none", "open", "gone" (reads and writes fail), "closed"
    auths,     \* auth messages the connection has sent
    reader,    \* where ReadPump is
    writer,    \* where WritePump is
    sender,    \* where a sender is
    user,      \* the user it sends to
    todo,      \* connections it has still to go through
    target     \* the connection it has found to be the user's

hub     == <<clients, userID, send, closed>>
network == <<conn, auths>>
sending == <<sender, user, todo, target>>
vars    == <<hub, network, reader, writer, sending>>

Messages == [kind : {"success", "error", "data"}, user : Users \cup {NoUser}]

Success(u) == [kind |-> "success", user |-> u]
AuthError  == [kind |-> "error", user |-> NoUser]
Data(u)    == [kind |-> "data", user |-> u]

TypeOK ==
    /\ clients \subseteq Clients
    /\ userID \in [Clients -> Users \cup {NoUser}]
    /\ send \in [Clients -> Seq(Messages)]
    /\ \A c \in Clients : Len(send[c]) <= Buffer
    /\ closed \in [Clients -> BOOLEAN]
    /\ conn \in [Clients -> {"none", "open", "gone", "closed"}]
    /\ auths \in [Clients -> 0..MaxAuths]
    /\ reader \in [Clients -> {"none", "register", "read", "auth", "unregister", "close", "done"}]
    /\ writer \in [Clients -> {"none", "run", "done"}]
    /\ sender \in [Senders -> {"idle", "lock", "loop", "send"}]
    /\ user \in [Senders -> Users \cup {NoUser}]
    /\ todo \in [Senders -> SUBSET Clients]
    /\ target \in [Senders -> SUBSET Clients]

Init ==
    /\ clients = {}
    /\ userID = [c \in Clients |-> NoUser]
    /\ send = [c \in Clients |-> <<>>]
    /\ closed = [c \in Clients |-> FALSE]
    /\ conn = [c \in Clients |-> "none"]
    /\ auths = [c \in Clients |-> 0]
    /\ reader = [c \in Clients |-> "none"]
    /\ writer = [c \in Clients |-> "none"]
    /\ sender = [s \in Senders |-> "idle"]
    /\ user = [s \in Senders |-> NoUser]
    /\ todo = [s \in Senders |-> {}]
    /\ target = [s \in Senders |-> {}]

-----------------------------------------------------------------------------
(***************************************************************************)
(* sync.RWMutex: a goroutine in Lock waits for the readers inside to leave *)
(* and keeps new ones out.  What register and unregister do between Lock   *)
(* and Unlock is one step, as is a read between RLock and RUnlock.         *)
(***************************************************************************)

Reading == {s \in Senders : sender[s] \in {"loop", "send"}}
Locking == {c \in Clients : reader[c] \in {"register", "unregister"}}

CanLock  == Reading = {}
CanRLock == Locking = {}

\* Faulty variant: a queue without a bound.
OfferUnbounded(c, m) == send' = [send EXCEPT ![c] = Append(@, m)]

\* select with a default: a full buffer drops the message.
Offer(c, m) ==
    send' = IF Len(send[c]) < Buffer THEN [send EXCEPT ![c] = Append(@, m)] ELSE send

-----------------------------------------------------------------------------
(***************************************************************************)
(* Handler and ReadPump.                                                   *)
(***************************************************************************)

Connect(c) ==
    /\ conn[c] = "none"
    /\ conn' = [conn EXCEPT ![c] = "open"]
    /\ reader' = [reader EXCEPT ![c] = "register"]
    /\ UNCHANGED <<hub, auths, writer, sending>>

\* register, and then WritePump is started.
Register(c) ==
    /\ reader[c] = "register" /\ CanLock
    /\ clients' = clients \cup {c}
    /\ reader' = [reader EXCEPT ![c] = "read"]
    /\ writer' = [writer EXCEPT ![c] = "run"]
    /\ UNCHANGED <<userID, send, closed, network, sending>>

\* An auth message with a valid token of u: handleAuth sets userID ...
Authenticate(c, u) ==
    /\ reader[c] = "read" /\ conn[c] = "open" /\ auths[c] < MaxAuths
    /\ auths' = [auths EXCEPT ![c] = @ + 1]
    /\ userID' = [userID EXCEPT ![c] = u]
    /\ reader' = [reader EXCEPT ![c] = "auth"]
    /\ UNCHANGED <<clients, send, closed, conn, writer, sending>>

\* ... and then answers.
Confirm(c) ==
    /\ reader[c] = "auth"
    /\ Offer(c, Success(userID[c]))
    /\ reader' = [reader EXCEPT ![c] = "read"]
    /\ UNCHANGED <<clients, userID, closed, network, writer, sending>>

\* An auth message with a token that is not valid.
Reject(c) ==
    /\ reader[c] = "read" /\ conn[c] = "open" /\ auths[c] < MaxAuths
    /\ auths' = [auths EXCEPT ![c] = @ + 1]
    /\ Offer(c, AuthError)
    /\ UNCHANGED <<clients, userID, closed, conn, reader, writer, sending>>

\* The peer leaves or falls silent; pongs keep a silent peer connected.
Drop(c) ==
    /\ conn[c] = "open"
    /\ conn' = [conn EXCEPT ![c] = "gone"]
    /\ UNCHANGED <<hub, auths, reader, writer, sending>>

\* ReadMessage fails, at the latest when the read deadline passes.
ReadError(c) ==
    /\ reader[c] = "read" /\ conn[c] \in {"gone", "closed"}
    /\ reader' = [reader EXCEPT ![c] = "unregister"]
    /\ UNCHANGED <<hub, network, writer, sending>>

\* Faulty variant: the channel is closed without the lock.
UnregisterUnlocked(c) ==
    /\ reader[c] = "unregister"
    /\ clients' = clients \ {c}
    /\ closed' = [closed EXCEPT ![c] = TRUE]
    /\ reader' = [reader EXCEPT ![c] = "close"]
    /\ UNCHANGED <<userID, send, network, writer, sending>>

Unregister(c) ==
    /\ reader[c] = "unregister" /\ CanLock
    /\ clients' = clients \ {c}
    /\ closed' = [closed EXCEPT ![c] = TRUE]
    /\ reader' = [reader EXCEPT ![c] = "close"]
    /\ UNCHANGED <<userID, send, network, writer, sending>>

CloseConn(c) ==
    /\ reader[c] = "close"
    /\ conn' = [conn EXCEPT ![c] = "closed"]
    /\ reader' = [reader EXCEPT ![c] = "done"]
    /\ UNCHANGED <<hub, auths, writer, sending>>

-----------------------------------------------------------------------------
(***************************************************************************)
(* WritePump.                                                              *)
(***************************************************************************)

Write(c) ==
    /\ writer[c] = "run" /\ conn[c] = "open" /\ send[c] # <<>>
    /\ send' = [send EXCEPT ![c] = Tail(@)]
    /\ UNCHANGED <<clients, userID, closed, conn, auths, reader, writer, sending>>

\* A message or a ping cannot be written, or the channel is closed and empty.
StopWriting(c) ==
    /\ writer[c] = "run"
    /\ conn[c] \in {"gone", "closed"} \/ (closed[c] /\ send[c] = <<>>)
    /\ writer' = [writer EXCEPT ![c] = "done"]
    /\ conn' = [conn EXCEPT ![c] = "closed"]
    /\ UNCHANGED <<hub, auths, reader, sending>>

-----------------------------------------------------------------------------
(***************************************************************************)
(* broadcastToUser and the callback of portfolio.synced.                   *)
(***************************************************************************)

\* authenticatedUsers, and a goroutine for one of them; it asks the exchanges
\* before it sends.
Broadcast(s) ==
    /\ sender[s] = "idle" /\ CanRLock
    /\ \E c \in clients : userID[c] # NoUser /\ user' = [user EXCEPT ![s] = userID[c]]
    /\ sender' = [sender EXCEPT ![s] = "lock"]
    /\ UNCHANGED <<hub, network, reader, writer, todo, target>>

\* A portfolio.synced message, for any user.
Synced(s, u) ==
    /\ sender[s] = "idle"
    /\ user' = [user EXCEPT ![s] = u]
    /\ sender' = [sender EXCEPT ![s] = "lock"]
    /\ UNCHANGED <<hub, network, reader, writer, todo, target>>

\* sendToUser: RLock, and the loop over the map.
BeginSend(s) ==
    /\ sender[s] = "lock" /\ CanRLock
    /\ sender' = [sender EXCEPT ![s] = "loop"]
    /\ todo' = [todo EXCEPT ![s] = clients]
    /\ UNCHANGED <<hub, network, reader, writer, user, target>>

\* Faulty variant: any connection somebody has authenticated on will do.
InspectAny(s, c) ==
    /\ sender[s] = "loop" /\ c \in todo[s]
    /\ todo' = [todo EXCEPT ![s] = @ \ {c}]
    /\ IF userID[c] # NoUser
       THEN sender' = [sender EXCEPT ![s] = "send"] /\ target' = [target EXCEPT ![s] = {c}]
       ELSE UNCHANGED <<sender, target>>
    /\ UNCHANGED <<hub, network, reader, writer, user>>

\* Is c.userID the user?
Inspect(s, c) ==
    /\ sender[s] = "loop" /\ c \in todo[s]
    /\ todo' = [todo EXCEPT ![s] = @ \ {c}]
    /\ IF userID[c] = user[s]
       THEN sender' = [sender EXCEPT ![s] = "send"] /\ target' = [target EXCEPT ![s] = {c}]
       ELSE UNCHANGED <<sender, target>>
    /\ UNCHANGED <<hub, network, reader, writer, user>>

\* Faulty variant: the send waits for room in the buffer.
PushBlocking(s, c) ==
    /\ sender[s] = "send" /\ c \in target[s]
    /\ Len(send[c]) < Buffer
    /\ send' = [send EXCEPT ![c] = Append(@, Data(user[s]))]
    /\ sender' = [sender EXCEPT ![s] = "loop"]
    /\ target' = [target EXCEPT ![s] = {}]
    /\ UNCHANGED <<clients, userID, closed, network, reader, writer, user, todo>>

Push(s, c) ==
    /\ sender[s] = "send" /\ c \in target[s]
    /\ Offer(c, Data(user[s]))
    /\ sender' = [sender EXCEPT ![s] = "loop"]
    /\ target' = [target EXCEPT ![s] = {}]
    /\ UNCHANGED <<clients, userID, closed, network, reader, writer, user, todo>>

\* Faulty variant: no RUnlock when no connection is the user's.
EndSendLocked(s) ==
    /\ sender[s] = "loop" /\ todo[s] = {} /\ \E c \in clients : userID[c] = user[s]
    /\ sender' = [sender EXCEPT ![s] = "idle"]
    /\ user' = [user EXCEPT ![s] = NoUser]
    /\ UNCHANGED <<hub, network, reader, writer, todo, target>>

\* RUnlock, deferred.
EndSend(s) ==
    /\ sender[s] = "loop" /\ todo[s] = {}
    /\ sender' = [sender EXCEPT ![s] = "idle"]
    /\ user' = [user EXCEPT ![s] = NoUser]
    /\ UNCHANGED <<hub, network, reader, writer, todo, target>>

-----------------------------------------------------------------------------
ReadPump(c) == Register(c) \/ Confirm(c) \/ ReadError(c) \/ Unregister(c) \/ CloseConn(c)
WritePump(c) == Write(c) \/ StopWriting(c)
Peer(c) == Connect(c) \/ Drop(c) \/ Reject(c) \/ \E u \in Users : Authenticate(c, u)
SendToUser(s) == BeginSend(s) \/ EndSend(s) \/ \E c \in Clients : Inspect(s, c) \/ Push(s, c)
StartSending(s) == Broadcast(s) \/ \E u \in Users : Synced(s, u)

Next ==
    \/ \E c \in Clients : ReadPump(c) \/ WritePump(c) \/ Peer(c)
    \/ \E s \in Senders : SendToUser(s) \/ StartSending(s)

Spec == Init /\ [][Next]_vars

\* Goroutines run, reads and writes have a deadline and pings are sent, so no
\* pump stays where it is; nothing is assumed of the peer or of the tokens.
FairSpec ==
    /\ Spec
    /\ \A c \in Clients : WF_vars(ReadPump(c)) /\ WF_vars(WritePump(c))
    /\ \A s \in Senders : WF_vars(SendToUser(s))

-----------------------------------------------------------------------------
(***************************************************************************)
(* Properties.                                                             *)
(***************************************************************************)

\* Nobody sends on a closed channel, which would panic.
NoSendOnClosed ==
    /\ \A s \in Senders : \A c \in target[s] : ~closed[c]
    /\ \A c \in Clients : reader[c] \in {"read", "auth"} => ~closed[c]

\* What waits in a connection's channel is its user's; nothing is queued for
\* one nobody has authenticated on.  (Connections that authenticate once.)
OwnDataOnly ==
    \A c \in Clients : \A i \in 1..Len(send[c]) :
        send[c][i].kind = "data" => send[c][i].user = userID[c]

\* A connection that has been lost is removed and both its goroutines end.
LostIsForgotten ==
    \A c \in Clients : conn[c] = "gone" ~>
        c \notin clients /\ reader[c] = "done" /\ writer[c] \in {"none", "done"}

\* No connection, however slow, holds a sender up.
SendEnds == \A s \in Senders : sender[s] = "lock" ~> sender[s] = "idle"
=============================================================================
