----------------------------- MODULE WsHubProofs ----------------------------
(***************************************************************************)
(* Proofs about WsHub, for any number of connections, users and senders    *)
(* and any buffer: the type invariant, that nobody sends on a closed       *)
(* channel, and that what is queued for a connection is its user's.        *)
(***************************************************************************)
EXTENDS WsHub, TLAPS

(***************************************************************************)
(* The type invariant.                                                     *)
(***************************************************************************)

\* A message offered to a channel leaves it a channel within its capacity.
LEMMA OfferType ==
    ASSUME TypeOK, NEW c \in Clients, NEW m \in Messages, Offer(c, m)
    PROVE  /\ send' \in [Clients -> Seq(Messages)]
           /\ \A d \in Clients : Len(send'[d]) <= Buffer
<1>1. CASE Len(send[c]) < Buffer
  <2>1. send' = [send EXCEPT ![c] = Append(send[c], m)]
    BY <1>1 DEF Offer
  <2>2. send[c] \in Seq(Messages) /\ Len(send[c]) \in Nat
    BY DEF TypeOK
  <2>3. Append(send[c], m) \in Seq(Messages) /\ Len(Append(send[c], m)) = Len(send[c]) + 1
    BY <2>2
  <2>4. Len(Append(send[c], m)) <= Buffer
    BY <1>1, <2>2, <2>3, BoundsAssumption
  <2> QED
    BY <2>1, <2>3, <2>4 DEF TypeOK
<1>2. CASE ~(Len(send[c]) < Buffer)
  BY <1>2 DEF Offer, TypeOK
<1> QED
  BY <1>1, <1>2

\* The messages are messages.
LEMMA MessageTypes ==
    /\ \A u \in Users \cup {NoUser} : Success(u) \in Messages /\ Data(u) \in Messages
    /\ AuthError \in Messages
BY DEF Success, Data, AuthError, Messages

LEMMA TypeInit == Init => TypeOK
<1> SUFFICES ASSUME Init PROVE TypeOK
  OBVIOUS
<1>1. <<>> \in Seq(Messages) /\ Len(<<>>) = 0
  OBVIOUS
<1>2. send \in [Clients -> Seq(Messages)] /\ \A c \in Clients : Len(send[c]) <= Buffer
  BY <1>1, BoundsAssumption DEF Init
<1> QED
  BY <1>2, BoundsAssumption DEF Init, TypeOK

LEMMA TypeStep == TypeOK /\ [Next]_vars => TypeOK'
<1> SUFFICES ASSUME TypeOK, [Next]_vars PROVE TypeOK'
  OBVIOUS
<1> USE DEF hub, network, sending
<1>1. ASSUME NEW c \in Clients, ReadPump(c) PROVE TypeOK'
  <2>1. CASE Register(c)
    BY <2>1 DEF Register, TypeOK
  <2>2. CASE Confirm(c)
    <3>1. userID[c] \in Users \cup {NoUser}
      BY DEF TypeOK
    <3>2. send' \in [Clients -> Seq(Messages)] /\ \A d \in Clients : Len(send'[d]) <= Buffer
      BY <2>2, <3>1, OfferType, MessageTypes DEF Confirm
    <3> QED
      BY <2>2, <3>2 DEF Confirm, TypeOK
  <2>3. CASE ReadError(c)
    BY <2>3 DEF ReadError, TypeOK
  <2>4. CASE Unregister(c)
    BY <2>4 DEF Unregister, TypeOK
  <2>5. CASE CloseConn(c)
    BY <2>5 DEF CloseConn, TypeOK
  <2> QED
    BY <1>1, <2>1, <2>2, <2>3, <2>4, <2>5 DEF ReadPump
<1>2. ASSUME NEW c \in Clients, WritePump(c) PROVE TypeOK'
  <2>1. CASE Write(c)
    <3>1. send[c] \in Seq(Messages) /\ send[c] # <<>>
      BY <2>1 DEF Write, TypeOK
    <3>2. Tail(send[c]) \in Seq(Messages) /\ Len(Tail(send[c])) = Len(send[c]) - 1
      BY <3>1
    <3>3. Len(send[c]) <= Buffer /\ Len(send[c]) \in Nat
      BY <3>1 DEF TypeOK
    <3>4. Len(Tail(send[c])) <= Buffer
      BY <3>2, <3>3, BoundsAssumption
    <3>5. send' \in [Clients -> Seq(Messages)] /\ \A d \in Clients : Len(send'[d]) <= Buffer
      BY <2>1, <3>2, <3>4 DEF Write, TypeOK
    <3> QED
      BY <2>1, <3>5 DEF Write, TypeOK
  <2>2. CASE StopWriting(c)
    BY <2>2 DEF StopWriting, TypeOK
  <2> QED
    BY <1>2, <2>1, <2>2 DEF WritePump
<1>3. ASSUME NEW c \in Clients, Peer(c) PROVE TypeOK'
  <2>1. CASE Connect(c)
    BY <2>1 DEF Connect, TypeOK
  <2>2. CASE Drop(c)
    BY <2>2 DEF Drop, TypeOK
  <2>3. ASSUME auths[c] < MaxAuths, auths' = [auths EXCEPT ![c] = @ + 1]
        PROVE  auths' \in [Clients -> 0..MaxAuths]
    <3>1. auths[c] + 1 \in 0..MaxAuths
      BY <2>3, BoundsAssumption DEF TypeOK
    <3> QED
      BY <2>3, <3>1 DEF TypeOK
  <2>4. CASE Reject(c)
    <3>1. send' \in [Clients -> Seq(Messages)] /\ \A d \in Clients : Len(send'[d]) <= Buffer
      BY <2>4, OfferType, MessageTypes DEF Reject
    <3>2. auths' \in [Clients -> 0..MaxAuths]
      BY <2>3, <2>4 DEF Reject
    <3> QED
      BY <2>4, <3>1, <3>2 DEF Reject, TypeOK
  <2>5. ASSUME NEW u \in Users, Authenticate(c, u) PROVE TypeOK'
    <3>1. auths' \in [Clients -> 0..MaxAuths]
      BY <2>3, <2>5 DEF Authenticate
    <3> QED
      BY <2>5, <3>1 DEF Authenticate, TypeOK
  <2> QED
    BY <1>3, <2>1, <2>2, <2>4, <2>5 DEF Peer
<1>4. ASSUME NEW s \in Senders, SendToUser(s) PROVE TypeOK'
  <2>1. CASE BeginSend(s)
    BY <2>1 DEF BeginSend, TypeOK
  <2>2. CASE EndSend(s)
    BY <2>2 DEF EndSend, TypeOK
  <2>3. ASSUME NEW c \in Clients, Inspect(s, c) PROVE TypeOK'
    <3>1. CASE userID[c] = user[s]
      <4>1. todo[s] \ {c} \in SUBSET Clients /\ {c} \in SUBSET Clients
        BY DEF TypeOK
      <4>2. /\ todo' = [todo EXCEPT ![s] = todo[s] \ {c}]
            /\ sender' = [sender EXCEPT ![s] = "send"]
            /\ target' = [target EXCEPT ![s] = {c}]
            /\ UNCHANGED <<hub, network, reader, writer, user>>
        BY <2>3, <3>1 DEF Inspect
      <4> QED
        BY <4>1, <4>2 DEF TypeOK
    <3>2. CASE userID[c] # user[s]
      BY <2>3, <3>2 DEF Inspect, TypeOK
    <3> QED
      BY <3>1, <3>2
  <2>4. ASSUME NEW c \in Clients, Push(s, c) PROVE TypeOK'
    <3>1. user[s] \in Users \cup {NoUser}
      BY DEF TypeOK
    <3>2. send' \in [Clients -> Seq(Messages)] /\ \A d \in Clients : Len(send'[d]) <= Buffer
      BY <2>4, <3>1, OfferType, MessageTypes DEF Push
    <3> QED
      BY <2>4, <3>2 DEF Push, TypeOK
  <2> QED
    BY <1>4, <2>1, <2>2, <2>3, <2>4 DEF SendToUser
<1>5. ASSUME NEW s \in Senders, StartSending(s) PROVE TypeOK'
  <2>1. CASE Broadcast(s)
    <3>1. PICK c \in clients : user' = [user EXCEPT ![s] = userID[c]]
      BY <2>1 DEF Broadcast
    <3>2. userID[c] \in Users \cup {NoUser}
      BY <3>1 DEF TypeOK
    <3> QED
      BY <2>1, <3>1, <3>2 DEF Broadcast, TypeOK
  <2>2. ASSUME NEW u \in Users, Synced(s, u) PROVE TypeOK'
    BY <2>2 DEF Synced, TypeOK
  <2> QED
    BY <1>5, <2>1, <2>2 DEF StartSending
<1>6. CASE UNCHANGED vars
  BY <1>6 DEF vars, TypeOK
<1> QED
  BY <1>1, <1>2, <1>3, <1>4, <1>5, <1>6 DEF Next

\* The variables of the hub, its connections and its senders always have
\* their types; no channel ever holds more than its capacity.
THEOREM TypeCorrect == Spec => []TypeOK
BY TypeInit, TypeStep, PTL DEF Spec

(***************************************************************************)
(* Nobody sends on a closed channel.  What ReadPump has done to the map    *)
(* and to the channel follows from where it is; a sender that is in its    *)
(* loop works on connections of the map, which cannot lose one meanwhile.  *)
(***************************************************************************)

PumpInv ==
    \A c \in Clients :
        /\ c \in clients <=> reader[c] \in {"read", "auth", "unregister"}
        /\ closed[c] <=> reader[c] \in {"close", "done"}
        /\ conn[c] = "none" <=> reader[c] = "none"

SenderInv ==
    \A s \in Senders :
        /\ todo[s] \subseteq clients /\ target[s] \subseteq clients
        /\ s \notin Reading => todo[s] = {} /\ target[s] = {}
        /\ sender[s] # "send" => target[s] = {}

HubInv == TypeOK /\ PumpInv /\ SenderInv

LEMMA HubInit == Init => HubInv
BY TypeInit DEF Init, HubInv, PumpInv, SenderInv

LEMMA PumpStep == HubInv /\ [Next]_vars => PumpInv'
<1> SUFFICES ASSUME HubInv, [Next]_vars PROVE PumpInv'
  OBVIOUS
<1> USE DEF HubInv, PumpInv, hub, network, sending
<1>1. ASSUME NEW c \in Clients, ReadPump(c) PROVE PumpInv'
  <2>1. CASE Register(c)
    BY <2>1 DEF Register, TypeOK
  <2>2. CASE Confirm(c)
    BY <2>2 DEF Confirm, TypeOK
  <2>3. CASE ReadError(c)
    BY <2>3 DEF ReadError, TypeOK
  <2>4. CASE Unregister(c)
    BY <2>4 DEF Unregister, TypeOK
  <2>5. CASE CloseConn(c)
    BY <2>5 DEF CloseConn, TypeOK
  <2> QED
    BY <1>1, <2>1, <2>2, <2>3, <2>4, <2>5 DEF ReadPump
<1>2. ASSUME NEW c \in Clients, WritePump(c) PROVE PumpInv'
  <2>1. CASE Write(c)
    BY <2>1 DEF Write
  <2>2. CASE StopWriting(c)
    <3>1. conn[c] # "none"
      BY <2>2 DEF StopWriting
    <3> QED
      BY <2>2, <3>1 DEF StopWriting, TypeOK
  <2> QED
    BY <1>2, <2>1, <2>2 DEF WritePump
<1>3. ASSUME NEW c \in Clients, Peer(c) PROVE PumpInv'
  <2>1. CASE Connect(c)
    <3>1. reader[c] = "none"
      BY <2>1 DEF Connect
    <3> QED
      BY <2>1, <3>1 DEF Connect, TypeOK
  <2>2. CASE Drop(c)
    BY <2>2 DEF Drop, TypeOK
  <2>3. CASE Reject(c)
    BY <2>3 DEF Reject
  <2>4. ASSUME NEW u \in Users, Authenticate(c, u) PROVE PumpInv'
    BY <2>4 DEF Authenticate, TypeOK
  <2> QED
    BY <1>3, <2>1, <2>2, <2>3, <2>4 DEF Peer
<1>4. ASSUME NEW s \in Senders, SendToUser(s) \/ StartSending(s) PROVE PumpInv'
  BY <1>4 DEF SendToUser, StartSending, BeginSend, EndSend, Inspect, Push, Broadcast, Synced
<1>5. CASE UNCHANGED vars
  BY <1>5 DEF vars
<1> QED
  BY <1>1, <1>2, <1>3, <1>4, <1>5 DEF Next

LEMMA SenderStep == HubInv /\ [Next]_vars => SenderInv'
<1> SUFFICES ASSUME HubInv, [Next]_vars PROVE SenderInv'
  OBVIOUS
<1> USE DEF HubInv, hub, network, sending
<1>1. ASSUME NEW c \in Clients, ReadPump(c) PROVE SenderInv'
  <2>1. CASE Register(c)
    <3>1. clients \subseteq clients' /\ UNCHANGED sending
      BY <2>1 DEF Register
    <3> QED
      BY <3>1 DEF SenderInv, Reading
  <2>2. CASE Unregister(c)
    <3>1. \A s \in Senders : todo[s] = {} /\ target[s] = {}
      BY <2>2 DEF Unregister, CanLock, SenderInv
    <3>2. UNCHANGED sending
      BY <2>2 DEF Unregister
    <3> QED
      BY <3>1, <3>2 DEF SenderInv
  <2>3. CASE Confirm(c) \/ ReadError(c) \/ CloseConn(c)
    <3>1. UNCHANGED <<clients, sending>>
      BY <2>3 DEF Confirm, ReadError, CloseConn
    <3> QED
      BY <3>1 DEF SenderInv, Reading
  <2> QED
    BY <1>1, <2>1, <2>2, <2>3 DEF ReadPump
<1>2. ASSUME NEW c \in Clients, WritePump(c) \/ Peer(c) PROVE SenderInv'
  <2>1. UNCHANGED <<clients, sending>>
    BY <1>2 DEF WritePump, Write, StopWriting, Peer, Connect, Drop, Reject, Authenticate
  <2> QED
    BY <2>1 DEF SenderInv, Reading
<1>3. ASSUME NEW s \in Senders, SendToUser(s) PROVE SenderInv'
  <2>1. CASE BeginSend(s)
    BY <2>1 DEF BeginSend, SenderInv, Reading, TypeOK
  <2>2. CASE EndSend(s)
    BY <2>2 DEF EndSend, SenderInv, Reading, TypeOK
  <2>3. ASSUME NEW c \in Clients, Inspect(s, c) PROVE SenderInv'
    <3>1. sender[s] = "loop" /\ c \in todo[s] /\ todo[s] \subseteq clients /\ target[s] = {}
      BY <2>3 DEF Inspect, SenderInv
    <3>2. CASE userID[c] = user[s]
      BY <2>3, <3>1, <3>2 DEF Inspect, SenderInv, Reading, TypeOK
    <3>3. CASE userID[c] # user[s]
      BY <2>3, <3>1, <3>3 DEF Inspect, SenderInv, Reading, TypeOK
    <3> QED
      BY <3>2, <3>3
  <2>4. ASSUME NEW c \in Clients, Push(s, c) PROVE SenderInv'
    BY <2>4 DEF Push, SenderInv, Reading, TypeOK
  <2> QED
    BY <1>3, <2>1, <2>2, <2>3, <2>4 DEF SendToUser
<1>4. ASSUME NEW s \in Senders, StartSending(s) PROVE SenderInv'
  <2>1. /\ UNCHANGED <<clients, todo, target>>
        /\ sender[s] = "idle" /\ sender' = [sender EXCEPT ![s] = "lock"]
    BY <1>4 DEF StartSending, Broadcast, Synced
  <2> QED
    BY <2>1 DEF SenderInv, Reading, TypeOK
<1>5. CASE UNCHANGED vars
  BY <1>5 DEF vars, SenderInv, Reading
<1> QED
  BY <1>1, <1>2, <1>3, <1>4, <1>5 DEF Next

LEMMA HubStep == HubInv /\ [Next]_vars => HubInv'
BY TypeStep, PumpStep, SenderStep DEF HubInv

LEMMA HubSafe == HubInv => NoSendOnClosed
<1> SUFFICES ASSUME HubInv PROVE NoSendOnClosed
  OBVIOUS
<1>1. ASSUME NEW s \in Senders, NEW c \in target[s] PROVE ~closed[c]
  <2>1. c \in clients /\ c \in Clients
    BY DEF HubInv, SenderInv, TypeOK
  <2> QED
    BY <2>1 DEF HubInv, PumpInv
<1>2. ASSUME NEW c \in Clients, reader[c] \in {"read", "auth"} PROVE ~closed[c]
  BY <1>2 DEF HubInv, PumpInv
<1> QED
  BY <1>1, <1>2 DEF NoSendOnClosed

\* No goroutine ever sends on a channel that unregister has closed, whichever
\* senders are in their loops when a connection goes.
THEOREM SendSafe == Spec => []NoSendOnClosed
<1>1. Spec => []HubInv
  BY HubInit, HubStep, PTL DEF Spec
<1> QED
  BY <1>1, HubSafe, PTL

(***************************************************************************)
(* What is queued for a connection is its user's, if connections           *)
(* authenticate once: until then nothing is queued, and a sender that has  *)
(* found a connection to be its user's is not overtaken by a change.       *)
(***************************************************************************)

\* A message that may be queued for a connection of u.
Fits(m, u) == m.kind = "data" => m.user \in Users /\ m.user = u

QueueInv == \A c \in Clients : \A i \in 1..Len(send[c]) : Fits(send[c][i], userID[c])

OwnInv ==
    /\ \A c \in Clients : auths[c] = 0 => userID[c] = NoUser
    /\ \A s \in Senders : \A c \in target[s] : user[s] = userID[c]
    /\ \A s \in Senders : sender[s] # "idle" => user[s] \in Users

\* A fitting message leaves what is queued fitting.
LEMMA OfferFits ==
    ASSUME TypeOK, QueueInv, NEW c \in Clients, NEW m \in Messages, Offer(c, m),
           Fits(m, userID[c]), UNCHANGED userID
    PROVE  QueueInv'
<1> SUFFICES ASSUME NEW d \in Clients, NEW i \in 1..Len(send'[d])
             PROVE  Fits(send'[d][i], userID[d])
  BY DEF QueueInv
<1>1. CASE Len(send[c]) < Buffer /\ d = c
  <2>1. send[c] \in Seq(Messages)
    BY DEF TypeOK
  <2>2. send'[c] = Append(send[c], m)
    BY <1>1 DEF Offer, TypeOK
  <2>3. i \in 1..(Len(send[c]) + 1)
    BY <1>1, <2>1, <2>2
  <2>4. CASE i = Len(send[c]) + 1
    <3>1. send'[c][i] = m
      BY <2>1, <2>2, <2>4
    <3> QED
      BY <1>1, <3>1
  <2>5. CASE i \in 1..Len(send[c])
    <3>1. send'[c][i] = send[c][i]
      BY <2>1, <2>2, <2>5
    <3>2. Fits(send[c][i], userID[c])
      BY <2>5 DEF QueueInv
    <3> QED
      BY <1>1, <3>1, <3>2
  <2> QED
    BY <2>1, <2>3, <2>4, <2>5
<1>2. CASE ~(Len(send[c]) < Buffer) \/ d # c
  <2>1. send'[d] = send[d]
    BY <1>2 DEF Offer, TypeOK
  <2> QED
    BY <2>1 DEF QueueInv
<1> QED
  BY <1>1, <1>2

LEMMA OwnInit == Init => QueueInv /\ OwnInv
<1> SUFFICES ASSUME Init PROVE QueueInv /\ OwnInv
  OBVIOUS
<1>1. \A c \in Clients : send[c] = <<>>
  BY DEF Init
<1>2. QueueInv
  BY <1>1 DEF QueueInv
<1> QED
  BY <1>2 DEF Init, OwnInv

LEMMA QueueStep ==
    ASSUME MaxAuths <= 1, HubInv, QueueInv, OwnInv, [Next]_vars
    PROVE  QueueInv'
<1> USE DEF hub, network, sending
<1>1. ASSUME NEW c \in Clients, ReadPump(c) PROVE QueueInv'
  <2>1. CASE Confirm(c)
    <3>1. userID[c] \in Users \cup {NoUser} /\ TypeOK
      BY DEF HubInv, TypeOK
    <3>2. Success(userID[c]) \in Messages /\ Fits(Success(userID[c]), userID[c])
      BY <3>1, MessageTypes DEF Success, Fits
    <3> QED
      BY <2>1, <3>1, <3>2, OfferFits DEF Confirm
  <2>2. CASE Register(c) \/ ReadError(c) \/ Unregister(c) \/ CloseConn(c)
    <3>1. UNCHANGED <<send, userID>>
      BY <2>2 DEF Register, ReadError, Unregister, CloseConn
    <3> QED
      BY <3>1 DEF QueueInv
  <2> QED
    BY <1>1, <2>1, <2>2 DEF ReadPump
<1>2. ASSUME NEW c \in Clients, WritePump(c) PROVE QueueInv'
  <2>1. CASE Write(c)
    <3>1. send[c] \in Seq(Messages) /\ send[c] # <<>>
      BY <2>1 DEF Write, HubInv, TypeOK
    <3>2. /\ UNCHANGED userID
          /\ send'[c] = Tail(send[c])
          /\ \A d \in Clients : d # c => send'[d] = send[d]
      BY <2>1 DEF Write, HubInv, TypeOK
    <3> SUFFICES ASSUME NEW d \in Clients, NEW i \in 1..Len(send'[d])
                 PROVE  Fits(send'[d][i], userID[d])
      BY <3>2 DEF QueueInv
    <3>3. CASE d = c
      <4>1. i + 1 \in 1..Len(send[c]) /\ send'[c][i] = send[c][i + 1]
        <5>1. Len(send[c]) \in Nat /\ Len(Tail(send[c])) = Len(send[c]) - 1
          BY <3>1
        <5>2. i \in 1..(Len(send[c]) - 1)
          BY <3>2, <3>3, <5>1
        <5>3. Tail(send[c])[i] = send[c][i + 1]
          BY <3>1, <5>1, <5>2
        <5> QED
          BY <3>2, <5>1, <5>2, <5>3
      <4> QED
        BY <3>3, <4>1 DEF QueueInv
    <3>4. CASE d # c
      BY <3>2, <3>4 DEF QueueInv
    <3> QED
      BY <3>3, <3>4
  <2>2. CASE StopWriting(c)
    <3>1. UNCHANGED <<send, userID>>
      BY <2>2 DEF StopWriting
    <3> QED
      BY <3>1 DEF QueueInv
  <2> QED
    BY <1>2, <2>1, <2>2 DEF WritePump
<1>3. ASSUME NEW c \in Clients, Peer(c) PROVE QueueInv'
  <2>1. CASE Connect(c) \/ Drop(c)
    <3>1. UNCHANGED <<send, userID>>
      BY <2>1 DEF Connect, Drop
    <3> QED
      BY <3>1 DEF QueueInv
  <2>2. CASE Reject(c)
    <3>1. AuthError \in Messages /\ Fits(AuthError, userID[c]) /\ TypeOK
      BY MessageTypes DEF AuthError, Fits, HubInv
    <3> QED
      BY <2>2, <3>1, OfferFits DEF Reject
  <2>3. ASSUME NEW u \in Users, Authenticate(c, u) PROVE QueueInv'
    <3>1. auths[c] \in Nat /\ auths[c] < 1
      BY <2>3, BoundsAssumption DEF Authenticate, HubInv, TypeOK
    <3>2. userID[c] = NoUser
      BY <3>1 DEF OwnInv
    <3>3. \A i \in 1..Len(send[c]) : send[c][i].kind # "data"
      BY <3>2, NoUserAssumption DEF QueueInv, Fits
    <3>4. send' = send /\ \A d \in Clients : d # c => userID'[d] = userID[d]
      BY <2>3 DEF Authenticate, HubInv, TypeOK
    <3> SUFFICES ASSUME NEW d \in Clients, NEW i \in 1..Len(send[d])
                 PROVE  Fits(send[d][i], userID'[d])
      BY <3>4 DEF QueueInv
    <3>5. CASE d = c
      BY <3>3, <3>5 DEF Fits
    <3>6. CASE d # c
      BY <3>4, <3>6 DEF QueueInv
    <3> QED
      BY <3>5, <3>6
  <2> QED
    BY <1>3, <2>1, <2>2, <2>3 DEF Peer
<1>4. ASSUME NEW s \in Senders, SendToUser(s) \/ StartSending(s) PROVE QueueInv'
  <2>1. ASSUME NEW c \in Clients, Push(s, c) PROVE QueueInv'
    <3>1. c \in target[s] /\ user[s] \in Users /\ user[s] = userID[c]
      BY <2>1 DEF Push, OwnInv
    <3>2. Data(user[s]) \in Messages /\ Fits(Data(user[s]), userID[c])
      BY <3>1, MessageTypes DEF Data, Fits
    <3>3. Offer(c, Data(user[s])) /\ UNCHANGED userID /\ TypeOK
      BY <2>1 DEF Push, HubInv
    <3> QED
      BY <3>2, <3>3, OfferFits
  <2>2. CASE UNCHANGED hub
    BY <2>2 DEF QueueInv
  <2> QED
    BY <1>4, <2>1, <2>2 DEF SendToUser, StartSending, BeginSend, EndSend, Inspect, Broadcast, Synced
<1>5. CASE UNCHANGED vars
  BY <1>5 DEF vars, QueueInv
<1> QED
  BY <1>1, <1>2, <1>3, <1>4, <1>5 DEF Next

LEMMA OwnStep ==
    ASSUME MaxAuths <= 1, HubInv, OwnInv, [Next]_vars
    PROVE  OwnInv'
<1> USE DEF hub, network, sending
<1>1. ASSUME NEW c \in Clients, ReadPump(c) PROVE OwnInv'
  <2>1. UNCHANGED <<auths, userID, target, user, sender>>
    BY <1>1 DEF ReadPump, Register, Confirm, ReadError, Unregister, CloseConn
  <2> QED
    BY <2>1 DEF OwnInv
<1>2. ASSUME NEW c \in Clients, WritePump(c) PROVE OwnInv'
  <2>1. UNCHANGED <<auths, userID, target, user, sender>>
    BY <1>2 DEF WritePump, Write, StopWriting
  <2> QED
    BY <2>1 DEF OwnInv
<1>3. ASSUME NEW c \in Clients, Peer(c) PROVE OwnInv'
  <2>1. CASE Connect(c) \/ Drop(c)
    <3>1. UNCHANGED <<auths, userID, target, user, sender>>
      BY <2>1 DEF Connect, Drop
    <3> QED
      BY <3>1 DEF OwnInv
  <2>2. auths[c] \in Nat /\ auths[c] + 1 # 0
    BY DEF HubInv, TypeOK
  <2>3. CASE Reject(c)
    <3>1. UNCHANGED <<userID, target, user, sender>> /\ auths' = [auths EXCEPT ![c] = auths[c] + 1]
      BY <2>3 DEF Reject
    <3>2. \A d \in Clients : auths'[d] = 0 => auths[d] = 0
      BY <2>2, <3>1 DEF HubInv, TypeOK
    <3> QED
      BY <3>1, <3>2 DEF OwnInv
  <2>4. ASSUME NEW u \in Users, Authenticate(c, u) PROVE OwnInv'
    <3>1. auths[c] = 0
      BY <2>2, <2>4, BoundsAssumption DEF Authenticate
    <3>2. userID[c] = NoUser
      BY <3>1 DEF OwnInv
    <3>3. /\ UNCHANGED <<target, user, sender>>
          /\ auths'[c] # 0
          /\ \A d \in Clients : d # c => auths'[d] = auths[d] /\ userID'[d] = userID[d]
      BY <2>2, <2>4 DEF Authenticate, HubInv, TypeOK
    <3>4. ASSUME NEW s \in Senders PROVE c \notin target[s]
      <4>1. SUFFICES ASSUME c \in target[s] PROVE FALSE
        OBVIOUS
      <4>2. sender[s] = "send" /\ user[s] = userID[c]
        BY <4>1 DEF HubInv, SenderInv, OwnInv
      <4>3. user[s] \in Users
        BY <4>2 DEF OwnInv
      <4> QED
        BY <3>2, <4>2, <4>3, NoUserAssumption
    <3>5. ASSUME NEW s \in Senders, NEW d \in target[s] PROVE user[s] = userID'[d]
      <4>1. d # c /\ d \in Clients
        BY <3>4, <3>5 DEF HubInv, TypeOK
      <4> QED
        BY <3>3, <4>1 DEF OwnInv
    <3>6. \A d \in Clients : auths'[d] = 0 => userID'[d] = NoUser
      BY <3>3 DEF OwnInv
    <3>7. \A s \in Senders : sender'[s] # "idle" => user'[s] \in Users
      BY <3>3 DEF OwnInv
    <3>8. \A s \in Senders : \A d \in target'[s] : user'[s] = userID'[d]
      BY <3>3, <3>5
    <3> QED
      BY <3>6, <3>7, <3>8 DEF OwnInv
  <2> QED
    BY <1>3, <2>1, <2>3, <2>4 DEF Peer
<1>4. ASSUME NEW s \in Senders, SendToUser(s) PROVE OwnInv'
  <2>1. CASE BeginSend(s)
    BY <2>1 DEF BeginSend, OwnInv, HubInv, TypeOK
  <2>2. CASE EndSend(s)
    <3>1. target[s] = {}
      BY <2>2 DEF EndSend, HubInv, SenderInv
    <3> QED
      BY <2>2, <3>1 DEF EndSend, OwnInv, HubInv, TypeOK
  <2>3. ASSUME NEW c \in Clients, Inspect(s, c) PROVE OwnInv'
    <3>1. CASE userID[c] = user[s]
      <4>1. /\ UNCHANGED <<auths, userID, user>>
            /\ sender[s] = "loop" /\ sender' = [sender EXCEPT ![s] = "send"]
            /\ target' = [target EXCEPT ![s] = {c}]
        BY <2>3, <3>1 DEF Inspect
      <4>2. \A r \in Senders : target'[r] = IF r = s THEN {c} ELSE target[r]
        BY <4>1 DEF HubInv, TypeOK
      <4>3. \A r \in Senders : sender'[r] # "idle" => sender[r] # "idle"
        BY <4>1 DEF HubInv, TypeOK
      <4>4. \A r \in Senders : \A d \in target'[r] : user'[r] = userID'[d]
        BY <3>1, <4>1, <4>2 DEF OwnInv
      <4> QED
        BY <4>1, <4>3, <4>4 DEF OwnInv
    <3>2. CASE userID[c] # user[s]
      BY <2>3, <3>2 DEF Inspect, OwnInv
    <3> QED
      BY <3>1, <3>2
  <2>4. ASSUME NEW c \in Clients, Push(s, c) PROVE OwnInv'
    BY <2>4 DEF Push, OwnInv, HubInv, TypeOK
  <2> QED
    BY <1>4, <2>1, <2>2, <2>3, <2>4 DEF SendToUser
<1>5. ASSUME NEW s \in Senders, StartSending(s) PROVE OwnInv'
  <2>1. PICK u \in Users : user' = [user EXCEPT ![s] = u]
    <3>1. CASE Broadcast(s)
      <4>1. PICK c \in clients : userID[c] # NoUser /\ user' = [user EXCEPT ![s] = userID[c]]
        BY <3>1 DEF Broadcast
      <4>2. userID[c] \in Users
        BY <4>1 DEF HubInv, TypeOK
      <4> QED
        BY <4>1, <4>2
    <3>2. ASSUME NEW u \in Users, Synced(s, u) PROVE user' = [user EXCEPT ![s] = u]
      BY <3>2 DEF Synced
    <3> QED
      BY <1>5, <3>1, <3>2 DEF StartSending
  <2>2. /\ UNCHANGED <<auths, userID, target>>
        /\ sender[s] = "idle" /\ sender' = [sender EXCEPT ![s] = "lock"]
    BY <1>5 DEF StartSending, Broadcast, Synced
  <2>3. target[s] = {}
    BY <2>2 DEF HubInv, SenderInv
  <2> QED
    BY <2>1, <2>2, <2>3 DEF OwnInv, HubInv, TypeOK
<1>6. CASE UNCHANGED vars
  BY <1>6 DEF vars, OwnInv
<1> QED
  BY <1>1, <1>2, <1>3, <1>4, <1>5, <1>6 DEF Next

LEMMA OwnSafe == QueueInv => OwnDataOnly
BY DEF QueueInv, Fits, OwnDataOnly

\* If connections authenticate once, as those of the frontend do, whatever is
\* queued for one is of the user it was authenticated as, although senders
\* read userID while ReadPump writes it.
THEOREM OwnSafety ==
    ASSUME MaxAuths <= 1
    PROVE  Spec => []OwnDataOnly
<1>1. HubInv /\ QueueInv /\ OwnInv /\ [Next]_vars => (HubInv /\ QueueInv /\ OwnInv)'
  BY HubStep, QueueStep, OwnStep
<1>2. Init => HubInv /\ QueueInv /\ OwnInv
  BY HubInit, OwnInit
<1> QED
  BY <1>1, <1>2, OwnSafe, PTL DEF Spec
=============================================================================
