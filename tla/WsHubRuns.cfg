SPECIFICATION FairSpec
CONSTANTS
    c1 = c1
    c2 = c2
    c3 = c3
    u1 = u1
    u2 = u2
    loop = loop
    nats = nats
    NoUser = NoUser
    Clients = {c1, c2}
    Users = {u1, u2}
    Senders = {nats}
    Buffer = 1
    MaxAuths = 1
\* Every connection may have ended and no message come.
CHECK_DEADLOCK FALSE
INVARIANTS
    TypeOK
    NoSendOnClosed
    OwnDataOnly
PROPERTIES
    SendEnds
    LostIsForgotten
