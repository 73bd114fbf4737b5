SPECIFICATION FairSpec
CONSTANTS
    u1 = u1
    Users = {u1}
    Trading = {u1}
    Roaming = {u1}
    Managing = {u1}
    FaultKinds = {"fetch", "lost", "gateway", "market", "trading"}
    MaxFaults = 2
    MaxVersion = 1
    MaxQueue = 1
INVARIANTS
    TypeOK
PROPERTIES
    RowsFollow
    PageFollows
    LeaversForgotten
