SPECIFICATION Spec
CONSTANTS
    Primary = 0
    Fills <- SomeFills
    Backups = {1, 2, 3}
    M = 3
    Index = 5
    Second = 10
    MaxRequests = 2
    Live <- ThreeOrFour
    Nil = Nil
INVARIANTS
    TypeOK
    RequestsKeepTheirHash
    ResponsesGenuine
    SignaturesVerify
    HeadersTellRequests
CHECK_DEADLOCK FALSE
