SPECIFICATION Spec
CONSTANTS
    p0 = p0
    p1 = p1
    N = 4
    Observers = {}
    WatchOnlyFlag = {}
    Proposals = {p0, p1}
    Tx = {}
    TxOf <- NoTransactions
    Rejected = {}
    Invalid = {}
    Refused = {}
    AntiMEVExtensionEnablingHeight <- Disabled
    Dynamic = FALSE
    ViewSize = 4
    Nil = Nil
    Byzantine = {2, 3}
    Injected <- EveryVote
    Restartable = {}
    Drafts = {p0}
    MaxHeight = 1
    MaxView = 1
    MaxMissing = 0
    MaxRecoveries = 0
INVARIANTS
    TypeOK
    CommitsBind
    Agreement
    CommitOnce
    OneCertificate
PROPERTIES
    CommitLocks
    ImplementsChain
