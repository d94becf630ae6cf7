SPECIFICATION Spec
CONSTANTS
    p0 = p0
    p1 = p1
    N = 2
    Observers = {2}
    WatchOnlyFlag = {}
    Proposals = {p0}
    Tx = {}
    TxOf <- NoTransactions
    Rejected = {}
    Invalid = {}
    Refused = {}
    AntiMEVExtensionEnablingHeight <- Disabled
    Dynamic = FALSE
    ViewSize = 256
    Nil = Nil
    Byzantine = {1}
    Injected <- Follower
    Restartable = {2}
    Drafts = {p0}
    MaxHeight = 1
    MaxView = 2
    MaxMissing = 0
    MaxRecoveries = 2
INVARIANTS
    RecoverySuffices
    CommitsGenuine
