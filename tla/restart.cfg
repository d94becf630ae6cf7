SPECIFICATION Spec
CONSTANTS
    p0 = p0
    p1 = p1
    N = 2
    Observers = {}
    WatchOnlyFlag = {}
    Proposals = {p0, p1}
    Tx = {}
    TxOf <- NoTransactions
    Rejected = {}
    Invalid = {}
    Refused = {}
    AntiMEVExtensionEnablingHeight <- Disabled
    Dynamic = FALSE
    ViewSize = 256
    Nil = Nil
    Byzantine = {}
    Injected = {}
    Restartable = {0}
    Drafts = {p0, p1}
    MaxHeight = 1
    MaxView = 1
    MaxMissing = 0
    MaxRecoveries = 0
INVARIANTS
    Agreement
