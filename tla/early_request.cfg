SPECIFICATION Spec
CONSTANTS
    p0 = p0
    p1 = p1
    bad = bad
    t0 = t0
    t1 = t1
    N = 4
    Observers = {}
    WatchOnlyFlag = {}
    Proposals = {p0, p1, bad}
    Tx = {t0, t1}
    TxOf <- SomeTransactions
    Rejected = {}
    Invalid = {bad}
    Refused = {}
    AntiMEVExtensionEnablingHeight <- Disabled
    Dynamic = FALSE
    ViewSize = 256
    Nil = Nil
    Byzantine = {0, 1, 3}
    Injected <- EarlyRequest
    Restartable = {}
    Drafts = {p1}
    MaxHeight = 1
    MaxView = 1
    MaxMissing = 4
    MaxRecoveries = 0
INVARIANTS
    MissingListed
