SPECIFICATION Spec
CONSTANTS
    p0 = p0
    p1 = p1
    bad = bad
    t0 = t0
    t1 = t1
    N = 4
    Observers = {}
    WatchOnlyFlag = {}
    Proposals = {p0, p1, bad}
    Tx = {t0, t1}
    TxOf <- SomeTransactions
    Rejected = {}
    Invalid = {bad}
    Refused = {3}
    AntiMEVExtensionEnablingHeight <- Disabled
    Dynamic = FALSE
    ViewSize = 256
    Nil = Nil
    Byzantine = {1, 2, 3}
    Injected <- AnyOrder
    Restartable = {}
    Drafts = {p0}
    MaxHeight = 1
    MaxView = 1
    MaxMissing = 3
    MaxRecoveries = 0
INVARIANTS
    PrepareOnce
    CacheReplayed
    PreparesVerified
    TimerArmed
    NoPanic
    MissingListed
PROPERTIES
    CommitLocks
