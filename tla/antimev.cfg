SPECIFICATION Spec
CONSTANTS
    p0 = p0
    p1 = p1
    bad = bad
    t0 = t0
    t1 = t1
    N = 4
    Observers = {}
    WatchOnlyFlag = {}
    Proposals = {p0, p1}
    Tx = {}
    TxOf <- NoTransactions
    Rejected = {}
    Invalid = {}
    Refused = {}
    AntiMEVExtensionEnablingHeight = 1
    Dynamic = FALSE
    ViewSize = 256
    Nil = Nil
    Byzantine = {1, 2, 3}
    Injected <- AnyOrderAntiMEV
    Restartable = {}
    Drafts = {p0}
    MaxHeight = 1
    MaxView = 1
    MaxMissing = 0
    MaxRecoveries = 0
INVARIANTS
    CommitsBind
    CommitAfterPreCommit
    PromisesKept
    TimerArmed
PROPERTIES
    CommitLocks
