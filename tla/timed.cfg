SPECIFICATION TimedSpec
CONSTANTS
    p0 = p0
    p1 = p1
    N = 4
    Observers = {}
    WatchOnlyFlag = {}
    Proposals = {p0}
    Tx = {}
    TxOf <- NoTransactions
    Rejected = {}
    Invalid = {}
    Refused = {}
    AntiMEVExtensionEnablingHeight <- Disabled
    Dynamic = FALSE
    ViewSize = 256
    Nil = Nil
    Byzantine = {1}
    Injected = {}
    Restartable = {}
    Drafts = {p0}
    MaxHeight = 3
    MaxView = 1
    MaxMissing = 0
    MaxRecoveries = 0
    timePerBlock = 4
    maxTimePerBlock = 8
    rttLength = 1
    ZeroTime <- LongAgo
    MaxDelay <- OneIsSlow
    ChanSize = 100
    MaxTime = 50
INVARIANTS
    NoNeedlessViewChange
    BlockPace
PROPERTIES
    ImplementsDbft
    EveryHeight
CHECK_DEADLOCK FALSE
