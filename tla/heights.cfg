SPECIFICATION Spec
CONSTANTS
    p0 = p0
    p1 = p1
    N = 2
    Observers = {}
    WatchOnlyFlag = {}
    Proposals = {p0, p1}
    Tx = {p0}
    TxOf <- EmptyOrNot
    Rejected = {}
    Invalid = {}
    Refused = {}
    AntiMEVExtensionEnablingHeight = 2
    Dynamic = TRUE
    ViewSize = 256
    Nil = Nil
    Byzantine = {}
    Injected = {}
    Restartable = {}
    Drafts = {p0, p1}
    MaxHeight = 2
    MaxView = 0
    MaxMissing = 0
    MaxRecoveries = 0
INVARIANTS
    TimerArmed
    CacheReplayed
    CommitsGenuine
    Stocked
    Certified
PROPERTIES
    EmptyBlockWaits
