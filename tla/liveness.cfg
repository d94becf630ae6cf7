SPECIFICATION FairSpec
CONSTANTS
    p0 = p0
    p1 = p1
    N = 4
    Observers = {}
    WatchOnlyFlag = {}
    Proposals = {p0, p1}
    Tx = {}
    TxOf <- NoTransactions
    Rejected = {}
    Invalid = {}
    Refused = {}
    AntiMEVExtensionEnablingHeight <- Disabled
    Dynamic = FALSE
    ViewSize = 256
    Nil = Nil
    Byzantine = {3}
    Injected = {}
    Restartable = {}
    Drafts = {p0}
    MaxHeight = 1
    MaxView = 0
    MaxMissing = 0
    MaxRecoveries = 0
PROPERTIES
    CommittedLeadsToBlock
