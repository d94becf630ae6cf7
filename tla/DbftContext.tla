---------------------------- MODULE DbftContext ----------------------------
(***************************************************************************)
(* The consensus context of one node (context.go) and the message cache    *)
(* (helpers.go): the state the library keeps, the predicates its handlers  *)
(* branch on, and the reset that opens a height or a view.                 *)
(*                                                                         *)
(* A context is a record whose fields keep the names of the Go struct.     *)
(* What the properties cannot tell apart is abstracted: the Timestamp,     *)
(* Nonce and TransactionHashes of a PrepareRequest are one `proposal`, the *)
(* hash of a request is its proposal, and a header (with its signature) is *)
(* the pair of the view and the proposal it was built from, because every  *)
(* Fill draws a fresh random Nonce.  Durations are left to the modules     *)
(* Pacing and TimedDbft: `calls` lists what a handler asks of the timer    *)
(* and of the clock, and here an armed timer may fire at any moment.       *)
(***************************************************************************)
EXTENDS Integers, Sequences, FiniteSets

CONSTANTS
    N,               \* number of validators, len(Validators)
    Observers,       \* nodes that follow consensus without a validator key
    WatchOnlyFlag,   \* validators whose Config.WatchOnly callback is true
    Proposals,       \* what a primary can propose (time, nonce, transactions)
    Tx,              \* transaction hashes
    TxOf,            \* TransactionHashes of every proposal
    Rejected,        \* proposals that fail Config.VerifyPrepareRequest
    Invalid,         \* proposals whose (Pre)Block fails Verify(Pre)Block
    Refused,         \* validators whose payloads fail the Verify* callbacks
    AntiMEVExtensionEnablingHeight,
    Dynamic,         \* TRUE iff Config.MaxTimePerBlock is set
    ViewSize,        \* values a view number can take: 256 for a byte
    Nil              \* the nil payload

ASSUME NAssumption == N \in Nat \ {0}

ASSUME ObserversAssumption == Observers \cap (0 .. N - 1) = {}

ASSUME TxAssumption == TxOf \in [Proposals -> Seq(Tx)]

ASSUME ViewSizeAssumption == ViewSize \in Nat \ {0}

ASSUME HeightAssumption == AntiMEVExtensionEnablingHeight \in Int

ASSUME DynamicAssumption == Dynamic \in BOOLEAN

Validators == 0 .. N - 1

Nodes == Validators \cup Observers

F == (N - 1) \div 3

\* Mutant: one vote short of a quorum.
MTooSmall == N - F - 1

M == N - F

-----------------------------------------------------------------------------
(* Payloads.  `from` is ValidatorIndex; `sign` stands for the signature of  *)
(* a Commit and the data of a PreCommit, and names the header it covers.    *)

PrepareRequestMsg(h, v, i, p) ==
    [type |-> "PrepareRequest", height |-> h, view |-> v, from |-> i,
     proposal |-> p]

PrepareResponseMsg(h, v, i, p) ==
    [type |-> "PrepareResponse", height |-> h, view |-> v, from |-> i,
     proposal |-> p]

PreCommitMsg(h, v, i, s) ==
    [type |-> "PreCommit", height |-> h, view |-> v, from |-> i, sign |-> s]

CommitMsg(h, v, i, s) ==
    [type |-> "Commit", height |-> h, view |-> v, from |-> i, sign |-> s]

ChangeViewMsg(h, v, i, nv) ==
    [type |-> "ChangeView", height |-> h, view |-> v, from |-> i,
     newView |-> nv]

RecoveryRequestMsg(h, v, i) ==
    [type |-> "RecoveryRequest", height |-> h, view |-> v, from |-> i]

Views == 0 .. ViewSize - 1

Headers == [view : Views, proposal : Proposals]

PrepareRequests ==
    [type : {"PrepareRequest"}, height : Nat, view : Views, from : Validators,
     proposal : Proposals]

PrepareResponses ==
    [type : {"PrepareResponse"}, height : Nat, view : Views, from : Validators,
     proposal : Proposals]

PreCommits ==
    [type : {"PreCommit"}, height : Nat, view : Views, from : Validators,
     sign : Headers]

Commits ==
    [type : {"Commit"}, height : Nat, view : Views, from : Validators,
     sign : Headers]

ChangeViews ==
    [type : {"ChangeView"}, height : Nat, view : Views, from : Validators,
     newView : Views]

RecoveryRequests ==
    [type : {"RecoveryRequest"}, height : Nat, view : Views, from : Validators]

\* internal/consensus keeps the parts of the payloads it packs (compact.go).
RecoveryMessages ==
    [type : {"RecoveryMessage"}, height : Nat, view : Views, from : Validators,
     prepareRequest : Proposals \cup {Nil},
     preparationPayloads : SUBSET Validators,
     changeViewPayloads : SUBSET [from : Validators, view : Views],
     preCommitPayloads : SUBSET [from : Validators, sign : Headers],
     commitPayloads : SUBSET [from : Validators, sign : Headers]]

\* The payloads a recovery message can restore, and all payloads.
Restorable ==
    PrepareRequests \cup PrepareResponses \cup PreCommits \cup Commits
        \cup ChangeViews

Payloads == Restorable \cup RecoveryRequests \cup RecoveryMessages

Slots(S) == [Validators -> S \cup {Nil}]

ASSUME NilAssumption == Nil \notin Payloads \cup Proposals \cup Headers

NoPayloads == [i \in Validators |-> Nil]

\* Work left on the stack of a handler (module DbftHandlers).
WorkItems ==
    [op : {"replay"}, payloads : SUBSET Restorable]
        \cup [op : {"armTimer"}, view : Views]
        \cup [op : {"preparations", "commits"}, msg : RecoveryMessages]
        \cup [op : {"deleteMissing"}, index : Nat]

\* What a handler asks of the timer and of the clock, each call with the height
\* and the view it is made at: Reset with the delay of the place it is called
\* from, Extend by two or four shares of a block time, and the notes taken of
\* the time (lastBlockTime, prepareSentTime, the round-trip samples).
Resets == {"propose", "proposeAtOnce", "await", "request", "subscribe", "subscribeBackup",
           "forced", "resend", "changeView", "commit"}

CallNames ==
    Resets \cup {"extend2", "extend4", "reset", "checkPrepare", "prepareSent",
                 "prepareResponse"}

TimerCalls == [op : CallNames, height : Nat, view : Views]

Contexts ==
    [BlockIndex             : Nat,
     ViewNumber             : Views,
     PreparationPayloads    : Slots(PrepareRequests \cup PrepareResponses),
     PreCommitPayloads      : Slots(PreCommits),
     CommitPayloads         : Slots(Commits),
     ChangeViewPayloads     : Slots(ChangeViews),
     LastChangeViewPayloads : Slots(ChangeViews),
     LastSeenMessage        : [Validators -> Views \cup {-1}],
     proposal               : Proposals \cup {Nil},
     Transactions           : SUBSET Tx,
     MissingTransactions    : Seq(Tx),
     blockProcessed         : BOOLEAN,
     preBlockProcessed      : BOOLEAN,
     txSubscriptionOn       : BOOLEAN,
     cache                  : SUBSET Restorable,
     timer                  : [height : Nat, view : Views, armed : BOOLEAN],
     todo                   : Seq(WorkItems),
     panicked               : BOOLEAN,
     calls                  : Seq(TimerCalls),
     out                    : SUBSET Payloads]

-----------------------------------------------------------------------------
(* The context of a node before Start: no validators, so no message is      *)
(* accepted; BlockIndex 0 marks it.                                         *)

NewContext ==
    [BlockIndex             |-> 0,
     ViewNumber             |-> 0,
     PreparationPayloads    |-> NoPayloads,
     PreCommitPayloads      |-> NoPayloads,
     CommitPayloads         |-> NoPayloads,
     ChangeViewPayloads     |-> NoPayloads,
     LastChangeViewPayloads |-> NoPayloads,
     LastSeenMessage        |-> [i \in Validators |-> -1],
     proposal               |-> Nil,
     Transactions           |-> {},
     MissingTransactions    |-> <<>>,
     blockProcessed         |-> FALSE,
     preBlockProcessed      |-> FALSE,
     txSubscriptionOn       |-> FALSE,
     cache                  |-> {},
     timer                  |-> [height |-> 0, view |-> 0, armed |-> FALSE],
     todo                   |-> <<>>,
     panicked               |-> FALSE,
     calls                  |-> <<>>,
     out                    |-> {}]

-----------------------------------------------------------------------------
(* Roles.                                                                   *)

\* The remainder of Go's %, which takes the sign of the dividend.
GoRem(a, b) == IF a >= 0 THEN a % b ELSE -((-a) % b)

GetPrimaryIndex(height, view) ==
    LET p == GoRem(height - view, N) IN IF p >= 0 THEN p ELSE p + N

PrimaryIndex(d) == GetPrimaryIndex(d.BlockIndex, d.ViewNumber)

IsPrimary(r, d) == r = PrimaryIndex(d)

IsBackup(r, d) == r \in Validators /\ ~IsPrimary(r, d)

WatchOnly(r) == r \in Observers \cup WatchOnlyFlag

isAntiMEVExtensionEnabled(d) ==
    /\ AntiMEVExtensionEnablingHeight >= 0
    /\ AntiMEVExtensionEnablingHeight <= d.BlockIndex

-----------------------------------------------------------------------------
(* What the node has seen and sent.                                         *)

Committed(d) ==
    {i \in Validators : d.CommitPayloads[i] # Nil \/ d.PreCommitPayloads[i] # Nil}

CountCommitted(d) == Cardinality(Committed(d))

\* LastSeenMessage holds -1 for nil.  Its Height is always BlockIndex: the
\* array is cleared when the height changes.
CountFailed(d) ==
    Cardinality({i \in Validators \ Committed(d) :
                    d.LastSeenMessage[i] < d.ViewNumber})

MoreThanFNodesCommittedOrLost(d) == CountCommitted(d) + CountFailed(d) > F

RequestSentOrReceived(d) == d.PreparationPayloads[PrimaryIndex(d)] # Nil

ResponseSent(r, d) == ~WatchOnly(r) /\ d.PreparationPayloads[r] # Nil

PreCommitSent(r, d) == ~WatchOnly(r) /\ d.PreCommitPayloads[r] # Nil

CommitSent(r, d) == ~WatchOnly(r) /\ d.CommitPayloads[r] # Nil

BlockSent(d) == d.blockProcessed

ViewChanging(r, d) ==
    /\ ~WatchOnly(r)
    /\ d.ChangeViewPayloads[r] # Nil
    /\ d.ChangeViewPayloads[r].newView > d.ViewNumber

\* Mutant: a node that asks for a view change is deaf whatever the others do.
DeafWhileViewChanging(r, d) == ViewChanging(r, d)

NotAcceptingPayloadsDueToViewChanging(r, d) ==
    ViewChanging(r, d) /\ ~MoreThanFNodesCommittedOrLost(d)

-----------------------------------------------------------------------------
(* The proposal and the blocks built from it.                               *)

TransactionHashes(d) == IF d.proposal = Nil THEN <<>> ELSE TxOf[d.proposal]

hasAllTransactions(d) == Len(TransactionHashes(d)) = Cardinality(d.Transactions)

MakePreHeader(d) ==
    IF RequestSentOrReceived(d)
    THEN [view |-> d.ViewNumber, proposal |-> d.proposal]
    ELSE Nil

\* The header needs a processed PreBlock when the anti-MEV extension is on.
MakeHeader(d) ==
    IF isAntiMEVExtensionEnabled(d) /\ ~d.preBlockProcessed
    THEN Nil
    ELSE MakePreHeader(d)

-----------------------------------------------------------------------------
(* reset(view, ts): `height` is CurrentHeight() + 1, read for view 0 only.  *)

reset(r, d, view, height) ==
    [d EXCEPT
        !.BlockIndex = IF view = 0 THEN height ELSE d.BlockIndex,
        !.ViewNumber = view,
        !.LastChangeViewPayloads =
            [i \in Validators |->
                IF /\ view # 0
                   /\ d.ChangeViewPayloads[i] # Nil
                   /\ d.ChangeViewPayloads[i].newView >= view
                THEN d.ChangeViewPayloads[i]
                ELSE Nil],
        !.LastSeenMessage =
            [i \in Validators |->
                IF i = r THEN view
                ELSE IF view = 0 THEN -1 ELSE d.LastSeenMessage[i]],
        !.blockProcessed = view # 0 /\ d.blockProcessed,
        !.preBlockProcessed = view # 0 /\ d.preBlockProcessed,
        !.ChangeViewPayloads = NoPayloads,
        !.PreparationPayloads = NoPayloads,
        !.PreCommitPayloads = IF view = 0 THEN NoPayloads ELSE d.PreCommitPayloads,
        !.CommitPayloads = IF view = 0 THEN NoPayloads ELSE d.CommitPayloads,
        !.proposal = Nil,
        !.Transactions = {},
        !.MissingTransactions = <<>>,
        !.txSubscriptionOn = FALSE]

-----------------------------------------------------------------------------
(* The cache of payloads from future heights and views: a set with at most  *)
(* one payload per slot, a slot being a height, an inbox map and a sender.  *)

InboxOf(type) ==
    IF type \in {"PrepareRequest", "PrepareResponse"} THEN "prepare" ELSE type

SameSlot(m1, m2) ==
    /\ m1.height = m2.height
    /\ m1.from = m2.from
    /\ InboxOf(m1.type) = InboxOf(m2.type)

\* Mutant: recovery requests and messages are cached too.
addAnyMessage(d, m) ==
    [d EXCEPT !.cache = {x \in d.cache : ~SameSlot(x, m)} \cup {m}]

addMessage(d, m) ==
    IF m.type \in {"RecoveryRequest", "RecoveryMessage"}
    THEN d
    ELSE [d EXCEPT !.cache = {x \in d.cache : ~SameSlot(x, m)} \cup {m}]

\* getHeight(h), and the removal it makes.
getHeight(d, h) == {m \in d.cache : m.height = h}

=============================================================================
