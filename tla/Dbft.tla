-------------------------------- MODULE Dbft --------------------------------
(***************************************************************************)
(* A network of nodes that run the dBFT library.  The public operations of *)
(* the library (Start, Reset, OnReceive, OnTransaction, OnTimeout,         *)
(* OnNewTransaction) are the actions of a node; the network, the ledger of *)
(* every node and the faulty validators are its environment.               *)
(*                                                                         *)
(* msgs only grows and a payload of it may be delivered at any time, any   *)
(* number of times, or never: messages are delayed, reordered, duplicated  *)
(* and lost.  Calls of one node never overlap (the caller serialises       *)
(* them), so a started handler is run to its end: while some node has work *)
(* left in `todo` nothing else happens.  A handler touches its own node    *)
(* and adds to msgs, so no other interleaving reaches more states.         *)
(***************************************************************************)
EXTENDS DbftHandlers

CONSTANTS
    Byzantine,     \* validators that do not run the library
    Injected,      \* payloads the Byzantine validators may send
    Restartable,   \* nodes that may crash and start again with an empty context
    Drafts,        \* proposals the primaries that run the library may fill
    MaxHeight,     \* bound: no height above it is opened
    MaxView,       \* bound: a ChangeView for a view above it is lost
    MaxMissing,    \* bound on the length of MissingTransactions
    MaxRecoveries  \* bound on the RecoveryMessages that are not lost

ASSUME FaultAssumption ==
    /\ Byzantine \subseteq Validators
    /\ Injected \subseteq Payloads
    /\ \A m \in Injected : m.from \notin Validators \ Byzantine

ASSUME DraftsAssumption == Drafts \subseteq Proposals

VARIABLES
    ctx,      \* ctx[r] is the context of node r
    msgs,     \* every payload broadcast so far
    ledger    \* ledger[r] is the chain of node r, as a sequence of headers

vars == <<ctx, msgs, ledger>>

Running == Nodes \ Byzantine

Idle == \A r \in Running : ctx[r].todo = <<>>

Ready(r) == Idle /\ ctx[r].BlockIndex > 0 /\ ~ctx[r].panicked

\* What the callbacks may return during a handler; only the anti-MEV
\* extension goes on after an error of ProcessPreBlock or ProcessBlock.
Outcomes == IF AntiMEVExtensionEnablingHeight >= 0 THEN BOOLEAN ELSE {TRUE}

Callbacks == [avail : SUBSET Tx, preBlockOK : Outcomes, blockOK : Outcomes]

FillCallbacks ==
    [avail : SUBSET Tx, preBlockOK : Outcomes, blockOK : Outcomes,
     fill : Drafts, refill : Drafts]

Init ==
    /\ ctx = [r \in Running |-> NewContext]
    /\ msgs = {}
    /\ ledger = [r \in Running |-> <<>>]

\* A payload of msgs need never be delivered; a RecoveryMessage may also be
\* lost at once, and is when MaxRecoveries are on the network.
RecoveriesOf(S) == {m \in S : m.type = "RecoveryMessage"}

Send(S) ==
    \E lost \in SUBSET RecoveriesOf(S) :
        /\ msgs' = msgs \cup (S \ lost)
        /\ Cardinality(RecoveriesOf(msgs')) <= MaxRecoveries

\* The end of every step of node r: its context becomes d, its broadcasts
\* are on the network, and a block it has processed is on its ledger.
Becomes(r, d) ==
    /\ ctx' = [ctx EXCEPT ![r] = [d EXCEPT !.out = {}, !.calls = <<>>]]
    /\ Send(d.out)
    /\ ledger' = [ledger EXCEPT ![r] =
                    IF /\ d.blockProcessed /\ ~ctx[r].blockProcessed
                       /\ Len(@) = d.BlockIndex - 1
                    THEN Append(@, MakeHeader(d))
                    ELSE @]

-----------------------------------------------------------------------------
(* The operations of the library.                                           *)

\* initializeConsensus(0, ts) with a new, empty cache, then the request of
\* the primary.
Start(r) ==
    /\ Idle
    /\ ctx[r].BlockIndex = 0
    /\ Len(ledger[r]) < MaxHeight
    /\ \E e \in FillCallbacks :
        LET d == initializeConsensus(r, ctx[r], 0, Len(ledger[r]) + 1)
        IN  Becomes(r, IF IsPrimary(r, d)
                       THEN sendPrepareRequest(r, d, TRUE, e)
                       ELSE d)

\* Called after the ledger has taken the block of the current height.
Reset(r) ==
    /\ Ready(r)
    /\ Len(ledger[r]) >= ctx[r].BlockIndex
    /\ Len(ledger[r]) < MaxHeight
    /\ Becomes(r, initializeConsensus(r, ctx[r], 0, Len(ledger[r]) + 1))

Beyond(m) == m.type = "ChangeView" /\ m.newView > MaxView

\* What a recovery message of a Byzantine validator says of the others is
\* protected by their witnesses: it only holds payloads they have sent.
Authentic(m) ==
    m.type = "RecoveryMessage" =>
        /\ m.prepareRequest # Nil =>
            LET i == GetPrimaryIndex(m.height, m.view)
            IN  \/ i \in Byzantine
                \/ PrepareRequestMsg(m.height, m.view, i, m.prepareRequest) \in msgs
        /\ \A i \in m.preparationPayloads :
            \/ i \in Byzantine
            \/ PrepareResponseMsg(m.height, m.view, i, m.prepareRequest) \in msgs
        /\ \A c \in m.changeViewPayloads :
            \/ c.from \in Byzantine
            \/ \E x \in msgs : /\ x.type = "ChangeView" /\ x.height = m.height
                               /\ x.from = c.from /\ x.view = c.view
        /\ \A c \in m.preCommitPayloads :
            \/ c.from \in Byzantine
            \/ \E x \in msgs : /\ x.type = "PreCommit" /\ x.height = m.height
                               /\ x.from = c.from /\ x.sign = c.sign
        /\ \A c \in m.commitPayloads :
            \/ c.from \in Byzantine
            \/ \E x \in msgs : /\ x.type = "Commit" /\ x.height = m.height
                               /\ x.from = c.from /\ x.sign = c.sign

Deliver(r, m) ==
    /\ Ready(r)
    /\ ~Beyond(m)
    /\ m \in msgs \/ Authentic(m)
    /\ \E e \in Callbacks : Becomes(r, OnReceive(r, ctx[r], m, e))

OnTransaction(r, tx) ==
    /\ Ready(r)
    /\ \E e \in Callbacks : Becomes(r, onTransaction(r, ctx[r], tx, e))

\* The caller takes the tick of the timer and passes its height and view.
OnTimeout(r) ==
    /\ Ready(r)
    /\ ctx[r].timer.armed
    /\ \E e \in FillCallbacks :
        LET d == onTimeout(r, [ctx[r] EXCEPT !.timer.armed = FALSE],
                           ctx[r].timer.height, ctx[r].timer.view, FALSE, e)
        IN  /\ Len(d.MissingTransactions) <= MaxMissing
            /\ Becomes(r, d)

OnNewTransaction(r) ==
    /\ Ready(r)
    /\ ctx[r].txSubscriptionOn
    /\ \E e \in FillCallbacks :
        LET d == onTimeout(r, ctx[r], ctx[r].timer.height, ctx[r].timer.view, TRUE, e)
        IN  /\ Len(d.MissingTransactions) <= MaxMissing
            /\ Becomes(r, d)

-----------------------------------------------------------------------------
(* The rest of a handler: the work left on the stack of node r.             *)

Pending(r, op) == ctx[r].todo # <<>> /\ Head(ctx[r].todo).op = op

Pop(d) == [d EXCEPT !.todo = Tail(d.todo)]

ContinueReplay(r) ==
    /\ Pending(r, "replay")
    /\ LET item == Head(ctx[r].todo)
           d == Pop(ctx[r])
       IN  \/ /\ item.payloads = {}
              /\ Becomes(r, d)
           \/ \E m \in item.payloads, e \in Callbacks :
                LET rest == [item EXCEPT !.payloads = item.payloads \ {m}]
                    d1 == Push(d, <<rest>>)
                IN  Becomes(r, IF Beyond(m) THEN d1 ELSE OnReceive(r, d1, m, e))

ContinueArmTimer(r) ==
    /\ Pending(r, "armTimer")
    /\ Becomes(r, armTimer(r, Pop(ctx[r]), Head(ctx[r].todo).view))

ContinuePreparations(r) ==
    /\ Pending(r, "preparations")
    /\ Becomes(r, recoverPreparations(r, Pop(ctx[r]), Head(ctx[r].todo).msg))

ContinueCommits(r) ==
    /\ Pending(r, "commits")
    /\ Becomes(r, recoverCommits(Pop(ctx[r]), Head(ctx[r].todo).msg))

ContinueDeleteMissing(r) ==
    /\ Pending(r, "deleteMissing")
    /\ Becomes(r, deleteMissing(Pop(ctx[r]), Head(ctx[r].todo).index))

-----------------------------------------------------------------------------
(* The environment.                                                         *)

\* The ledger of r takes the next block from another node's ledger.
SyncBlock(r) ==
    /\ Idle
    /\ \E s \in Running :
        /\ Len(ledger[s]) > Len(ledger[r])
        /\ ledger' = [ledger EXCEPT ![r] = Append(@, ledger[s][Len(@) + 1])]
    /\ UNCHANGED <<ctx, msgs>>

\* The process stops; its consensus state is not persisted, its ledger is.
Crash(r) ==
    /\ Idle
    /\ r \in Restartable
    /\ ctx[r].BlockIndex > 0
    /\ ctx' = [ctx EXCEPT ![r] = NewContext]
    /\ UNCHANGED <<msgs, ledger>>

Continue(r) ==
    \/ ContinueReplay(r)
    \/ ContinueArmTimer(r)
    \/ ContinuePreparations(r)
    \/ ContinueCommits(r)
    \/ ContinueDeleteMissing(r)

Next ==
    \E r \in Running :
        \/ Start(r)
        \/ Reset(r)
        \/ \E m \in msgs \cup Injected : Deliver(r, m)
        \/ \E tx \in Tx : OnTransaction(r, tx)
        \/ OnTimeout(r)
        \/ OnNewTransaction(r)
        \/ Continue(r)
        \/ SyncBlock(r)
        \/ Crash(r)

Spec == Init /\ [][Next]_vars

Useful(r, m) ==
    /\ ~Beyond(m)
    /\ \E e \in Callbacks :
        [OnReceive(r, ctx[r], m, e) EXCEPT !.out = {}, !.calls = <<>>] # ctx[r]

\* Weak fairness, with the states in which an action is enabled and changes
\* something spelled out: a started handler ends, every node starts, and while
\* some payload on the network would make a difference to a node, one is
\* delivered to it.  Timeouts, ledger synchronisation and crashes need not
\* happen.
Fairness ==
    \A r \in Running :
        /\ []<>(ctx[r].todo = <<>>) \/ []<><<Continue(r)>>_vars
        /\ \/ []<>(~Idle \/ ctx[r].BlockIndex > 0 \/ Len(ledger[r]) >= MaxHeight)
           \/ []<><<Start(r)>>_vars
        /\ \/ []<>(~Ready(r) \/ \A m \in msgs : ~Useful(r, m))
           \/ []<><<\E m \in msgs : Deliver(r, m)>>_vars

FairSpec == Spec /\ Fairness

=============================================================================
