--------------------------- MODULE DbftProperties ---------------------------
(***************************************************************************)
(* What a network of dBFT nodes promises, and what the handlers promise of *)
(* a single node whatever the others send.                                 *)
(***************************************************************************)
EXTENDS Dbft

\* Validators that follow the protocol throughout: they run the library, take
\* part, and keep their context.
Correct == Validators \ (Byzantine \cup WatchOnlyFlag \cup Restartable)

\* The types of the variables: the fields of every context (context.go), the
\* payloads on the network and the ledgers.
TypeOK ==
    /\ ctx \in [Running -> Contexts]
    /\ \A r \in Running : ctx[r].out = {} /\ ctx[r].calls = <<>>
    /\ msgs \in SUBSET Payloads
    /\ ledger \in [Running -> Seq(Headers)]

-----------------------------------------------------------------------------
(* Safety of the protocol.                                                  *)

\* A correct validator signs at most one header per height, whatever views it
\* goes through and whatever the others send: "valid Commit payload can only
\* be sent once by a single node per the whole set of consensus epochs"
\* (context.go:75-77).
CommitOnce ==
    \A m1, m2 \in msgs :
        /\ m1.type = "Commit" /\ m2.type = "Commit"
        /\ m1.from \in Correct /\ m1.from = m2.from
        /\ m1.height = m2.height
        => m1.sign = m2.sign

\* Once a correct validator has sent a Commit or a PreCommit it stays in its
\* view until the height changes and keeps its own payload, which is what its
\* recovery messages offer the others (PreCommitSent and CommitSent,
\* context.go:170-180).
CommitLocks ==
    [][\A r \in Correct :
        /\ CommitSent(r, ctx[r]) \/ PreCommitSent(r, ctx[r])
        /\ ctx'[r].BlockIndex = ctx[r].BlockIndex
        => /\ ctx'[r].ViewNumber = ctx[r].ViewNumber
           /\ CommitSent(r, ctx[r]) =>
                ctx'[r].CommitPayloads[r] = ctx[r].CommitPayloads[r]
           /\ PreCommitSent(r, ctx[r]) =>
                ctx'[r].PreCommitPayloads[r] = ctx[r].PreCommitPayloads[r]]_vars

\* A commit that a node holds of a correct validator, however it came to it
\* (from its sender, through a recovery message, through the cache), carries
\* a signature which that validator has made for this height: its view may be
\* that of the recovery message, its signature and its sender may not change
\* (GetCommits, onCommit).
CommitsGenuine ==
    \A r \in Running : \A i \in Correct :
        ctx[r].CommitPayloads[i] # Nil =>
            \E m \in msgs :
                /\ m.type = "Commit" /\ m.from = i
                /\ m.height = ctx[r].BlockIndex
                /\ m.sign = ctx[r].CommitPayloads[i].sign

\* No two nodes accept different blocks at one height (ProcessBlock, called by
\* checkCommit).
Agreement ==
    \A r, s \in Running :
        \A h \in DOMAIN ledger[r] \cap DOMAIN ledger[s] :
            ledger[r][h] = ledger[s][h]

\* The ledgers of the nodes implement the abstract chain of module Chain: a
\* step of the protocol adds at most one block to one ledger, the one that the
\* others have at that height (checkCommit, Reset).
AbstractChain ==
    INSTANCE Chain WITH Members <- Running, chain <- ledger,
                        Blocks <- Headers

ImplementsChain == AbstractChain!Spec

\* A correct validator backs at most one proposal per height and view, be it
\* by its PrepareRequest or its PrepareResponse: a primary that sends two
\* requests does not get both prepared (onPrepareRequest, sendPrepareRequest).
PrepareOnce ==
    \A m1, m2 \in msgs :
        /\ {m1.type, m2.type} \subseteq {"PrepareRequest", "PrepareResponse"}
        /\ m1.from \in Correct /\ m1.from = m2.from
        /\ m1.height = m2.height /\ m1.view = m2.view
        => m1.proposal = m2.proposal

\* The header may gather the signatures of M validators: those that do not
\* follow the protocol sign whatever they like.
Signed(A, type, i, h, s) ==
    \E m \in A : m.type = type /\ m.from = i /\ m.height = h /\ m.sign = s

Certifiable(h, s) ==
    Cardinality({i \in Validators : i \in Correct => Signed(msgs, "Commit", i, h, s)}) >= M

\* At one height no two headers can both gather M signatures, whatever the
\* views they are of: a ledger that checks the signatures of a block takes the
\* one block that any other such ledger takes (sendCommit, context.go:75-77).
OneCertificate ==
    \A m1, m2 \in msgs :
        /\ m1.type = "Commit" /\ m2.type = "Commit"
        /\ m1.height = m2.height
        /\ Certifiable(m1.height, m1.sign) /\ Certifiable(m2.height, m2.sign)
        => m1.sign = m2.sign

\* A correct validator prepares, pre-commits or commits only what passes
\* VerifyPrepareRequest and Verify(Pre)Block, on each of the ways to a
\* response: the request itself, its replay, its last transaction.  Its own
\* proposals are its callbacks' affair.
PreparesVerified ==
    \A m \in msgs :
        /\ m.from \in Correct
        /\ m.type \in {"PrepareResponse", "PreCommit", "Commit"}
        => LET p == IF m.type = "PrepareResponse" THEN m.proposal ELSE m.sign.proposal
           IN  p \notin (Rejected \cup Invalid) \ Drafts

-----------------------------------------------------------------------------
(* Why a validator commits once: the inductive invariant of the proofs.     *)

\* What holds of the context of any node at any point of a handler: a stored
\* request comes with its proposal and sits in the slot of the primary, a
\* stored commit sits in the slot of its sender and is of this height, and a
\* processed block has a header.
Sane(d) ==
    /\ d \in Contexts
    /\ RequestSentOrReceived(d) => d.proposal \in Proposals
    /\ \A i \in Validators :
        /\ d.PreparationPayloads[i] # Nil
        /\ d.PreparationPayloads[i].type = "PrepareRequest"
        => i = PrimaryIndex(d)
    /\ \A i \in Validators :
        d.CommitPayloads[i] # Nil =>
            /\ d.CommitPayloads[i].from = i
            /\ d.CommitPayloads[i].height = d.BlockIndex
    /\ d.blockProcessed =>
        /\ RequestSentOrReceived(d)
        /\ isAntiMEVExtensionEnabled(d) => d.preBlockProcessed

\* The commits that node r has sent, S being what is on the network.
Sent(r, d, S) == {m \in S \cup d.out : m.type = "Commit" /\ m.from = r}

\* The node has not committed at its height.
Free(r, d, S) == \A m \in Sent(r, d, S) : m.height < d.BlockIndex

\* The node has committed at its height: it keeps its own commit, which no
\* later check drops, and the request that forbids it a change of view.
Bound(r, d, S) ==
    LET own == d.CommitPayloads[r]
    IN  /\ own # Nil
        /\ RequestSentOrReceived(d)
        /\ \A m \in Sent(r, d, S) :
            \/ m.height < d.BlockIndex
            \/ m.height = d.BlockIndex /\ m.sign = own.sign
        /\ isAntiMEVExtensionEnabled(d) /\ own.view = d.ViewNumber =>
            d.preBlockProcessed /\ own.sign = MakePreHeader(d)

Sworn(r, d, S) ==
    /\ Free(r, d, S) \/ Bound(r, d, S)
    /\ \A m1, m2 \in Sent(r, d, S) : m1.height = m2.height => m1.sign = m2.sign

\* Every context is sane, and a correct validator is bound by the commits it
\* has sent: it holds its own commit of this height, in the view of the request
\* it was made for, until the height changes (sendCommit, CommitSent).
CommitsBind ==
    /\ \A r \in Running : Sane(ctx[r])
    /\ \A r \in Correct : Sworn(r, ctx[r], msgs)

-----------------------------------------------------------------------------
(* Why a validator keeps to what it has sent: the rest of the inductive     *)
(* invariant.  A is what has been broadcast: the network and d.out.         *)

\* What a payload says of the (pre)commits of a correct validator, that
\* validator has signed for the same height.
Genuine(m, A) ==
    /\ m.type \in {"PreCommit", "Commit"} /\ m.from \in Correct =>
        Signed(A, m.type, m.from, m.height, m.sign)
    /\ m.type = "RecoveryMessage" =>
        /\ \A c \in m.preCommitPayloads :
            c.from \in Correct => Signed(A, "PreCommit", c.from, m.height, c.sign)
        /\ \A c \in m.commitPayloads :
            c.from \in Correct => Signed(A, "Commit", c.from, m.height, c.sign)

GenuineItem(item, A) ==
    /\ item.op = "replay" => \A m \in item.payloads : Genuine(m, A)
    /\ item.op \in {"preparations", "commits"} => Genuine(item.msg, A)

\* The payloads a node has stored, cached, broadcast or has yet to replay.
HoldsGenuine(d, A) ==
    /\ \A i \in Validators :
        /\ d.PreCommitPayloads[i] # Nil =>
            /\ d.PreCommitPayloads[i].from = i
            /\ d.PreCommitPayloads[i].height = d.BlockIndex
            /\ Genuine(d.PreCommitPayloads[i], A)
        /\ d.CommitPayloads[i] # Nil => Genuine(d.CommitPayloads[i], A)
    /\ \A m \in d.cache \cup d.out : Genuine(m, A)
    /\ \A item \in RangeOf(d.todo) : GenuineItem(item, A)

\* The preparation in the primary's slot is for the proposal, and without the
\* extension there are no PreCommits.
Tidy(d) ==
    /\ RequestSentOrReceived(d) =>
        d.PreparationPayloads[PrimaryIndex(d)].proposal = d.proposal
    /\ ~isAntiMEVExtensionEnabled(d) =>
        d.PreCommitPayloads = NoPayloads /\ ~d.preBlockProcessed

\* What a correct validator has prepared: in the view it is in, its proposal.
Prepared(r, A) ==
    {m \in A : m.type \in {"PrepareRequest", "PrepareResponse"} /\ m.from = r}

Consistent(r, d, A) ==
    /\ \A m \in Prepared(r, A) :
        \/ m.height < d.BlockIndex
        \/ m.height = d.BlockIndex /\ m.view < d.ViewNumber
        \/ /\ m.height = d.BlockIndex /\ m.view = d.ViewNumber
           /\ RequestSentOrReceived(d) /\ m.proposal = d.proposal
    /\ \A m1, m2 \in Prepared(r, A) :
        m1.height = m2.height /\ m1.view = m2.view => m1.proposal = m2.proposal

\* What a correct validator has pre-committed or committed to: its own payloads
\* are those it has sent, its PreCommit covers the proposal of its view, and no
\* Commit goes without its PreCommit.
Locked(r, d, A) ==
    /\ d.CommitPayloads[r] # Nil => d.CommitPayloads[r] \in A
    /\ d.PreCommitPayloads[r] # Nil =>
        /\ RequestSentOrReceived(d)
        /\ d.PreCommitPayloads[r]
            = PreCommitMsg(d.BlockIndex, d.ViewNumber, r, MakePreHeader(d))
        /\ d.PreCommitPayloads[r] \in A
    /\ \A m \in A :
        m.type = "PreCommit" /\ m.from = r =>
            \/ m.height < d.BlockIndex
            \/ m.height = d.BlockIndex /\ d.PreCommitPayloads[r] # Nil
    /\ \A m \in A :
        /\ m.type = "Commit" /\ m.from = r
        /\ 0 <= AntiMEVExtensionEnablingHeight
        /\ AntiMEVExtensionEnablingHeight <= m.height
        => PreCommitMsg(m.height, m.view, m.from, m.sign) \in A

\* No payload lies about the signatures of a correct validator, and a correct
\* validator holds in its context what it has prepared, pre-committed and
\* committed at its height (OnReceive, onRecoveryMessage, makePreCommit,
\* verifyPreCommitPayloadsAgainstPreBlock, checkPreCommit).
PromisesKept ==
    /\ \A m \in msgs : Genuine(m, msgs)
    /\ \A r \in Running : Tidy(ctx[r]) /\ HoldsGenuine(ctx[r], msgs)
    /\ \A r \in Correct : Consistent(r, ctx[r], msgs) /\ Locked(r, ctx[r], msgs)

-----------------------------------------------------------------------------
(* Why no two ledgers disagree in a network of correct validators: the rest *)
(* of the inductive invariant.                                              *)

\* Every validator runs the library, takes part, and keeps its context; it may
\* stop, and the nodes that only follow may restart.
Faultless == Correct = Validators

Preparations == {"PrepareRequest", "PrepareResponse"}

\* The validators that have prepared in a view, and those that have committed
\* in it or in an earlier one.
PreparedIn(A, h, v) ==
    {i \in Validators : \E m \in A :
        m.type \in Preparations /\ m.from = i /\ m.height = h /\ m.view = v}

CommittedBy(A, h, v) ==
    {i \in Validators : \E m \in A :
        m.type = "Commit" /\ m.from = i /\ m.height = h /\ m.view <= v}

\* The primary of the view has made the proposal.
Proposed(A, h, v, p) ==
    \E m \in A :
        /\ m.type \in Preparations /\ m.from = GetPrimaryIndex(h, v)
        /\ m.height = h /\ m.view = v /\ m.proposal = p

\* Somebody has committed in the view.
Reached(A, h, v) ==
    \E m \in A : m.type = "Commit" /\ m.height = h /\ m.view = v

\* The commit of validator i, which is given the view v, is of that view or has
\* been carried into it by a recovery message of a validator committed there.
Carried(A, i, h, v) == Reached(A, h, v) /\ i \in CommittedBy(A, h, v)

\* What makes a block of the view.
Decided(A, h, v) == Reached(A, h, v) /\ Cardinality(CommittedBy(A, h, v)) >= M

\* What a payload says of the preparations and commits of others is so.
Sincere(m, A) ==
    /\ m.type \in Preparations => m.from \in PreparedIn(A, m.height, m.view)
    /\ m.type = "PrepareRequest" /\ m.from = GetPrimaryIndex(m.height, m.view) =>
        Proposed(A, m.height, m.view, m.proposal)
    /\ m.type = "Commit" => Carried(A, m.from, m.height, m.view)
    /\ m.type = "RecoveryMessage" =>
        /\ m.prepareRequest # Nil => Proposed(A, m.height, m.view, m.prepareRequest)
        /\ m.preparationPayloads \subseteq PreparedIn(A, m.height, m.view)
        /\ \A c \in m.commitPayloads : Carried(A, c.from, m.height, m.view)

\* What a node at height h has yet to replay.
SincereItem(item, h, A) ==
    /\ item.op = "replay" => \A m \in item.payloads : Sincere(m, A)
    /\ item.op \in {"preparations", "commits"} =>
        item.msg.height = h /\ Sincere(item.msg, A)

\* The preparations in the slots are of the view of the node, its commits of
\* that view or an earlier one, and its own commit is of that view.
Grounded(r, d, A) ==
    /\ \A i \in Validators :
        /\ d.PreparationPayloads[i] # Nil =>
            /\ d.PreparationPayloads[i].from = i
            /\ d.PreparationPayloads[i].view = d.ViewNumber
            /\ i \in PreparedIn(A, d.BlockIndex, d.ViewNumber)
        /\ d.CommitPayloads[i] # Nil =>
            /\ d.CommitPayloads[i].view <= d.ViewNumber
            /\ Carried(A, i, d.BlockIndex, d.CommitPayloads[i].view)
    /\ r \in Validators /\ d.CommitPayloads[r] # Nil =>
        d.CommitPayloads[r].view = d.ViewNumber
    /\ RequestSentOrReceived(d) =>
        Proposed(A, d.BlockIndex, d.ViewNumber, d.proposal)
    /\ d.blockProcessed => Decided(A, d.BlockIndex, d.ViewNumber)
    /\ \A m \in d.cache : Sincere(m, A)
    /\ \A item \in RangeOf(d.todo) : SincereItem(item, d.BlockIndex, A)

\* A (pre)commit takes the preparations of M validators, and a validator
\* prepares in no later view than the one it commits in.
Orderly(A) ==
    /\ \A m \in A : Sincere(m, A)
    /\ \A m \in A :
        m.type \in {"PreCommit", "Commit"} =>
            Cardinality(PreparedIn(A, m.height, m.view)) >= M
    /\ \A c, m \in A :
        /\ c.type = "Commit" /\ m.type \in Preparations
        /\ m.from = c.from /\ m.height = c.height
        => m.view <= c.view

\* A block on a ledger has been proposed by the primary of its view, M
\* validators have prepared in that view, one of them has committed in it, and M
\* have committed in it or earlier (checkPrepare, checkCommit, GetCommits).
Certified ==
    /\ Orderly(msgs)
    /\ \A r \in Running :
        /\ Grounded(r, ctx[r], msgs)
        /\ \A h \in DOMAIN ledger[r] :
            /\ Proposed(msgs, h, ledger[r][h].view, ledger[r][h].proposal)
            /\ Decided(msgs, h, ledger[r][h].view)

-----------------------------------------------------------------------------
(* Why a correct validator backs nothing that fails the checks: the rest of *)
(* the inductive invariant, for PreparesVerified.                           *)

\* The proposals that fail a check of the backups and that no primary which
\* runs the library makes.
Unfit == (Rejected \cup Invalid) \ Drafts

\* No payload is a preparation of a correct validator for such a proposal, or
\* brings one: the responses in a recovery message are for the request in it.
Vouches(m) ==
    /\ m.type \in Preparations /\ m.from \in Correct => m.proposal \notin Unfit
    /\ m.type = "RecoveryMessage" /\ m.prepareRequest # Nil /\ m.prepareRequest \in Unfit =>
        /\ GetPrimaryIndex(m.height, m.view) \notin Correct
        /\ m.preparationPayloads \cap Correct = {}

\* No correct validator has (pre)committed to such a proposal.
Backed(m) ==
    m.type \in {"PreCommit", "Commit"} /\ m.from \in Correct => m.sign.proposal \notin Unfit

\* What a node at height h has yet to replay.
VouchesItem(item, h) ==
    /\ item.op = "replay" => \A m \in item.payloads : Vouches(m)
    /\ item.op = "preparations" => item.msg.height = h /\ Vouches(item.msg)

\* A stored request has passed VerifyPrepareRequest, and when its block does not
\* verify the node holds no preparation of a correct validator next to it.
Vetted(d) ==
    /\ RequestSentOrReceived(d) => d.proposal \notin Rejected \ Drafts
    /\ RequestSentOrReceived(d) /\ d.proposal \in Unfit =>
        /\ d.PreparationPayloads[PrimaryIndex(d)].type = "PrepareRequest"
        /\ \A i \in Correct : d.PreparationPayloads[i] = Nil
    /\ \A i \in Validators :
        d.PreparationPayloads[i] # Nil =>
            /\ d.PreparationPayloads[i].from = i
            /\ Vouches(d.PreparationPayloads[i])
    /\ \A m \in d.cache : Vouches(m)
    /\ \A item \in RangeOf(d.todo) : VouchesItem(item, d.BlockIndex)

\* In a network in which every set of M validators has a correct one, nothing
\* unfit gathers the preparations that a (pre)commit takes (onPrepareRequest,
\* sendPrepareResponse, checkPrepare).
Vouched ==
    /\ \A m \in msgs : Vouches(m) /\ Backed(m)
    /\ \A r \in Running : Vetted(ctx[r])

-----------------------------------------------------------------------------
(* Why no handler panics and no missing transaction is forgotten: the rest  *)
(* of the inductive invariant, for NoPanic and MissingListed.               *)

\* Proposals that pass VerifyPrepareRequest although their block does not verify.
Traps == Invalid \ Rejected

\* The proposal that a payload brings, and the validator it is of.
Brings(m) ==
    IF m.type = "PrepareRequest" THEN {m.proposal}
    ELSE IF m.type = "RecoveryMessage" THEN {m.prepareRequest} \ {Nil}
    ELSE {}

Proposer(m) ==
    IF m.type = "PrepareRequest" THEN m.from ELSE GetPrimaryIndex(m.height, m.view)

\* Nobody proposes a block that fails Verify(Pre)Block and is not rejected first.
NoTraps ==
    /\ Drafts \cap Invalid = {}
    /\ \A m \in Injected : Brings(m) \cap Traps = {}

\* No validator that runs the library and takes part loses its context.
NoAmnesia == Running \cap Validators \subseteq Correct \cup WatchOnlyFlag

\* No payload brings a trap, or a proposal that a correct validator has not made.
Offers(m, A) ==
    Brings(m) # {} =>
        /\ Brings(m) \cap Traps = {}
        /\ Proposer(m) \in Correct => Proposer(m) \in PreparedIn(A, m.height, m.view)

\* What a node at height h has yet to replay.
OffersItem(item, h, A) ==
    /\ item.op = "replay" => \A m \in item.payloads : Offers(m, A)
    /\ item.op = "preparations" => item.msg.height = h /\ Offers(item.msg, A)

\* The entry of MissingTransactions that OnTransaction is going to delete is
\* that of a transaction it has added.
Found(d, item) ==
    item.op = "deleteMissing" =>
        /\ item.index \in DOMAIN d.MissingTransactions
        /\ d.MissingTransactions[item.index] \in d.Transactions

\* The block of a stored proposal verifies, a correct primary has made it, and
\* the transactions the node lacks are listed; as long as no validator forgets
\* what it has sent the primary's preparation is its request.
Supplied(d, A) ==
    /\ RequestSentOrReceived(d) =>
        /\ d.proposal \notin Invalid
        /\ PrimaryIndex(d) \in Correct =>
            PrimaryIndex(d) \in PreparedIn(A, d.BlockIndex, d.ViewNumber)
    /\ RangeOf(TransactionHashes(d)) \ d.Transactions \subseteq RangeOf(d.MissingTransactions)
    /\ \A m \in d.cache : Offers(m, A)
    /\ \A item \in RangeOf(d.todo) : OffersItem(item, d.BlockIndex, A) /\ Found(d, item)
    /\ NoAmnesia =>
        /\ ~d.panicked
        /\ RequestSentOrReceived(d) =>
            d.PreparationPayloads[PrimaryIndex(d)].type = "PrepareRequest"

\* OnTransaction opens no view before it deletes its entry: nothing else is left
\* to do (onTransaction, addTransaction, deleteMissing).
Alone(d) ==
    \A i \in DOMAIN d.todo : d.todo[i].op = "deleteMissing" => Len(d.todo) = 1

\* In a network without traps the list of missing transactions is that of the
\* stored request (processMissingTx, reset, slices.Delete).
Stocked ==
    /\ \A m \in msgs : Offers(m, msgs)
    /\ \A r \in Running : Supplied(ctx[r], msgs) /\ Alone(ctx[r])

-----------------------------------------------------------------------------
(* What keeps a node going.                                                 *)

\* Between two calls a node that takes part and has not processed its block
\* has its timer armed for the height and the view it is in: no path through
\* the handlers leaves it without a timeout to come (onTimeout drops a tick
\* for another height or view).
TimerArmed ==
    Idle =>
        \A r \in Running :
            LET d == ctx[r]
            IN  /\ d.BlockIndex > 0 /\ ~WatchOnly(r)
                /\ ~d.blockProcessed /\ ~d.panicked
                => d.timer = [height |-> d.BlockIndex, view |-> d.ViewNumber,
                              armed |-> TRUE]

\* A transaction of the proposal that a backup lacks is one that OnTransaction
\* accepts: it is listed in MissingTransactions.
MissingListed ==
    Idle =>
        \A r \in Running :
            LET d == ctx[r]
            IN  IsBackup(r, d) /\ RequestSentOrReceived(d) =>
                    RangeOf(TransactionHashes(d)) \ d.Transactions
                        \subseteq RangeOf(d.MissingTransactions)

\* The ChangeViews that a node of view 1 or 2 packs in a recovery message are
\* enough to take an uncommitted node of a lower view there: M of them ask for
\* that view or a later one (makeRecoveryMessage, GetChangeViews), as long as
\* every validator asks for the view after its own.  A packed ChangeView is
\* restored with the view after the one it carries, which after a second recovery
\* is that of the first recovery message: from view 3 on this may be too little.
RecoverySuffices ==
    \A m \in RecoveriesOf(msgs) :
        m.from \notin Byzantine /\ m.view \in 1 .. 2 =>
            Cardinality({c \in GetChangeViews(m) : c.newView >= m.view}) >= M

\* Between two calls no payload of the height and the view a node is in waits
\* in its cache: what came too early has been replayed (initializeConsensus,
\* OnReceive), because nothing replays it later.
CacheReplayed ==
    Idle =>
        \A r \in Running : \A m \in ctx[r].cache :
            ~ (m.height = ctx[r].BlockIndex /\ m.view <= ctx[r].ViewNumber)

\* No handler panics: neither on a preparation of the primary that is not a
\* PrepareRequest (dbft.go:497) nor on deleting a missing transaction
\* (dbft.go:187).
NoPanic == \A r \in Running : ~ctx[r].panicked

\* The commits of the current view that a node keeps once it can build the
\* header are signatures of that header: "Invalid commit payloads are kicked
\* off this list immediately (if PrepareRequest was received for the current
\* round [...]) or stored till the corresponding PrepareRequest receiving"
\* (context.go:77-80), and updateExistingPayloads "validates payloads we may
\* have received before PrepareRequest" (dbft.go:412-413).
CommitsVerified ==
    Idle =>
        \A r \in Running : \A i \in Validators :
            LET m == ctx[r].CommitPayloads[i]
                header == MakeHeader(ctx[r])
            IN  m # Nil /\ header # Nil /\ m.view = ctx[r].ViewNumber
                => m.sign = header

\* With MaxTimePerBlock set, a primary of view 0 that has just opened a height
\* proposes an empty block only after it has waited with a subscription for
\* transactions (sendPrepareRequest, onTimeout); a node that starts does not
\* wait.
EmptyBlockWaits ==
    [][\A r \in Correct : \A m \in msgs' \ msgs :
        /\ Dynamic
        /\ m.type = "PrepareRequest" /\ m.from = r /\ m.view = 0
        /\ TxOf[m.proposal] = <<>>
        => ctx[r].BlockIndex = 0 \/ ctx[r].txSubscriptionOn]_vars

\* With the anti-MEV extension a correct validator commits only a block whose
\* PreBlock it has pre-committed itself, in the same view ("Require PreCommit
\* sent by self", check.go:89-93).
CommitAfterPreCommit ==
    \A m \in msgs :
        /\ m.type = "Commit" /\ m.from \in Correct
        /\ 0 <= AntiMEVExtensionEnablingHeight
        /\ AntiMEVExtensionEnablingHeight <= m.height
        => PreCommitMsg(m.height, m.view, m.from, m.sign) \in msgs

-----------------------------------------------------------------------------
(* Progress.                                                                *)

HasCommitted(i, h) ==
    \E m \in msgs : m.type = "Commit" /\ m.from = i /\ m.height = h

\* Once more than F correct validators have committed at a height, every node
\* that runs the library gets the block as long as no ChangeView gets through
\* (MaxView 0): also the nodes that have asked for a change of view meanwhile,
\* which MoreThanFNodesCommittedOrLost makes listen to the view again, and the
\* ones that receive the commits before the request or the responses.
CommittedLeadsToBlock ==
    \A h \in 1 .. MaxHeight :
        Cardinality({i \in Correct : HasCommitted(i, h)}) > F
            ~> \A r \in Running : Len(ledger[r]) >= h

=============================================================================
