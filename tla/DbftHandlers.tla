---------------------------- MODULE DbftHandlers ----------------------------
(***************************************************************************)
(* The handlers of one node: send.go, check.go and dbft.go, and the        *)
(* recovery message of internal/consensus/recovery_message.go they pack    *)
(* and unpack.  Every operator takes the node r and its context d and      *)
(* returns the context after the call; what the call broadcasts is added   *)
(* to d.out, what it asks of the timer is appended to d.calls.             *)
(*                                                                         *)
(* e holds what the callbacks return during the handler:                   *)
(*   e.avail       the transactions Config.GetTx finds                     *)
(*   e.fill        what GetVerified, the clock and the nonce make of Fill, *)
(*   e.refill      and of the second attempt to fill                       *)
(*   e.preBlockOK  TRUE iff ProcessPreBlock returns no error               *)
(*   e.blockOK     TRUE iff ProcessBlock returns no error                  *)
(* The times themselves (lastBlockTime, the rtt estimates) are in Pacing;  *)
(* the reason of a ChangeView, which is only logged, is left out.          *)
(*                                                                         *)
(* OnReceive is reentrant: initializeConsensus replays the cache and       *)
(* onRecoveryMessage replays its contents through it, and both continue    *)
(* afterwards.  d.todo is the stack of what remains to be done, innermost  *)
(* first; module Dbft runs it to the end before any other event.           *)
(***************************************************************************)
EXTENDS DbftContext

RangeOf(s) == {s[i] : i \in DOMAIN s}

\* The entries of s at the positions I, in their order: SelectSeq without a
\* recursion, so that it can be reasoned about.
EntriesAt(s, I) ==
    [k \in 1 .. Cardinality(I) |->
        s[CHOOSE i \in I : Cardinality({j \in I : j <= i}) = k]]

Broadcast(d, m) == [d EXCEPT !.out = d.out \cup {m}]

Call(d, op) ==
    [d EXCEPT !.calls = Append(d.calls, [op |-> op, height |-> d.BlockIndex,
                                         view |-> d.ViewNumber])]

\* Mutant: a running timer keeps its view.
changeTimerKeepingView(d, op) ==
    [Call(d, op) EXCEPT !.timer = [height |-> d.BlockIndex, view |-> d.timer.view,
                                   armed |-> TRUE]]

\* Timer.Reset(BlockIndex, ViewNumber, delay), op naming the delay.
changeTimer(d, op) ==
    [Call(d, op) EXCEPT !.timer = [height |-> d.BlockIndex, view |-> d.ViewNumber,
                                   armed |-> TRUE]]

\* Timer.Extend moves the deadline of the timer, so here it changes nothing.
extendTimer(r, d, op) ==
    IF \/ CommitSent(r, d)
       \/ isAntiMEVExtensionEnabled(d) /\ PreCommitSent(r, d)
       \/ ViewChanging(r, d)
    THEN d
    ELSE Call(d, op)

Push(d, items) == [d EXCEPT !.todo = items \o d.todo]

\* A set of payloads to pass to OnReceive in any order: the order of the maps
\* of an inbox is random, that of the slices of a RecoveryMessage unspecified.
Replay(S) == [op |-> "replay", payloads |-> S]

-----------------------------------------------------------------------------
(* Recovery messages.                                                       *)

PayloadsOf(slots) == {slots[i] : i \in {j \in Validators : slots[j] # Nil}}

\* AddPayload drops the hashes of the responses and keeps the view of a
\* ChangeView instead of the view it asks for.
makeRecoveryMessage(r, d) ==
    LET preparations == PayloadsOf(d.PreparationPayloads)
        requests == {m \in preparations : m.type = "PrepareRequest"}
    IN  [type   |-> "RecoveryMessage",
         height |-> d.BlockIndex,
         view   |-> d.ViewNumber,
         from   |-> r,
         prepareRequest |->
            IF requests = {} THEN Nil ELSE (CHOOSE m \in requests : TRUE).proposal,
         preparationPayloads |-> {m.from : m \in preparations \ requests},
         changeViewPayloads |->
            {[from |-> m.from, view |-> m.view] :
                m \in PayloadsOf(d.LastChangeViewPayloads)},
         preCommitPayloads |->
            IF PreCommitSent(r, d)
            THEN {[from |-> m.from, sign |-> m.sign] :
                    m \in PayloadsOf(d.PreCommitPayloads)}
            ELSE {},
         commitPayloads |->
            IF CommitSent(r, d)
            THEN {[from |-> m.from, sign |-> m.sign] :
                    m \in PayloadsOf(d.CommitPayloads)}
            ELSE {}]

\* The payloads rebuilt from a recovery message all get its view number.
GetPrepareRequest(msg, primary) ==
    IF msg.prepareRequest = Nil
    THEN {}
    ELSE {PrepareRequestMsg(msg.height, msg.view, primary, msg.prepareRequest)}

GetPrepareResponses(msg) ==
    IF msg.prepareRequest = Nil
    THEN {}
    ELSE {PrepareResponseMsg(msg.height, msg.view, i, msg.prepareRequest) :
            i \in msg.preparationPayloads}

\* Mutant: the view of the ChangeView is taken for the one it asks for.
GetChangeViewsAsIs(msg) ==
    {ChangeViewMsg(msg.height, msg.view, c.from, c.view) :
        c \in msg.changeViewPayloads}

GetChangeViews(msg) ==
    {ChangeViewMsg(msg.height, msg.view, c.from, (c.view + 1) % ViewSize) :
        c \in msg.changeViewPayloads}

GetPreCommits(msg) ==
    {PreCommitMsg(msg.height, msg.view, c.from, c.sign) :
        c \in msg.preCommitPayloads}

GetCommits(msg) ==
    {CommitMsg(msg.height, msg.view, c.from, c.sign) : c \in msg.commitPayloads}

sendRecoveryMessage(r, d) == Broadcast(d, makeRecoveryMessage(r, d))

-----------------------------------------------------------------------------
(* check.go: commits.                                                       *)

\* Mutant: F + 1 commits make a block, and of every view.
checkFewCommits(d, e) ==
    IF /\ hasAllTransactions(d)
       /\ Cardinality({i \in Validators : d.CommitPayloads[i] # Nil}) > F
       /\ isAntiMEVExtensionEnabled(d) => e.blockOK
    THEN [d EXCEPT !.blockProcessed = TRUE]
    ELSE d

\* CreateBlock and ProcessBlock; the ledger takes the block in module Dbft.
checkCommit(d, e) ==
    LET count == Cardinality({i \in Validators :
                                /\ d.CommitPayloads[i] # Nil
                                /\ d.CommitPayloads[i].view = d.ViewNumber})
    IN  IF /\ hasAllTransactions(d)
           /\ count >= M
           /\ isAntiMEVExtensionEnabled(d) => e.blockOK
        THEN [d EXCEPT !.blockProcessed = TRUE]
        ELSE d

verifyCommitPayloadsAgainstHeader(d) ==
    LET header == MakeHeader(d)
        Bad(m) == m # Nil /\ m.view = d.ViewNumber /\ header # Nil /\ m.sign # header
    IN  [d EXCEPT !.CommitPayloads =
            [i \in Validators |->
                IF Bad(d.CommitPayloads[i]) THEN Nil ELSE d.CommitPayloads[i]]]

verifyPreCommitPayloadsAgainstPreBlock(d) ==
    LET preBlock == MakePreHeader(d)
        Bad(m) == m # Nil /\ m.view = d.ViewNumber /\ preBlock # Nil /\ m.sign # preBlock
    IN  IF hasAllTransactions(d)
        THEN [d EXCEPT !.PreCommitPayloads =
                [i \in Validators |->
                    IF Bad(d.PreCommitPayloads[i]) THEN Nil
                    ELSE d.PreCommitPayloads[i]]]
        ELSE d

makeCommit(r, d) ==
    IF d.CommitPayloads[r] # Nil
    THEN d.CommitPayloads[r]
    ELSE IF MakeHeader(d) # Nil
    THEN CommitMsg(d.BlockIndex, d.ViewNumber, r, MakeHeader(d))
    ELSE Nil

\* Mutant: the Commit is stored but not sent.
storeCommit(r, d) ==
    LET msg == makeCommit(r, d)
    IN  IF msg = Nil THEN d ELSE [d EXCEPT !.CommitPayloads[r] = msg]

\* Mutant: the Commit is sent but not stored.
sendCommitUnstored(r, d) ==
    LET msg == makeCommit(r, d)
    IN  IF msg = Nil THEN d ELSE Broadcast(d, msg)

sendCommit(r, d) ==
    LET msg == makeCommit(r, d)
    IN  IF msg = Nil
        THEN d
        ELSE Broadcast([d EXCEPT !.CommitPayloads[r] = msg], msg)

makePreCommit(r, d) ==
    IF d.PreCommitPayloads[r] # Nil
    THEN d.PreCommitPayloads[r]
    ELSE IF MakePreHeader(d) # Nil
    THEN PreCommitMsg(d.BlockIndex, d.ViewNumber, r, MakePreHeader(d))
    ELSE Nil

sendPreCommit(r, d) ==
    LET msg == makePreCommit(r, d)
    IN  IF msg = Nil
        THEN d
        ELSE Broadcast([d EXCEPT !.PreCommitPayloads[r] = msg], msg)

\* Mutant: the PreCommits of M validators are enough, whosever they are.
checkPreCommitOfOthers(r, d, e) ==
    LET count == Cardinality({i \in Validators :
                                /\ d.PreCommitPayloads[i] # Nil
                                /\ d.PreCommitPayloads[i].view = d.ViewNumber})
        processed == [d EXCEPT !.preBlockProcessed = TRUE]
    IN  IF \/ ~hasAllTransactions(d)
           \/ count < M
           \/ ~d.preBlockProcessed /\ ~e.preBlockOK
        THEN d
        ELSE checkCommit(
                changeTimer(sendCommit(r, verifyCommitPayloadsAgainstHeader(processed)),
                            "commit"),
                e)

checkPreCommit(r, d, e) ==
    LET count == Cardinality({i \in Validators :
                                /\ d.PreCommitPayloads[i] # Nil
                                /\ d.PreCommitPayloads[i].view = d.ViewNumber})
        processed == [d EXCEPT !.preBlockProcessed = TRUE]
    IN  IF \/ ~hasAllTransactions(d)
           \/ count < M
           \/ ~d.preBlockProcessed /\ ~e.preBlockOK
        THEN d
        ELSE IF PreCommitSent(r, d)
        THEN checkCommit(
                changeTimer(sendCommit(r, verifyCommitPayloadsAgainstHeader(processed)),
                            "commit"),
                e)
        ELSE processed

checkPrepare(r, d0, e) ==
    LET d == Call(d0, "checkPrepare")
        preparations == PayloadsOf(d.PreparationPayloads)
        count == Cardinality({m \in preparations : m.view = d.ViewNumber})
        hasRequest == \E m \in preparations : m.type = "PrepareRequest"
    IN  IF ~hasAllTransactions(d) \/ ~hasRequest \/ count < M
        THEN d
        ELSE IF isAntiMEVExtensionEnabled(d)
        THEN checkPreCommit(r, changeTimer(sendPreCommit(r, d), "commit"), e)
        ELSE checkCommit(changeTimer(sendCommit(r, d), "commit"), e)

-----------------------------------------------------------------------------
(* Opening a height or a view.                                              *)

\* Mutant: only a backup sets its timer.
armBackupTimer(r, d, view) ==
    IF IsBackup(r, d) /\ ~WatchOnly(r) THEN changeTimer(d, "await") ELSE d

\* `recovering`: onRecoveryMessage has replays left to make.
recovering(d) == \E i \in DOMAIN d.todo : d.todo[i].op \in {"preparations", "commits"}

\* The end of initializeConsensus(view): a node that takes part sets its timer.
\* A primary looks at the view of the call, which is not its view when what the
\* call has replayed opened a later one.
armTimer(r, d, view) ==
    IF WatchOnly(r)
    THEN d
    ELSE changeTimer(d, IF ~IsPrimary(r, d) \/ recovering(d) THEN "await"
                        ELSE IF view = 0 THEN "propose" ELSE "proposeAtOnce")

\* Mutant: the inbox is read but stays in the cache.
initializeKeepingInbox(r, d, view, height) ==
    LET d1 == Call(reset(r, d, view, height), "reset")
        inbox == getHeight(d1, d1.BlockIndex)
        Mail(kind) == Replay({m \in inbox : InboxOf(m.type) = kind})
    IN  Push(d1, <<Mail("prepare"), Mail("ChangeView"), Mail("PreCommit"),
                   Mail("Commit"), [op |-> "armTimer", view |-> view]>>)

initializeConsensus(r, d, view, height) ==
    LET d1 == Call(reset(r, d, view, height), "reset")
        inbox == getHeight(d1, d1.BlockIndex)
        Mail(kind) == Replay({m \in inbox : InboxOf(m.type) = kind})
    IN  IF inbox = {}
        THEN armTimer(r, d1, view)
        ELSE Push([d1 EXCEPT !.cache = d1.cache \ inbox],
                  <<Mail("prepare"), Mail("ChangeView"), Mail("PreCommit"),
                    Mail("Commit"), [op |-> "armTimer", view |-> view]>>)

makeChangeView(r, d) ==
    ChangeViewMsg(d.BlockIndex, d.ViewNumber, r, (d.ViewNumber + 1) % ViewSize)

\* makeChangeView also stores the payload it makes.
broadcastChangeView(r, d) ==
    Broadcast([d EXCEPT !.ChangeViewPayloads[r] = makeChangeView(r, d)],
              makeChangeView(r, d))

checkChangeView(r, d, view) ==
    LET count == Cardinality({i \in Validators :
                                /\ d.ChangeViewPayloads[i] # Nil
                                /\ d.ChangeViewPayloads[i].newView >= view})
        mine == IF WatchOnly(r) THEN Nil ELSE d.ChangeViewPayloads[r]
        agree == mine # Nil /\ mine.newView < view
    IN  IF d.ViewNumber >= view \/ count < M
        THEN d
        ELSE initializeConsensus(r, IF agree THEN broadcastChangeView(r, d) ELSE d,
                                 view, d.BlockIndex)

-----------------------------------------------------------------------------
(* send.go: preparations, view changes and recovery requests.               *)

processMissingTx(d, e) ==
    LET hashes == TransactionHashes(d)
        missing == {i \in DOMAIN hashes : hashes[i] \notin d.Transactions \cup e.avail}
    IN  [d EXCEPT
            !.MissingTransactions = d.MissingTransactions \o EntriesAt(hashes, missing),
            !.Transactions = d.Transactions \cup (RangeOf(hashes) \cap e.avail)]

sendRecoveryRequest(r, d, e) ==
    LET d1 == IF RequestSentOrReceived(d) /\ ~hasAllTransactions(d)
              THEN processMissingTx(d, e)
              ELSE d
    IN  Broadcast(d1, RecoveryRequestMsg(d1.BlockIndex, d1.ViewNumber, r))

sendChangeView(r, d, e, reason) ==
    LET d1 == changeTimer(d, "changeView")
    IN  IF WatchOnly(r)
        THEN d
        ELSE IF reason = "CVTimeout" /\ MoreThanFNodesCommittedOrLost(d)
        THEN sendRecoveryRequest(r, d1, e)
        ELSE checkChangeView(r, broadcastChangeView(r, d1),
                             (d.ViewNumber + 1) % ViewSize)

\* Mutant: an empty block is proposed at once.
AlwaysFill(p, force) == TRUE

\* Fill fails only when there is nothing to propose and time to wait.
CanFill(p, force) == ~Dynamic \/ force \/ TxOf[p] # <<>>

\* Subscribe for transactions and wait up to MaxTimePerBlock for one.
waitForTransactions(d, op) == changeTimer([d EXCEPT !.txSubscriptionOn = TRUE], op)

sendPrepareRequest(r, d, force, e) ==
    LET p == IF CanFill(e.fill, force) THEN e.fill ELSE e.refill
        msg == PrepareRequestMsg(d.BlockIndex, d.ViewNumber, r, p)
        filled == [d EXCEPT
                    !.proposal = p,
                    !.Transactions = d.Transactions \cup RangeOf(TxOf[p]),
                    !.txSubscriptionOn = FALSE,
                    !.PreparationPayloads[r] = msg]
    IN  IF CanFill(p, force)
        THEN checkPrepare(r,
                changeTimer(Call(Broadcast(filled, msg), "prepareSent"), "request"), e)
        ELSE waitForTransactions(d, "subscribe")

sendPrepareResponse(r, d) ==
    LET request == d.PreparationPayloads[PrimaryIndex(d)]
        msg == PrepareResponseMsg(d.BlockIndex, d.ViewNumber, r, request.proposal)
    IN  Broadcast([d EXCEPT !.PreparationPayloads[r] = msg], msg)

-----------------------------------------------------------------------------
(* dbft.go: preparations.                                                   *)

\* Mutant: every block is fine.
AnyBlock(d) == TRUE

\* createAndCheckBlock: Verify(Pre)Block of the (Pre)Block made of the
\* proposal, and the view change it asks for when that fails.
BlockVerified(d) == d.proposal \notin Invalid

rejectBlock(r, d, e) == sendChangeView(r, d, e, "CVTxInvalid")

updateExistingPayloads(d, msg) ==
    LET d1 == [d EXCEPT !.PreparationPayloads =
                [i \in Validators |->
                    IF /\ d.PreparationPayloads[i] # Nil
                       /\ d.PreparationPayloads[i].type = "PrepareResponse"
                       /\ d.PreparationPayloads[i].proposal # msg.proposal
                    THEN Nil
                    ELSE d.PreparationPayloads[i]]]
    IN  IF isAntiMEVExtensionEnabled(d)
        THEN verifyPreCommitPayloadsAgainstPreBlock(d1)
        ELSE verifyCommitPayloadsAgainstHeader(d1)

\* Mutant: the list is made before the proposal is stored.
acceptListingFirst(d, msg, e) ==
    LET d1 == [processMissingTx(d, e) EXCEPT !.proposal = msg.proposal]
    IN  [updateExistingPayloads(d1, msg) EXCEPT !.PreparationPayloads[msg.from] = msg]

\* The part of onPrepareRequest after its early returns; the payloads are
\* updated before the request is stored.
acceptPrepareRequest(d, msg, e) ==
    LET d1 == processMissingTx([d EXCEPT !.proposal = msg.proposal], e)
    IN  [updateExistingPayloads(d1, msg) EXCEPT !.PreparationPayloads[msg.from] = msg]

\* Mutant: a second request of the primary replaces the first.
ignoresLessRequests(d, msg) ==
    \/ d.ViewNumber # msg.view
    \/ msg.from # PrimaryIndex(d)

\* The early returns of onPrepareRequest.
ignoresRequest(d, msg) ==
    \/ RequestSentOrReceived(d)
    \/ d.ViewNumber # msg.view
    \/ msg.from # PrimaryIndex(d)

\* The end of onPrepareRequest: the answer to an accepted request.
respond(r, d, e) ==
    IF ~hasAllTransactions(d)
    THEN d
    ELSE IF ~BlockVerified(d)
    THEN rejectBlock(r, d, e)
    ELSE IF WatchOnly(r)
    THEN d
    ELSE checkPrepare(r, sendPrepareResponse(r, d), e)

onPrepareRequest(r, d, msg, e) ==
    IF ignoresRequest(d, msg)
    THEN d
    ELSE IF msg.proposal \in Rejected
    THEN sendChangeView(r, d, e, "CVBlockRejectedByPolicy")
    ELSE respond(r, acceptPrepareRequest(extendTimer(r, d, "extend2"), msg, e), e)

\* A panic ends the node: the one of slices.Delete does, and so does a response
\* of the primary in its own slot, at the type assertion of GetPrepareRequest
\* (consensus_message.go) with the payloads of internal/consensus, at DPanic of
\* onPrepareResponse with others and a development logger.  A production logger
\* only logs there, and onPrepareResponse returns.
panic(d) == [d EXCEPT !.panicked = TRUE, !.todo = <<>>]

\* The early returns of onPrepareResponse.
ignoresResponse(r, d, msg) ==
    \/ d.ViewNumber # msg.view
    \/ msg.from = PrimaryIndex(d)
    \/ d.PreparationPayloads[msg.from] # Nil
    \/ NotAcceptingPayloadsDueToViewChanging(r, d)
    \/ msg.from \in Refused

onPrepareResponse(r, d, msg, e) ==
    LET request == d.PreparationPayloads[PrimaryIndex(d)]
        d1 == [d EXCEPT !.PreparationPayloads[msg.from] = msg]
        heard == IF IsPrimary(r, d) /\ ~recovering(d) THEN Call(d1, "prepareResponse") ELSE d1
        extended == extendTimer(r, heard, "extend2")
    IN  IF ignoresResponse(r, d, msg)
        THEN d
        ELSE IF request = Nil
        THEN extended
        ELSE IF request.type # "PrepareRequest"
        THEN panic(d1)
        ELSE IF request.proposal # msg.proposal
        THEN d
        ELSE IF \/ WatchOnly(r)
                \/ CommitSent(r, d)
                \/ isAntiMEVExtensionEnabled(d) /\ PreCommitSent(r, d)
        THEN extended
        ELSE checkPrepare(r, extended, e)

-----------------------------------------------------------------------------
(* dbft.go: transactions.                                                   *)

addTransaction(r, d, tx, e) ==
    LET d1 == [d EXCEPT !.Transactions = d.Transactions \cup {tx}]
    IN  IF ~hasAllTransactions(d1) \/ IsPrimary(r, d1) \/ WatchOnly(r)
        THEN d1
        ELSE IF ~BlockVerified(d1)
        THEN rejectBlock(r, d1, e)
        ELSE checkPrepare(r,
                sendPrepareResponse(r,
                    extendTimer(r, verifyPreCommitPayloadsAgainstPreBlock(d1), "extend2")),
                e)

FirstIndex(s, x) == CHOOSE i \in DOMAIN s : s[i] = x /\ \A j \in 1 .. i - 1 : s[j] # x

onTransaction(r, d, tx, e) ==
    IF \/ ~IsBackup(r, d)
       \/ NotAcceptingPayloadsDueToViewChanging(r, d)
       \/ ~RequestSentOrReceived(d)
       \/ ResponseSent(r, d)
       \/ PreCommitSent(r, d)
       \/ CommitSent(r, d)
       \/ BlockSent(d)
       \/ tx \notin RangeOf(d.MissingTransactions)
    THEN d
    ELSE addTransaction(r,
            Push(d, <<[op |-> "deleteMissing",
                       index |-> FirstIndex(d.MissingTransactions, tx)]>>), tx, e)

\* Mutants: the list may have been cleared meanwhile; the next entry goes.
deleteUnchecked(d, i) ==
    LET s == d.MissingTransactions
    IN  IF i > Len(s)
        THEN panic(d)
        ELSE [d EXCEPT !.MissingTransactions =
                SubSeq(s, 1, i - 1) \o SubSeq(s, i + 1, Len(s))]

deleteNext(d, i) ==
    LET s == d.MissingTransactions
    IN  IF i > Len(s)
        THEN d
        ELSE [d EXCEPT !.MissingTransactions = SubSeq(s, 1, i) \o SubSeq(s, i + 2, Len(s))]

\* The end of OnTransaction: slices.Delete at the index found before.
deleteMissing(d, i) ==
    LET s == d.MissingTransactions
    IN  IF s = <<>>
        THEN d
        ELSE IF i > Len(s)
        THEN panic(d)
        ELSE [d EXCEPT !.MissingTransactions =
                SubSeq(s, 1, i - 1) \o SubSeq(s, i + 1, Len(s))]

-----------------------------------------------------------------------------
(* dbft.go: commits, view changes and recovery.                             *)

onPreCommit(r, d, msg, e) ==
    LET d1 == [d EXCEPT !.PreCommitPayloads[msg.from] = msg]
        extended == extendTimer(r, d1, "extend4")
        preBlock == MakePreHeader(d)
    IN  IF d.PreCommitPayloads[msg.from] # Nil
        THEN d
        ELSE IF d.ViewNumber # msg.view
        THEN d1
        ELSE IF msg.from \in Refused
        THEN d
        ELSE IF ~hasAllTransactions(d) \/ preBlock = Nil
        THEN extended
        ELSE IF msg.sign # preBlock
        THEN [extended EXCEPT !.PreCommitPayloads = d.PreCommitPayloads]
        ELSE checkPreCommit(r, extended, e)

onCommit(r, d, msg, e) ==
    LET d1 == [d EXCEPT !.CommitPayloads[msg.from] = msg]
        extended == extendTimer(r, d1, "extend4")
        header == MakeHeader(d)
    IN  IF d.CommitPayloads[msg.from] # Nil
        THEN d
        ELSE IF d.ViewNumber # msg.view
        THEN d1
        ELSE IF msg.from \in Refused
        THEN d
        ELSE IF header = Nil
        THEN extended
        ELSE IF msg.sign # header
        THEN [extended EXCEPT !.CommitPayloads = d.CommitPayloads]
        ELSE checkCommit(extended, e)

\* A node that has not committed answers only the F+1 validators before it.
Responds(r, from) == GoRem(r - from + N - 1, N) <= F

onRecoveryRequest(r, d, msg) ==
    IF \/ WatchOnly(r)
       \/ /\ ~CommitSent(r, d)
          /\ isAntiMEVExtensionEnabled(d) => ~PreCommitSent(r, d)
          /\ ~Responds(r, msg.from)
    THEN d
    ELSE sendRecoveryMessage(r, d)

\* Mutant: a node that has (pre)committed still counts ChangeViews.
onChangeViewUnlocked(r, d, msg) ==
    IF msg.newView <= d.ViewNumber
    THEN onRecoveryRequest(r, d, msg)
    ELSE checkChangeView(r, [d EXCEPT !.ChangeViewPayloads[msg.from] = msg], msg.newView)

onChangeView(r, d, msg) ==
    LET known == d.ChangeViewPayloads[msg.from]
    IN  IF msg.newView <= d.ViewNumber
        THEN onRecoveryRequest(r, d, msg)
        ELSE IF CommitSent(r, d) \/ PreCommitSent(r, d)
        THEN sendRecoveryMessage(r, d)
        ELSE IF known # Nil /\ msg.newView < known.newView
        THEN d
        ELSE checkChangeView(r, [d EXCEPT !.ChangeViewPayloads[msg.from] = msg],
                             msg.newView)

\* onRecoveryMessage replays in three stages; the second and the third look
\* at the context the earlier ones have left.
onRecoveryMessage(r, d, msg) ==
    LET stages == <<[op |-> "preparations", msg |-> msg], [op |-> "commits", msg |-> msg]>>
    IN  IF msg.view <= d.ViewNumber
        THEN Push(d, stages)
        ELSE IF CommitSent(r, d) \/ PreCommitSent(r, d)
        THEN d
        ELSE Push(d, <<Replay(GetChangeViews(msg))>> \o stages)

recoverPreparations(r, d, msg) ==
    LET request == IF RequestSentOrReceived(d)
                   THEN {}
                   ELSE GetPrepareRequest(msg, PrimaryIndex(d))
    IN  IF /\ msg.view = d.ViewNumber
           /\ ~NotAcceptingPayloadsDueToViewChanging(r, d)
           /\ ~CommitSent(r, d)
           /\ isAntiMEVExtensionEnabled(d) => ~PreCommitSent(r, d)
        THEN Push(d, <<Replay(request), Replay(GetPrepareResponses(msg))>>)
        ELSE d

recoverCommits(d, msg) ==
    IF msg.view <= d.ViewNumber
    THEN Push(d, <<Replay(GetPreCommits(msg)), Replay(GetCommits(msg))>>)
    ELSE d

-----------------------------------------------------------------------------
(* dbft.go: dispatch and timeouts.                                          *)

dispatch(r, d, msg, e) ==
    CASE msg.type = "ChangeView"      -> onChangeView(r, d, msg)
      [] msg.type = "PrepareRequest"  -> onPrepareRequest(r, d, msg, e)
      [] msg.type = "PrepareResponse" -> onPrepareResponse(r, d, msg, e)
      [] msg.type = "Commit"          -> onCommit(r, d, msg, e)
      [] msg.type = "PreCommit"       ->
            IF isAntiMEVExtensionEnabled(d) THEN onPreCommit(r, d, msg, e) ELSE d
      [] msg.type = "RecoveryRequest" -> onRecoveryRequest(r, d, msg)
      [] OTHER                        -> onRecoveryMessage(r, d, msg)

\* Mutant: a payload of an earlier height is taken for one of this height.
isForeign(d, msg) == d.BlockIndex = 0 \/ msg.from \notin Validators

\* Before Start there are no Validators and every index is too big.
isForeignOrOld(d, msg) ==
    \/ d.BlockIndex = 0
    \/ msg.from \notin Validators
    \/ msg.height < d.BlockIndex

OnReceive(r, d, msg, e) ==
    LET seen == [d EXCEPT !.LastSeenMessage[msg.from] =
                    IF d.LastSeenMessage[msg.from] < msg.view
                    THEN msg.view
                    ELSE d.LastSeenMessage[msg.from]]
    IN  IF isForeignOrOld(d, msg)
        THEN d
        ELSE IF \/ msg.height > d.BlockIndex
                \/ /\ msg.view > d.ViewNumber
                   /\ msg.type \notin {"ChangeView", "RecoveryMessage"}
        THEN addMessage(d, msg)
        ELSE IF BlockSent(d) /\ msg.type # "RecoveryRequest"
        THEN seen
        ELSE dispatch(r, seen, msg, e)

onTimeout(r, d, height, view, force, e) ==
    LET waits == d.ViewNumber = 0 /\ Dynamic /\ IsBackup(r, d)
    IN  IF \/ WatchOnly(r)
           \/ BlockSent(d)
           \/ height # d.BlockIndex
           \/ view # d.ViewNumber
        THEN d
        ELSE IF IsPrimary(r, d) /\ ~RequestSentOrReceived(d)
        THEN sendPrepareRequest(r, d, d.ViewNumber # 0 \/ d.txSubscriptionOn \/ force, e)
        ELSE IF CommitSent(r, d) \/ PreCommitSent(r, d)
        THEN changeTimer(sendRecoveryMessage(r, d), "resend")
        ELSE IF waits /\ force
        THEN [changeTimer(d, "forced") EXCEPT !.txSubscriptionOn = FALSE]
        ELSE IF waits /\ ~d.txSubscriptionOn /\ TxOf[e.fill] = <<>>
        THEN waitForTransactions(d, "subscribeBackup")
        ELSE sendChangeView(r, d, e, "CVTimeout")

=============================================================================
