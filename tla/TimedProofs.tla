----------------------------- MODULE TimedProofs -----------------------------
(***************************************************************************)
(* The network with clocks and channels does nothing that the network of   *)
(* module Dbft does not do, whatever the delays, the durations and the     *)
(* sizes of the channels: what is proved of Spec holds of TimedSpec.       *)
(***************************************************************************)
EXTENDS DbftProofs, TimedDbft

LEMMA NatMin ==
  ASSUME NEW T \in SUBSET Nat, T # {}
  PROVE  \E x \in T : \A y \in T : x <= y
<1> DEFINE R == OpToRel(<, Nat)
<1>1. IsWellFoundedOn(R, Nat)
  BY NatLessThanWellFounded
<1>2. \A x, y \in Nat : y < x => <<y, x>> \in R
  BY DEF OpToRel
<1> HIDE DEF R
<1>3. PICK x \in T : \A y \in T : ~ (<<y, x>> \in R)
  BY <1>1, WFMin
<1>4. \A y \in T : x \in Nat /\ y \in Nat /\ ~(y < x)
  BY <1>2, <1>3
<1>5. \A y \in T : x <= y
  BY <1>4
<1> QED
  BY <1>5

-----------------------------------------------------------------------------
(* What a handler asks of the timer.                                        *)

\* After the calls of a handler that began with the timer t, `timer` has the
\* height and the view of the last Reset among them.
Shows(t, calls, timer) ==
    \/ /\ \A i \in DOMAIN calls : calls[i].op \notin Resets
       /\ timer.height = t.height /\ timer.view = t.view
    \/ \E i \in DOMAIN calls :
        /\ calls[i].op \in Resets
        /\ \A j \in DOMAIN calls : j > i => calls[j].op \notin Resets
        /\ timer.height = calls[i].height /\ timer.view = calls[i].view

\* The context d is reached from c by calls that note what they do to the timer.
Noted(c, d) ==
    /\ DOMAIN d = Fields
    /\ \E T : d.calls \in Seq(T)
    /\ \A i \in DOMAIN d.calls : d.calls[i].op \in CallNames
    /\ IsFiniteSet(d.out)
    /\ Shows(c.timer, d.calls, d.timer)
    /\ c.panicked => d.panicked

LEMMA FieldNoted ==
  ASSUME NEW c, NEW d, Noted(c, d), NEW x
  PROVE  /\ Noted(c, [d EXCEPT !.PreparationPayloads = x])
         /\ Noted(c, [d EXCEPT !.PreCommitPayloads = x])
         /\ Noted(c, [d EXCEPT !.CommitPayloads = x])
         /\ Noted(c, [d EXCEPT !.ChangeViewPayloads = x])
         /\ Noted(c, [d EXCEPT !.LastSeenMessage = x])
         /\ Noted(c, [d EXCEPT !.proposal = x])
         /\ Noted(c, [d EXCEPT !.Transactions = x])
         /\ Noted(c, [d EXCEPT !.MissingTransactions = x])
         /\ Noted(c, [d EXCEPT !.blockProcessed = x])
         /\ Noted(c, [d EXCEPT !.preBlockProcessed = x])
         /\ Noted(c, [d EXCEPT !.txSubscriptionOn = x])
         /\ Noted(c, [d EXCEPT !.cache = x])
         /\ Noted(c, [d EXCEPT !.todo = x])
  BY DEF Noted, Fields

LEMMA BroadcastNoted ==
  ASSUME NEW c, NEW d, Noted(c, d), NEW m
  PROVE  Noted(c, Broadcast(d, m))
<1>1. IsFiniteSet(d.out \cup {m})
  BY FS_AddElement DEF Noted
<1> QED
  BY <1>1 DEF Broadcast, Noted, Fields

LEMMA PushNoted ==
  ASSUME NEW c, NEW d, Noted(c, d), NEW items
  PROVE  Noted(c, Push(d, items))
  BY FieldNoted DEF Push

LEMMA panicNoted ==
  ASSUME NEW c, NEW d, Noted(c, d)
  PROVE  Noted(c, panic(d))
  BY DEF panic, Noted, Fields

LEMMA CallShows ==
  ASSUME NEW t, NEW T, NEW calls \in Seq(T), NEW call, NEW timer
  PROVE  LET all == Append(calls, call)
         IN  /\ all \in Seq(T \cup {call})
             /\ DOMAIN all = DOMAIN calls \cup {Len(calls) + 1}
             /\ all[Len(calls) + 1] = call
             /\ \A i \in DOMAIN calls : all[i] = calls[i] /\ i < Len(calls) + 1
<1>1. /\ calls \in Seq(T \cup {call}) /\ call \in T \cup {call}
      /\ Len(calls) \in Nat /\ DOMAIN calls = 1 .. Len(calls)
  OBVIOUS
<1> QED
  BY <1>1

LEMMA CallNoted ==
  ASSUME NEW c, NEW d, Noted(c, d), NEW op \in CallNames \ Resets
  PROVE  Noted(c, Call(d, op))
<1> DEFINE call == [op |-> op, height |-> d.BlockIndex, view |-> d.ViewNumber]
           all == Append(d.calls, call)
<1>1. PICK T : d.calls \in Seq(T)
  BY DEF Noted
<1>2. call.op = op
  OBVIOUS
<1>3. Call(d, op) = [d EXCEPT !.calls = all]
  BY DEF Call
<1> HIDE DEF call
<1>4. /\ all \in Seq(T \cup {call})
      /\ DOMAIN all = DOMAIN d.calls \cup {Len(d.calls) + 1}
      /\ all[Len(d.calls) + 1] = call
      /\ \A i \in DOMAIN d.calls : all[i] = d.calls[i] /\ i < Len(d.calls) + 1
  BY <1>1, CallShows
<1> HIDE DEF all
<1>5. Shows(c.timer, all, d.timer)
  BY <1>2, <1>4 DEF Noted, Shows
<1>6. \A i \in DOMAIN all : all[i].op \in CallNames
  BY <1>2, <1>4 DEF Noted
<1> QED
  BY <1>3, <1>4, <1>5, <1>6 DEF Noted, Fields

LEMMA changeTimerNoted ==
  ASSUME NEW c, NEW d, Noted(c, d), NEW op \in Resets
  PROVE  Noted(c, changeTimer(d, op))
<1> DEFINE call == [op |-> op, height |-> d.BlockIndex, view |-> d.ViewNumber]
           all == Append(d.calls, call)
           timer == [height |-> d.BlockIndex, view |-> d.ViewNumber, armed |-> TRUE]
<1>1. PICK T : d.calls \in Seq(T) /\ Len(d.calls) \in Nat /\ DOMAIN d.calls = 1 .. Len(d.calls)
  BY DEF Noted
<1>2. /\ call.op = op /\ call.height = timer.height /\ call.view = timer.view
      /\ op \in CallNames
  BY DEF CallNames
<1>3. changeTimer(d, op) = [[d EXCEPT !.calls = all] EXCEPT !.timer = timer]
  BY DEF changeTimer, Call
<1> HIDE DEF call, timer
<1>4. /\ all \in Seq(T \cup {call})
      /\ DOMAIN all = DOMAIN d.calls \cup {Len(d.calls) + 1}
      /\ all[Len(d.calls) + 1] = call
      /\ \A i \in DOMAIN d.calls : all[i] = d.calls[i] /\ i < Len(d.calls) + 1
  BY <1>1, CallShows
<1> HIDE DEF all
<1>5. Shows(c.timer, all, timer)
  <2>1. \A j \in DOMAIN all : ~ (j > Len(d.calls) + 1)
    BY <1>1, <1>4
  <2> QED
    BY <1>2, <1>4, <2>1 DEF Shows
<1>6. \A i \in DOMAIN all : all[i].op \in CallNames
  BY <1>2, <1>4 DEF Noted
<1> QED
  BY <1>3, <1>4, <1>5, <1>6 DEF Noted, Fields

LEMMA OtherNames ==
  {"extend2", "extend4", "reset", "checkPrepare", "prepareSent", "prepareResponse"}
    \subseteq CallNames \ Resets
  BY DEF CallNames, Resets

LEMMA ResetNames ==
  {"propose", "proposeAtOnce", "await", "request", "subscribe", "subscribeBackup",
   "forced", "resend", "changeView", "commit"} \subseteq Resets
  BY DEF Resets

LEMMA extendTimerNoted ==
  ASSUME NEW c, NEW d, Noted(c, d), NEW r, NEW op \in {"extend2", "extend4"}
  PROVE  Noted(c, extendTimer(r, d, op))
  BY CallNoted, OtherNames DEF extendTimer

LEMMA waitForTransactionsNoted ==
  ASSUME NEW c, NEW d, Noted(c, d), NEW op \in Resets
  PROVE  Noted(c, waitForTransactions(d, op))
  BY FieldNoted, changeTimerNoted DEF waitForTransactions

LEMMA armTimerNoted ==
  ASSUME NEW c, NEW d, Noted(c, d), NEW r, NEW view
  PROVE  Noted(c, armTimer(r, d, view))
  BY changeTimerNoted, ResetNames DEF armTimer

-----------------------------------------------------------------------------
(* check.go and send.go.                                                    *)

LEMMA checkCommitNoted ==
  ASSUME NEW c, NEW d, Noted(c, d), NEW e
  PROVE  Noted(c, checkCommit(d, e))
  BY FieldNoted DEF checkCommit

LEMMA verifyNoted ==
  ASSUME NEW c, NEW d, Noted(c, d)
  PROVE  /\ Noted(c, verifyCommitPayloadsAgainstHeader(d))
         /\ Noted(c, verifyPreCommitPayloadsAgainstPreBlock(d))
  BY FieldNoted DEF verifyCommitPayloadsAgainstHeader, verifyPreCommitPayloadsAgainstPreBlock

LEMMA sendCommitNoted ==
  ASSUME NEW c, NEW d, Noted(c, d), NEW r
  PROVE  Noted(c, sendCommit(r, d)) /\ Noted(c, sendPreCommit(r, d))
<1>1. \A x : /\ Noted(c, [d EXCEPT !.CommitPayloads[r] = x])
             /\ Noted(c, [d EXCEPT !.PreCommitPayloads[r] = x])
  BY FieldNoted
<1> QED
  BY <1>1, BroadcastNoted DEF sendCommit, sendPreCommit

LEMMA checkPreCommitNoted ==
  ASSUME NEW c, NEW d, Noted(c, d), NEW r, NEW e
  PROVE  Noted(c, checkPreCommit(r, d, e))
<1> DEFINE d1 == [d EXCEPT !.preBlockProcessed = TRUE]
           d2 == changeTimer(sendCommit(r, verifyCommitPayloadsAgainstHeader(d1)), "commit")
<1>1. Noted(c, d1)
  BY FieldNoted
<1>2. checkPreCommit(r, d, e) \in {d, d1, checkCommit(d2, e)}
  BY DEF checkPreCommit
<1> HIDE DEF d1
<1>3. Noted(c, d2)
  BY <1>1, verifyNoted, sendCommitNoted, changeTimerNoted, ResetNames
<1> HIDE DEF d2
<1> QED
  BY <1>1, <1>2, <1>3, checkCommitNoted

LEMMA checkPrepareNoted ==
  ASSUME NEW c, NEW d, Noted(c, d), NEW r, NEW e
  PROVE  Noted(c, checkPrepare(r, d, e))
<1> DEFINE d1 == Call(d, "checkPrepare")
           d2 == changeTimer(sendPreCommit(r, d1), "commit")
           d3 == changeTimer(sendCommit(r, d1), "commit")
<1>1. Noted(c, d1)
  BY CallNoted, OtherNames
<1>2. checkPrepare(r, d, e) \in {d1, checkPreCommit(r, d2, e), checkCommit(d3, e)}
  BY DEF checkPrepare
<1> HIDE DEF d1
<1>3. Noted(c, d2) /\ Noted(c, d3)
  BY <1>1, sendCommitNoted, changeTimerNoted, ResetNames
<1> HIDE DEF d2, d3
<1> QED
  BY <1>1, <1>2, <1>3, checkPreCommitNoted, checkCommitNoted

LEMMA resetNoted ==
  ASSUME NEW c, NEW d, Noted(c, d), NEW r, NEW view, NEW height
  PROVE  Noted(c, reset(r, d, view, height))
  BY DEF reset, Noted, Fields

LEMMA initializeConsensusNoted ==
  ASSUME NEW c, NEW d, Noted(c, d), NEW r, NEW view, NEW height
  PROVE  Noted(c, initializeConsensus(r, d, view, height))
<1> DEFINE d1 == Call(reset(r, d, view, height), "reset")
           Cached(x) == [d1 EXCEPT !.cache = x]
<1>1. Noted(c, d1)
  BY resetNoted, CallNoted, OtherNames
<1>2. \/ initializeConsensus(r, d, view, height) = armTimer(r, d1, view)
      \/ \E x, items : initializeConsensus(r, d, view, height) = Push(Cached(x), items)
  BY DEF initializeConsensus
<1> HIDE DEF d1
<1>3. \A x : Noted(c, Cached(x))
  BY <1>1, FieldNoted
<1>4. \A d2, items : Noted(c, d2) => Noted(c, Push(d2, items))
  BY PushNoted
<1>5. Noted(c, armTimer(r, d1, view))
  BY <1>1, armTimerNoted
<1> HIDE DEF Cached
<1> QED
  BY <1>2, <1>3, <1>4, <1>5

LEMMA broadcastChangeViewNoted ==
  ASSUME NEW c, NEW d, Noted(c, d), NEW r
  PROVE  Noted(c, broadcastChangeView(r, d))
<1>1. \A x : Noted(c, [d EXCEPT !.ChangeViewPayloads[r] = x])
  BY FieldNoted
<1> QED
  BY <1>1, BroadcastNoted DEF broadcastChangeView

LEMMA checkChangeViewNoted ==
  ASSUME NEW c, NEW d, Noted(c, d), NEW r, NEW view
  PROVE  Noted(c, checkChangeView(r, d, view))
<1>1. checkChangeView(r, d, view)
        \in {d, initializeConsensus(r, d, view, d.BlockIndex),
             initializeConsensus(r, broadcastChangeView(r, d), view, d.BlockIndex)}
  BY DEF checkChangeView
<1> QED
  BY <1>1, broadcastChangeViewNoted, initializeConsensusNoted

LEMMA processMissingTxNoted ==
  ASSUME NEW c, NEW d, Noted(c, d), NEW e
  PROVE  Noted(c, processMissingTx(d, e))
<1>1. \E x, y : processMissingTx(d, e)
                    = [d EXCEPT !.MissingTransactions = x, !.Transactions = y]
  BY DEF processMissingTx
<1> QED
  BY <1>1 DEF Noted, Fields

LEMMA sendRecoveryRequestNoted ==
  ASSUME NEW c, NEW d, Noted(c, d), NEW r, NEW e
  PROVE  Noted(c, sendRecoveryRequest(r, d, e))
  BY processMissingTxNoted, BroadcastNoted DEF sendRecoveryRequest

LEMMA sendChangeViewNoted ==
  ASSUME NEW c, NEW d, Noted(c, d), NEW r, NEW e, NEW reason
  PROVE  Noted(c, sendChangeView(r, d, e, reason))
<1> DEFINE d1 == changeTimer(d, "changeView")
           view == (d.ViewNumber + 1) % ViewSize
<1>1. Noted(c, d1)
  BY changeTimerNoted, ResetNames
<1>2. sendChangeView(r, d, e, reason)
        \in {d, sendRecoveryRequest(r, d1, e),
             checkChangeView(r, broadcastChangeView(r, d1), view)}
  BY DEF sendChangeView
<1> HIDE DEF d1, view
<1> QED
  BY <1>1, <1>2, sendRecoveryRequestNoted, broadcastChangeViewNoted, checkChangeViewNoted

LEMMA sendPrepareRequestNoted ==
  ASSUME NEW c, NEW d, Noted(c, d), NEW r, NEW force, NEW e
  PROVE  Noted(c, sendPrepareRequest(r, d, force, e))
<1> DEFINE Drafted(p, t, msg) == [d EXCEPT
                                    !.proposal = p,
                                    !.Transactions = t,
                                    !.txSubscriptionOn = FALSE,
                                    !.PreparationPayloads[r] = msg]
           Handed(d1, msg) ==
               checkPrepare(r, changeTimer(Call(Broadcast(d1, msg), "prepareSent"), "request"), e)
<1>1. \/ sendPrepareRequest(r, d, force, e) = waitForTransactions(d, "subscribe")
      \/ \E p, t, msg : sendPrepareRequest(r, d, force, e) = Handed(Drafted(p, t, msg), msg)
  BY DEF sendPrepareRequest
<1>2. \A p, t, msg : Noted(c, Drafted(p, t, msg))
  BY DEF Noted, Fields
<1>3. "prepareSent" \in CallNames \ Resets /\ "request" \in Resets /\ "subscribe" \in Resets
  BY OtherNames, ResetNames
<1>4. ASSUME NEW d1, Noted(c, d1), NEW msg
      PROVE  Noted(c, Handed(d1, msg))
  BY <1>3, <1>4, BroadcastNoted, CallNoted, changeTimerNoted, checkPrepareNoted
<1>5. Noted(c, waitForTransactions(d, "subscribe"))
  BY <1>3, waitForTransactionsNoted
<1> HIDE DEF Drafted, Handed
<1> QED
  BY <1>1, <1>2, <1>4, <1>5

LEMMA sendPrepareResponseNoted ==
  ASSUME NEW c, NEW d, Noted(c, d), NEW r
  PROVE  Noted(c, sendPrepareResponse(r, d))
<1>1. \A x : Noted(c, [d EXCEPT !.PreparationPayloads[r] = x])
  BY FieldNoted
<1> QED
  BY <1>1, BroadcastNoted DEF sendPrepareResponse

-----------------------------------------------------------------------------
(* dbft.go.                                                                 *)

LEMMA acceptPrepareRequestNoted ==
  ASSUME NEW c, NEW d, Noted(c, d), NEW msg, NEW e
  PROVE  Noted(c, acceptPrepareRequest(d, msg, e))
<1>1. Noted(c, processMissingTx([d EXCEPT !.proposal = msg.proposal], e))
  BY FieldNoted, processMissingTxNoted
<1>2. ASSUME NEW d1, Noted(c, d1)
      PROVE  Noted(c, updateExistingPayloads(d1, msg))
  BY <1>2, FieldNoted, verifyNoted DEF updateExistingPayloads
<1>3. ASSUME NEW d1, Noted(c, d1)
      PROVE  Noted(c, [d1 EXCEPT !.PreparationPayloads[msg.from] = msg])
  BY <1>3, FieldNoted
<1> QED
  BY <1>1, <1>2, <1>3 DEF acceptPrepareRequest

LEMMA respondNoted ==
  ASSUME NEW c, NEW d, Noted(c, d), NEW r, NEW e
  PROVE  Noted(c, respond(r, d, e))
  BY sendChangeViewNoted, sendPrepareResponseNoted, checkPrepareNoted DEF respond, rejectBlock

LEMMA onPrepareRequestNoted ==
  ASSUME NEW c, NEW d, Noted(c, d), NEW r, NEW msg, NEW e
  PROVE  Noted(c, onPrepareRequest(r, d, msg, e))
  BY extendTimerNoted, acceptPrepareRequestNoted, respondNoted, sendChangeViewNoted
     DEF onPrepareRequest

LEMMA onPrepareResponseNoted ==
  ASSUME NEW c, NEW d, Noted(c, d), NEW r, NEW msg, NEW e
  PROVE  Noted(c, onPrepareResponse(r, d, msg, e))
<1> DEFINE d1 == [d EXCEPT !.PreparationPayloads[msg.from] = msg]
           heard == IF IsPrimary(r, d) /\ ~recovering(d) THEN Call(d1, "prepareResponse") ELSE d1
           extended == extendTimer(r, heard, "extend2")
<1>1. Noted(c, d1)
  BY FieldNoted
<1>2. onPrepareResponse(r, d, msg, e) \in {d, extended, panic(d1), checkPrepare(r, extended, e)}
  BY DEF onPrepareResponse
<1> HIDE DEF d1
<1>3. Noted(c, heard)
  BY <1>1, CallNoted, OtherNames
<1> HIDE DEF heard
<1>4. Noted(c, extended)
  BY <1>3, extendTimerNoted
<1> HIDE DEF extended
<1> QED
  BY <1>1, <1>2, <1>4, panicNoted, checkPrepareNoted

LEMMA deleteMissingNoted ==
  ASSUME NEW c, NEW d, Noted(c, d), NEW i
  PROVE  Noted(c, deleteMissing(d, i))
  BY FieldNoted, panicNoted DEF deleteMissing

LEMMA onPreCommitNoted ==
  ASSUME NEW c, NEW d, Noted(c, d), NEW r, NEW msg, NEW e
  PROVE  Noted(c, onPreCommit(r, d, msg, e))
<1> DEFINE d1 == [d EXCEPT !.PreCommitPayloads[msg.from] = msg]
           d2 == extendTimer(r, d1, "extend4")
           d3 == [d2 EXCEPT !.PreCommitPayloads = d.PreCommitPayloads]
<1>1. Noted(c, d1)
  BY FieldNoted
<1>2. onPreCommit(r, d, msg, e) \in {d, d1, d2, d3, checkPreCommit(r, d2, e)}
  BY DEF onPreCommit
<1> HIDE DEF d1
<1>3. Noted(c, d2)
  BY <1>1, extendTimerNoted
<1> HIDE DEF d2
<1>4. Noted(c, d3)
  BY <1>3, FieldNoted
<1> QED
  BY <1>1, <1>2, <1>3, <1>4, checkPreCommitNoted

LEMMA onCommitNoted ==
  ASSUME NEW c, NEW d, Noted(c, d), NEW r, NEW msg, NEW e
  PROVE  Noted(c, onCommit(r, d, msg, e))
<1> DEFINE d1 == [d EXCEPT !.CommitPayloads[msg.from] = msg]
           d2 == extendTimer(r, d1, "extend4")
           d3 == [d2 EXCEPT !.CommitPayloads = d.CommitPayloads]
<1>1. Noted(c, d1)
  BY FieldNoted
<1>2. onCommit(r, d, msg, e) \in {d, d1, d2, d3, checkCommit(d2, e)}
  BY DEF onCommit
<1> HIDE DEF d1
<1>3. Noted(c, d2)
  BY <1>1, extendTimerNoted
<1> HIDE DEF d2
<1>4. Noted(c, d3)
  BY <1>3, FieldNoted
<1> QED
  BY <1>1, <1>2, <1>3, <1>4, checkCommitNoted

LEMMA sendRecoveryMessageNoted ==
  ASSUME NEW c, NEW d, Noted(c, d), NEW r
  PROVE  Noted(c, sendRecoveryMessage(r, d))
  BY BroadcastNoted DEF sendRecoveryMessage

LEMMA onRecoveryRequestNoted ==
  ASSUME NEW c, NEW d, Noted(c, d), NEW r, NEW msg
  PROVE  Noted(c, onRecoveryRequest(r, d, msg))
  BY sendRecoveryMessageNoted DEF onRecoveryRequest

LEMMA onChangeViewNoted ==
  ASSUME NEW c, NEW d, Noted(c, d), NEW r, NEW msg
  PROVE  Noted(c, onChangeView(r, d, msg))
<1>1. Noted(c, [d EXCEPT !.ChangeViewPayloads[msg.from] = msg])
  BY FieldNoted
<1> QED
  BY <1>1, onRecoveryRequestNoted, sendRecoveryMessageNoted, checkChangeViewNoted
     DEF onChangeView

LEMMA onRecoveryMessageNoted ==
  ASSUME NEW c, NEW d, Noted(c, d), NEW r, NEW msg
  PROVE  /\ Noted(c, onRecoveryMessage(r, d, msg))
         /\ Noted(c, recoverPreparations(r, d, msg))
         /\ Noted(c, recoverCommits(d, msg))
  BY PushNoted DEF onRecoveryMessage, recoverPreparations, recoverCommits

LEMMA dispatchNoted ==
  ASSUME NEW c, NEW d, Noted(c, d), NEW r, NEW msg, NEW e
  PROVE  Noted(c, dispatch(r, d, msg, e))
<1>1. dispatch(r, d, msg, e)
        \in {onChangeView(r, d, msg), onPrepareRequest(r, d, msg, e),
             onPrepareResponse(r, d, msg, e), onCommit(r, d, msg, e),
             onPreCommit(r, d, msg, e), d, onRecoveryRequest(r, d, msg),
             onRecoveryMessage(r, d, msg)}
  BY DEF dispatch
<1> QED
  BY <1>1, onChangeViewNoted, onPrepareRequestNoted, onPrepareResponseNoted, onCommitNoted,
     onPreCommitNoted, onRecoveryRequestNoted, onRecoveryMessageNoted

LEMMA OnReceiveNoted ==
  ASSUME NEW c, NEW d, Noted(c, d), NEW r, NEW msg, NEW e
  PROVE  Noted(c, OnReceive(r, d, msg, e))
<1> DEFINE x == [d.LastSeenMessage EXCEPT ![msg.from] =
                    IF d.LastSeenMessage[msg.from] < msg.view
                    THEN msg.view
                    ELSE d.LastSeenMessage[msg.from]]
           seen == [d EXCEPT !.LastSeenMessage = x]
<1>1. seen = [d EXCEPT !.LastSeenMessage[msg.from] =
                IF d.LastSeenMessage[msg.from] < msg.view
                THEN msg.view
                ELSE d.LastSeenMessage[msg.from]]
  OBVIOUS
<1>2. OnReceive(r, d, msg, e) \in {d, addMessage(d, msg), seen, dispatch(r, seen, msg, e)}
  BY <1>1 DEF OnReceive
<1> HIDE DEF x
<1>3. Noted(c, seen)
  BY FieldNoted
<1> HIDE DEF seen
<1>4. Noted(c, addMessage(d, msg))
  BY FieldNoted DEF addMessage
<1> QED
  BY <1>2, <1>3, <1>4, dispatchNoted

LEMMA onTimeoutNoted ==
  ASSUME NEW c, NEW d, Noted(c, d), NEW r, NEW height, NEW view, NEW force, NEW e
  PROVE  Noted(c, onTimeout(r, d, height, view, force, e))
<1>1. /\ \A f : Noted(c, sendPrepareRequest(r, d, f, e))
      /\ Noted(c, changeTimer(sendRecoveryMessage(r, d), "resend"))
      /\ Noted(c, [changeTimer(d, "forced") EXCEPT !.txSubscriptionOn = FALSE])
      /\ Noted(c, waitForTransactions(d, "subscribeBackup"))
      /\ Noted(c, sendChangeView(r, d, e, "CVTimeout"))
  BY ResetNames, sendPrepareRequestNoted, sendRecoveryMessageNoted, changeTimerNoted, FieldNoted,
     waitForTransactionsNoted, sendChangeViewNoted
<1> QED
  BY <1>1 DEF onTimeout

-----------------------------------------------------------------------------
(* The timer of the clocks after the calls.                                 *)

\* What is noted of the timer t is what the Timer u shows.
Agrees(t, u) == t.height = u.height /\ t.view = u.view

\* The clocks of a node keep their fields.
Wound(c) ==
    /\ DOMAIN c = {"timer", "pace"}
    /\ DOMAIN c.timer = {"height", "view", "s", "d", "tt", "ch"}

LEMMA CalledShows ==
  ASSUME NEW c, Wound(c), NEW call, call.op \in CallNames, NEW t
  PROVE  /\ Wound(Called(c, call, t))
         /\ call.op \in Resets => Agrees(Called(c, call, t).timer, call)
         /\ call.op \notin Resets => Agrees(Called(c, call, t).timer, c.timer)
<1>1. CASE call.op \in Resets
  <2> DEFINE u == ResetTimer(c.timer, t, call.height, call.view, Delay(c.pace, call, t))
  <2>1. Called(c, call, t) = [c EXCEPT !.timer = u]
    BY <1>1 DEF Called, Resets
  <2>2. /\ DOMAIN u = DOMAIN c.timer
        /\ u.height = call.height /\ u.view = call.view
    BY DEF Wound, ResetTimer, Started, stop, drain
  <2> HIDE DEF u
  <2> QED
    BY <1>1, <2>1, <2>2 DEF Wound, Agrees
<1>2. CASE call.op \in {"extend2", "extend4"}
  <2>1. ASSUME NEW n
        PROVE  LET u == ExtendTimer(c.timer, t, n)
               IN  /\ DOMAIN u = DOMAIN c.timer
                   /\ u.height = c.timer.height /\ u.view = c.timer.view
                   /\ u.ch = c.timer.ch
    BY DEF Wound, ExtendTimer, Started, stop
  <2>2. call.op \notin Resets
    BY <1>2 DEF Resets
  <2>3. PICK n : Called(c, call, t) = [c EXCEPT !.timer = ExtendTimer(c.timer, t, n)]
    <3>1. CASE call.op = "extend2"
      <4>1. Called(c, call, t)
              = [c EXCEPT !.timer = ExtendTimer(c.timer, t, (2 * timePerBlock) \div M)]
        BY <2>2, <3>1 DEF Called
      <4> QED
        BY <4>1
    <3>2. CASE call.op = "extend4"
      <4>1. Called(c, call, t)
              = [c EXCEPT !.timer = ExtendTimer(c.timer, t, (4 * timePerBlock) \div M)]
        BY <2>2, <3>2 DEF Called
      <4> QED
        BY <4>1
    <3> QED
      BY <1>2, <3>1, <3>2
  <2> DEFINE u == ExtendTimer(c.timer, t, n)
  <2>4. /\ DOMAIN u = DOMAIN c.timer
        /\ u.height = c.timer.height /\ u.view = c.timer.view
        /\ u.ch = c.timer.ch
    BY <2>1
  <2>5. Called(c, call, t) = [c EXCEPT !.timer = u]
    BY <2>3
  <2> HIDE DEF u
  <2> QED
    BY <2>2, <2>4, <2>5 DEF Wound, Agrees
<1>3. CASE call.op \in {"reset", "prepareSent", "prepareResponse", "checkPrepare"}
  <2>1. call.op \notin Resets
    BY <1>3 DEF Resets
  <2>2. /\ DOMAIN Called(c, call, t) = DOMAIN c
        /\ Called(c, call, t).timer = c.timer
    BY <1>3, <2>1 DEF Called, Wound
  <2> QED
    BY <2>1, <2>2 DEF Wound, Agrees
<1> QED
  BY <1>1, <1>2, <1>3 DEF CallNames

\* f[i] is what the first i calls make of the clocks c.
Run(c, calls, t, f) ==
    f = [i \in 0 .. Len(calls) |-> IF i = 0 THEN c ELSE Called(f[i - 1], calls[i], t)]

LEMMA RunExists ==
  ASSUME NEW c, NEW S, NEW calls \in Seq(S), NEW t
  PROVE  \E f : Run(c, calls, t, f)
<1> DEFINE Upto(n, f) ==
               f = [i \in 0 .. n |-> IF i = 0 THEN c ELSE Called(f[i - 1], calls[i], t)]
           T == {n \in Nat : ~ \E f : Upto(n, f)}
<1>1. ASSUME T # {} PROVE FALSE
  <2>1. PICK n \in T : \A m \in T : n <= m
    BY <1>1, NatMin
  <2>2. n # 0
    <3>1. Upto(0, [i \in 0 .. 0 |-> c])
      OBVIOUS
    <3> QED
      BY <2>1, <3>1
  <2>3. n - 1 \in Nat /\ ~ (n <= n - 1)
    BY <2>1, <2>2
  <2>4. PICK f : Upto(n - 1, f)
    BY <2>1, <2>3
  <2> DEFINE g == [i \in 0 .. n |-> IF i = n THEN Called(f[n - 1], calls[n], t) ELSE f[i]]
  <2>5. Upto(n, g)
    <3>1. n \in Nat /\ DOMAIN f = 0 .. n - 1
      BY <2>1, <2>4
    <3>2. ASSUME NEW i \in 0 .. n
          PROVE  g[i] = IF i = 0 THEN c ELSE Called(g[i - 1], calls[i], t)
      <4>1. CASE i = n
        BY <2>2, <2>3, <3>1, <4>1
      <4>2. CASE i # n
        <5>1. i \in 0 .. n - 1
          BY <3>1, <4>2
        <5>2. f[i] = IF i = 0 THEN c ELSE Called(f[i - 1], calls[i], t)
          BY <2>4, <5>1
        <5>3. i # 0 => i - 1 \in 0 .. n /\ i - 1 # n
          BY <3>1, <5>1
        <5> QED
          BY <5>1, <5>2, <5>3, <4>2
      <4> QED
        BY <4>1, <4>2
    <3> QED
      BY <3>2
  <2> QED
    BY <2>1, <2>5
<1>2. Len(calls) \in Nat
  OBVIOUS
<1>3. \E f : Upto(Len(calls), f)
  BY <1>1, <1>2
<1> QED
  BY <1>3 DEF Run

LEMMA AfterRun ==
  ASSUME NEW c, NEW S, NEW calls \in Seq(S), NEW t
  PROVE  \E f : Run(c, calls, t, f) /\ AfterCalls(c, calls, t) = f[Len(calls)]
<1> DEFINE f == CHOOSE f : Run(c, calls, t, f)
<1>1. Run(c, calls, t, f)
  BY RunExists
<1>2. AfterCalls(c, calls, t) = f[Len(calls)]
  BY DEF AfterCalls, Run
<1> QED
  BY <1>1, <1>2

\* The calls and the timer of a context agree with what its clocks do.
LEMMA AfterCallsShows ==
  ASSUME NEW c, Wound(c), NEW S, NEW calls \in Seq(S), NEW t,
         \A i \in DOMAIN calls : calls[i].op \in CallNames,
         NEW before, Agrees(c.timer, before),
         NEW timer, Shows(before, calls, timer)
  PROVE  Wound(AfterCalls(c, calls, t)) /\ Agrees(AfterCalls(c, calls, t).timer, timer)
<1> DEFINE n == Len(calls)
<1>1. n \in Nat /\ DOMAIN calls = 1 .. n
  OBVIOUS
<1>2. PICK f : Run(c, calls, t, f) /\ AfterCalls(c, calls, t) = f[n]
  BY AfterRun
<1> HIDE DEF n
<1>3. f[0] = c /\ \A i \in 1 .. n : f[i] = Called(f[i - 1], calls[i], t)
  BY <1>1, <1>2 DEF Run, n
<1> DEFINE \* The clocks after i calls show the last Reset among the first i.
           Fits(i) ==
               /\ Wound(f[i])
               /\ (\A j \in 1 .. i : calls[j].op \notin Resets) => Agrees(f[i].timer, before)
               /\ \A k \in 1 .. i :
                    /\ calls[k].op \in Resets
                    /\ \A j \in 1 .. i : j > k => calls[j].op \notin Resets
                    => Agrees(f[i].timer, calls[k])
           T == {i \in 0 .. n : ~Fits(i)}
<1>4. Fits(0)
  BY <1>3
<1>5. ASSUME NEW i \in 1 .. n, Fits(i - 1)
      PROVE  Fits(i)
  <2>1. /\ Wound(Called(f[i - 1], calls[i], t))
        /\ calls[i].op \in Resets => Agrees(Called(f[i - 1], calls[i], t).timer, calls[i])
        /\ calls[i].op \notin Resets
            => Agrees(Called(f[i - 1], calls[i], t).timer, f[i - 1].timer)
    BY <1>1, <1>5, CalledShows
  <2>2. f[i] = Called(f[i - 1], calls[i], t)
    BY <1>3
  <2>3. /\ 1 .. i = (1 .. i - 1) \cup {i}
        /\ \A k \in 1 .. i - 1 : i > k /\ ~(k > i)
        /\ ~(i > i)
    BY <1>1
  <2>4. CASE calls[i].op \in Resets
    BY <2>1, <2>2, <2>3, <2>4
  <2>5. CASE calls[i].op \notin Resets
    BY <1>5, <2>1, <2>2, <2>3, <2>5 DEF Agrees
  <2> QED
    BY <2>4, <2>5
<1> HIDE DEF Fits
<1>6. ASSUME T # {} PROVE FALSE
  <2>1. T \in SUBSET Nat
    BY <1>1
  <2>2. PICK i \in T : \A j \in T : i <= j
    BY <1>6, <2>1, NatMin
  <2>3. i \in 1 .. n /\ i - 1 \in 0 .. n /\ ~(i <= i - 1)
    BY <1>1, <1>4, <2>2
  <2>4. Fits(i - 1)
    BY <2>2, <2>3
  <2> QED
    BY <1>5, <2>2, <2>3, <2>4
<1>7. Fits(n)
  BY <1>1, <1>6
<1> QED
  BY <1>1, <1>2, <1>7 DEF Fits, Shows, Agrees

-----------------------------------------------------------------------------
(* The invariant: the timer that a context notes is the Timer of the node,  *)
(* and the channels hold what was broadcast.                                *)

Clocked ==
    /\ DOMAIN clocks = Running
    /\ \A r \in Running : Wound(clocks[r]) /\ Agrees(ctx[r].timer, clocks[r].timer)

Parcels == [msg : {m \in msgs : ~Beyond(m)}, due : Nat]

Mailed ==
    /\ now \in Nat
    /\ inbox \in [Running -> Seq(Parcels)]

TInv == RInv /\ Clocked /\ Mailed

\* What a broadcast leaves of a channel.
LEMMA DepositedHolds ==
  ASSUME NEW T, NEW box \in Seq(T), NEW s, NEW S, NEW sent \in Seq(S),
         \A m \in S : [msg |-> m, due |-> now + MaxDelay[s]] \in T
  PROVE  Deposited(s, box, sent) \in Seq(T)
<1> DEFINE new == [i \in DOMAIN sent |-> [msg |-> sent[i], due |-> now + MaxDelay[s]]]
           full == box \o new
           n == Least(Len(full), Greatest(Len(box), ChanSize))
           all == SubSeq(full, 1, n)
<1>1. Len(sent) \in Nat /\ DOMAIN sent = 1 .. Len(sent)
  OBVIOUS
<1>2. \A i \in 1 .. Len(sent) : new[i] \in T
  OBVIOUS
<1>3. new \in Seq(T) /\ Len(new) = Len(sent)
  <2>1. new \in [1 .. Len(sent) -> T]
    BY <1>1, <1>2
  <2> HIDE DEF new
  <2> QED
    BY <1>1, <2>1
<1> HIDE DEF new
<1>4. Len(box) \in Nat /\ DOMAIN box = 1 .. Len(box)
  OBVIOUS
<1>5. /\ full \in Seq(T)
      /\ Len(full) = Len(box) + Len(sent)
      /\ \A i \in 1 .. Len(box) + Len(sent) :
            full[i] = IF i <= Len(box) THEN box[i] ELSE new[i - Len(box)]
  <2>1. new \in Seq(T)
    BY <1>3
  <2>2. /\ full \in Seq(T)
        /\ Len(full) = Len(box) + Len(new)
        /\ \A i \in 1 .. Len(box) + Len(new) :
              full[i] = IF i <= Len(box) THEN box[i] ELSE new[i - Len(box)]
    BY <2>1, ConcatProperties
  <2> HIDE DEF full
  <2> QED
    BY <1>3, <2>2
<1> HIDE DEF full
<1>6. n \in Nat /\ n <= Len(full)
  BY <1>1, <1>4, <1>5, ChannelAssumption DEF Least, Greatest
<1> HIDE DEF n
<1>7. \A i \in 1 .. n : full[i] \in T
  BY <1>1, <1>4, <1>5, <1>6
<1>8. all \in Seq(T)
  <2>1. 1 \in Int /\ n \in Int
    BY <1>6
  <2> QED
    BY <1>7, <2>1, SubSeqProperties
<1>9. Deposited(s, box, sent) = all
  BY DEF Deposited, all, n, full, new
<1> QED
  BY <1>8, <1>9

\* The order of the broadcasts is a sequence of them.
LEMMA InOrderSeq ==
  ASSUME NEW S, IsFiniteSet(S), NEW sent \in InOrder(S)
  PROVE  sent \in Seq(S)
<1>1. Cardinality(S) \in Nat
  BY FS_CardinalityType
<1>2. sent \in [1 .. Cardinality(S) -> S]
  BY DEF InOrder
<1> QED
  BY <1>1, <1>2

\* The end of a step of node r keeps the rest of the invariant: d is reached by
\* calls that note what they do, and node r has taken nothing or the first
\* payload from its channel.
LEMMA BecomesTimed ==
  ASSUME TInv, NEW r \in Running, NEW d, Noted(ctx[r], d),
         NEW c, Wound(c), Agrees(ctx[r].timer, c.timer),
         NEW left \in {inbox[r], Tail(inbox[r])}, left = inbox[r] \/ inbox[r] # <<>>,
         TimedBecomes(r, d, c, left)
  PROVE  Clocked' /\ Mailed'
<1> DEFINE d1 == [d EXCEPT !.out = {}, !.calls = <<>>]
           S == {m \in d.out \cap msgs' : ~Beyond(m)}
<1>1. /\ ctx \in [Running -> Contexts] /\ now \in Nat /\ now' = now
      /\ msgs \subseteq msgs' /\ ctx' = [ctx EXCEPT ![r] = d1]
  BY DEF TInv, RInv, IInv, TypeOK, Mailed, TimedBecomes, Becomes, Send
<1>2. d1.timer = d.timer /\ d1.panicked = d.panicked
  BY DEF Noted, Fields
<1> HIDE DEF d1
<1>3. /\ \A s \in Running : s # r => ctx'[s] = ctx[s]
      /\ ctx'[r].timer = d.timer
      /\ \A s \in Running : ctx[s].panicked => ctx'[s].panicked
  BY <1>1, <1>2 DEF Noted
<1>4. Clocked'
  <2>1. PICK T : d.calls \in Seq(T)
    BY DEF Noted
  <2>2. /\ Wound(AfterCalls(c, d.calls, now))
        /\ Agrees(AfterCalls(c, d.calls, now).timer, d.timer)
    <3>1. Agrees(c.timer, ctx[r].timer)
      BY DEF Agrees
    <3> QED
      BY <2>1, <3>1, AfterCallsShows DEF Noted
  <2>3. /\ clocks' = [clocks EXCEPT ![r] = AfterCalls(c, d.calls, now)]
        /\ Clocked
    BY DEF TimedBecomes, TInv
  <2> QED
    BY <1>3, <2>2, <2>3 DEF Clocked, Agrees, Running
<1>5. Parcels \subseteq Parcels' /\ \A m \in S : \A n \in Nat : [msg |-> m, due |-> n] \in Parcels'
  BY <1>1 DEF Parcels, Beyond
<1>6. PICK sent \in InOrder(S) :
        inbox' = [s \in Running |->
                    IF s = r THEN left ELSE Deposited(s, inbox[s], sent)]
  BY DEF TimedBecomes
<1>7. sent \in Seq(S)
  <2>1. S \subseteq d.out /\ IsFiniteSet(d.out)
    BY DEF Noted
  <2> HIDE DEF S
  <2> QED
    BY <2>1, InOrderSeq, FS_Subset
<1> HIDE DEF S
<1>8. /\ \A s \in Running : inbox[s] \in Seq(Parcels)
      /\ \A s \in Running : MaxDelay[s] \in Nat
  BY ChannelAssumption DEF TInv, Mailed
<1>9. ASSUME NEW s \in Running
      PROVE  inbox[s] \in Seq(Parcels')
  BY <1>5, <1>8
<1>10. ASSUME NEW s \in Running, s # r
       PROVE  inbox'[s] \in Seq(Parcels')
  <2>1. \A m \in S : [msg |-> m, due |-> now + MaxDelay[s]] \in Parcels'
    BY <1>1, <1>5, <1>8
  <2>2. inbox'[s] = Deposited(s, inbox[s], sent)
    BY <1>6, <1>10
  <2> QED
    BY <1>7, <1>9, <2>1, <2>2, DepositedHolds
<1>11. inbox'[r] \in Seq(Parcels')
  <2>1. inbox'[r] = left /\ inbox[r] \in Seq(Parcels')
    BY <1>6, <1>9
  <2>2. CASE left = inbox[r]
    BY <2>1, <2>2
  <2>3. CASE left = Tail(inbox[r]) /\ inbox[r] # <<>>
    BY <2>1, <2>3, HeadTailProperties
  <2> QED
    BY <2>2, <2>3
<1>12. Mailed'
  <2>1. \A s \in Running : inbox'[s] \in Seq(Parcels')
    BY <1>10, <1>11
  <2>2. inbox' = [s \in Running |-> inbox'[s]]
    BY <1>6
  <2> QED
    BY <1>1, <2>1, <2>2 DEF Mailed, Running
<1> QED
  BY <1>4, <1>12

-----------------------------------------------------------------------------
(* The steps: each is one of Dbft, or a stutter, and keeps the invariant.   *)

\* What a timed step is to Dbft.
Maps == [Next]_vars /\ Clocked' /\ Mailed'

LEMMA StateNoted ==
  ASSUME TInv, NEW r \in Running
  PROVE  Noted(ctx[r], ctx[r])
<1>1. ctx[r] \in Contexts /\ ctx[r].out = {} /\ ctx[r].calls = <<>>
  BY DEF TInv, RInv, IInv, TypeOK
<1>2. <<>> \in Seq({}) /\ DOMAIN <<>> = {}
  OBVIOUS
<1>3. DOMAIN ctx[r] = Fields
  BY <1>1 DEF Contexts, Fields
<1> QED
  BY <1>1, <1>2, <1>3, FS_EmptySet DEF Noted, Shows

LEMMA StartMaps ==
  ASSUME TInv, NEW r \in Running, TimedStart(r)
  PROVE  Maps
<1> DEFINE d == initializeConsensus(r, ctx[r], 0, Len(ledger[r]) + 1)
           D(e) == IF IsPrimary(r, d) THEN sendPrepareRequest(r, d, TRUE, e) ELSE d
<1>1. PICK e \in FillCallbacks : TimedBecomes(r, D(e), clocks[r], inbox[r])
  BY DEF TimedStart
<1>2. Start(r)
  BY <1>1 DEF TimedStart, Start, TimedBecomes
<1>3. Noted(ctx[r], d)
  BY StateNoted, initializeConsensusNoted
<1> HIDE DEF d
<1>4. Noted(ctx[r], D(e))
  BY <1>3, sendPrepareRequestNoted
<1> HIDE DEF D
<1>5. Clocked' /\ Mailed'
  BY <1>1, <1>4, BecomesTimed DEF TInv, Clocked
<1> QED
  BY <1>2, <1>5 DEF Maps, Next

LEMMA ResetMaps ==
  ASSUME TInv, NEW r \in Running, TimedReset(r)
  PROVE  Maps
<1> DEFINE d == initializeConsensus(r, ctx[r], 0, Len(ledger[r]) + 1)
<1>1. TimedBecomes(r, d, clocks[r], inbox[r])
  BY DEF TimedReset
<1>2. Reset(r)
  BY DEF TimedReset, CanReset, Reset, TimedBecomes
<1>3. Noted(ctx[r], d)
  BY StateNoted, initializeConsensusNoted
<1> HIDE DEF d
<1>4. Clocked' /\ Mailed'
  BY <1>1, <1>3, BecomesTimed DEF TInv, Clocked
<1> QED
  BY <1>2, <1>4 DEF Maps, Next

\* The payload at the head of the channel is one of the network.
LEMMA DeliverMaps ==
  ASSUME TInv, NEW r \in Running, TimedDeliver(r)
  PROVE  Maps
<1> DEFINE m == Head(inbox[r]).msg
           d(e) == OnReceive(r, ctx[r], m, e)
<1>1. PICK e \in Callbacks : TimedBecomes(r, d(e), clocks[r], Tail(inbox[r]))
  BY DEF TimedDeliver
<1>2. m \in msgs /\ ~Beyond(m)
  <2>1. inbox[r] \in Seq(Parcels) /\ inbox[r] # <<>>
    BY DEF TInv, Mailed, TimedDeliver
  <2>2. Head(inbox[r]) \in Parcels
    BY <2>1
  <2> QED
    BY <2>2 DEF Parcels
<1>3. Deliver(r, m)
  BY <1>1, <1>2 DEF TimedDeliver, Deliver, TimedBecomes
<1>4. Noted(ctx[r], d(e))
  BY StateNoted, OnReceiveNoted
<1>5. inbox[r] # <<>>
  BY DEF TimedDeliver
<1> HIDE DEF d
<1>6. Clocked' /\ Mailed'
  BY <1>1, <1>4, <1>5, BecomesTimed DEF TInv, Clocked
<1> QED
  BY <1>2, <1>3, <1>6 DEF Maps, Next

\* Receiving a tick leaves what the Timer shows.
LEMMA ReceivedWound ==
  ASSUME NEW c, Wound(c), NEW t, Ticks(c.timer, t)
  PROVE  LET c1 == [c EXCEPT !.timer = Received(c.timer)]
         IN  Wound(c1) /\ \A u : Agrees(u, c.timer) => Agrees(u, c1.timer)
<1> DEFINE u == Received(c.timer)
<1>1. /\ DOMAIN u = DOMAIN c.timer /\ u.height = c.timer.height /\ u.view = c.timer.view
  BY DEF Received, Ticks, Wound
<1> DEFINE c1 == [c EXCEPT !.timer = u]
<1>2. DOMAIN c1 = DOMAIN c /\ c1.timer = u
  BY DEF Wound
<1> HIDE DEF u, c1
<1>3. Wound(c1) /\ \A v : Agrees(v, c.timer) => Agrees(v, c1.timer)
  BY <1>1, <1>2 DEF Wound, Agrees
<1> QED
  BY <1>3 DEF c1, u

\* A tick is one of a timer that the context has armed, or the node does not
\* look at it: it watches, or has processed its block.
LEMMA OnTimeoutMaps ==
  ASSUME TInv, NEW r \in Running, TimedOnTimeout(r)
  PROVE  Maps
<1> DEFINE timer == clocks[r].timer
           stopped == [ctx[r].timer EXCEPT !.armed = FALSE]
           d0 == [ctx[r] EXCEPT !.timer = stopped]
           d(e) == onTimeout(r, d0, timer.height, timer.view, FALSE, e)
           c == [clocks[r] EXCEPT !.timer = Received(timer)]
<1>1. PICK e \in FillCallbacks :
        /\ Len(d(e).MissingTransactions) <= MaxMissing
        /\ TimedBecomes(r, d(e), c, inbox[r])
  BY DEF TimedOnTimeout
<1>2. /\ Wound(clocks[r]) /\ Agrees(ctx[r].timer, timer) /\ Ticks(timer, now) /\ Ready(r)
  BY DEF TInv, Clocked, TimedOnTimeout
<1>3. /\ ctx[r] \in Contexts /\ ctx[r].out = {} /\ ctx[r].calls = <<>>
      /\ DOMAIN ctx[r] = Fields /\ Ticking(r, ctx[r]) /\ ctx \in [Running -> Contexts]
      /\ ledger \in [Running -> Seq(Headers)]
  BY DEF TInv, RInv, IInv, Alert, TypeOK, Contexts, Fields
<1>4. Wound(c) /\ Agrees(ctx[r].timer, c.timer)
  BY <1>2, ReceivedWound
<1>5. Noted(ctx[r], d(e))
  <2>1. Noted(ctx[r], d0)
    <3>1. Noted(ctx[r], ctx[r])
      BY StateNoted
    <3>2. stopped.height = ctx[r].timer.height /\ stopped.view = ctx[r].timer.view
      BY <1>3 DEF Contexts
    <3> HIDE DEF stopped
    <3> QED
      BY <3>1, <3>2 DEF Noted, Fields, Shows
  <2> HIDE DEF d0
  <2> QED
    BY <2>1, onTimeoutNoted
<1>6. Clocked' /\ Mailed'
  <2> HIDE DEF d, c
  <2> QED
    BY <1>1, <1>4, <1>5, BecomesTimed
<1>7. ctx[r].timer.armed \/ WatchOnly(r) \/ ctx[r].blockProcessed
  <2>1. RangeOf(ctx[r].todo) = {}
    BY <1>2 DEF Ready, Idle, RangeOf
  <2> QED
    BY <1>2, <1>3, <2>1 DEF Ready, Ticking, Arming, TimerOf
<1>8. CASE ctx[r].timer.armed
  <2>1. timer.height = ctx[r].timer.height /\ timer.view = ctx[r].timer.view
    BY <1>2 DEF Agrees
  <2>2. d0 = [ctx[r] EXCEPT !.timer.armed = FALSE]
    OBVIOUS
  <2>3. d(e) = onTimeout(r, [ctx[r] EXCEPT !.timer.armed = FALSE],
                         ctx[r].timer.height, ctx[r].timer.view, FALSE, e)
    BY <2>1, <2>2
  <2> HIDE DEF d
  <2>4. OnTimeout(r)
    BY <1>1, <1>2, <1>8, <2>3 DEF OnTimeout, TimedBecomes
  <2> QED
    BY <1>6, <2>4 DEF Maps, Next
<1>9. CASE ~ctx[r].timer.armed
  <2>1. ctx[r].timer.armed = FALSE /\ d0 = ctx[r]
    BY <1>3, <1>9 DEF Contexts
  <2>2. d(e) = ctx[r]
    BY <1>7, <1>9, <2>1 DEF onTimeout, BlockSent
  <2> HIDE DEF d, d0
  <2>3. Becomes(r, ctx[r])
    BY <1>1, <2>2 DEF TimedBecomes
  <2>4. ctx' = ctx
    <3>1. [ctx[r] EXCEPT !.out = {}, !.calls = <<>>] = ctx[r]
      BY <1>3 DEF Contexts
    <3> QED
      BY <1>3, <2>3, <3>1 DEF Becomes
  <2>5. msgs' = msgs
    BY <1>3, <2>3 DEF Becomes, Send
  <2>6. ledger' = ledger
    BY <1>3, <2>3 DEF Becomes
  <2> QED
    BY <1>6, <2>4, <2>5, <2>6 DEF Maps, vars
<1> QED
  BY <1>8, <1>9

\* The rest of a handler goes on as in Dbft.
LEMMA ContinueMaps ==
  ASSUME TInv, NEW r \in Running, TimedContinue(r)
  PROVE  Maps
<1> DEFINE item == Head(ctx[r].todo)
           d == Pop(ctx[r])
           rest(m) == Push(d, <<Replay(item.payloads \ {m})>>)
<1>1. /\ ctx[r].todo # <<>>
      /\ IInv
  BY DEF TimedContinue, TInv, RInv
<1>2. item \in WorkItems
  BY <1>1, PopFacts
<1>3. PICK d1 \in Continued(r) : TimedBecomes(r, d1, clocks[r], inbox[r])
  BY DEF TimedContinue
<1>4. Becomes(r, d1)
  BY <1>3 DEF TimedBecomes
<1>5. Noted(ctx[r], d)
  BY StateNoted DEF Pop, Noted, Fields
<1>6. Noted(ctx[r], d1) /\ Continue(r)
  <2>1. CASE item.op = "replay"
    <3>1. \/ item.payloads = {} /\ d1 = d
          \/ \E m \in item.payloads, e \in Callbacks :
                ~Beyond(m) /\ d1 = OnReceive(r, rest(m), m, e)
      BY <1>3, <2>1 DEF Continued
    <3>2. CASE item.payloads = {} /\ d1 = d
      BY <1>1, <1>4, <1>5, <2>1, <3>2 DEF Continue, ContinueReplay, Pending
    <3>3. ASSUME NEW m \in item.payloads, NEW e \in Callbacks,
                 ~Beyond(m), d1 = OnReceive(r, rest(m), m, e)
          PROVE  Noted(ctx[r], d1) /\ Continue(r)
      <4>1. [item EXCEPT !.payloads = item.payloads \ {m}] = Replay(item.payloads \ {m})
        BY <1>2, <2>1 DEF WorkItems, Replay
      <4>2. ContinueReplay(r)
        BY <1>1, <1>4, <2>1, <3>3, <4>1 DEF ContinueReplay, Pending
      <4>3. Noted(ctx[r], rest(m))
        BY <1>5, PushNoted
      <4> HIDE DEF rest
      <4>4. Noted(ctx[r], d1)
        BY <3>3, <4>3, OnReceiveNoted
      <4> QED
        BY <4>2, <4>4 DEF Continue
    <3> HIDE DEF rest
    <3> QED
      BY <3>1, <3>2, <3>3
  <2>2. CASE item.op = "armTimer"
    <3>1. d1 = armTimer(r, d, item.view)
      BY <1>3, <2>2 DEF Continued
    <3>2. ContinueArmTimer(r)
      BY <1>1, <1>4, <2>2, <3>1 DEF ContinueArmTimer, Pending
    <3> HIDE DEF d
    <3> QED
      BY <1>5, <3>1, <3>2, armTimerNoted DEF Continue
  <2>3. CASE item.op = "preparations"
    <3>1. d1 = recoverPreparations(r, d, item.msg)
      BY <1>3, <2>3 DEF Continued
    <3>2. ContinuePreparations(r)
      BY <1>1, <1>4, <2>3, <3>1 DEF ContinuePreparations, Pending
    <3> HIDE DEF d
    <3> QED
      BY <1>5, <3>1, <3>2, onRecoveryMessageNoted DEF Continue
  <2>4. CASE item.op = "commits"
    <3>1. d1 = recoverCommits(d, item.msg)
      BY <1>3, <2>4 DEF Continued
    <3>2. ContinueCommits(r)
      BY <1>1, <1>4, <2>4, <3>1 DEF ContinueCommits, Pending
    <3> HIDE DEF d
    <3> QED
      BY <1>5, <3>1, <3>2, onRecoveryMessageNoted DEF Continue
  <2>5. CASE item.op = "deleteMissing"
    <3>1. d1 = deleteMissing(d, item.index)
      BY <1>3, <2>5 DEF Continued
    <3>2. ContinueDeleteMissing(r)
      BY <1>1, <1>4, <2>5, <3>1 DEF ContinueDeleteMissing, Pending
    <3> HIDE DEF d
    <3> QED
      BY <1>5, <3>1, <3>2, deleteMissingNoted DEF Continue
  <2>6. item.op \in {"replay", "armTimer", "preparations", "commits", "deleteMissing"}
    BY <1>2 DEF WorkItems
  <2> QED
    BY <2>1, <2>2, <2>3, <2>4, <2>5, <2>6
<1>7. Clocked' /\ Mailed'
  BY <1>3, <1>6, BecomesTimed DEF TInv, Clocked
<1> QED
  BY <1>6, <1>7 DEF Maps, Next

\* The clock going on is a stutter of Dbft.
LEMMA TockMaps ==
  ASSUME TInv, Tock
  PROVE  Maps
<1>1. /\ now' \in Nat
      /\ ctx' = ctx /\ msgs' = msgs /\ ledger' = ledger /\ inbox' = inbox /\ clocks' = clocks
  BY DEF Tock, TInv, Mailed
<1> QED
  BY <1>1 DEF Maps, TInv, Clocked, Mailed, Parcels, Beyond, Running, vars

LEMMA InitTimed == TimedInit => TInv
<1>1. SUFFICES ASSUME TimedInit PROVE TInv
  OBVIOUS
<1>2. RInv
  BY <1>1, InitAlert DEF TimedInit
<1>3. \A r \in Running : ctx[r].timer.height = 0 /\ ctx[r].timer.view = 0
  BY <1>1 DEF TimedInit, Init, NewContext
<1>4. Clocked
  BY <1>1, <1>3 DEF TimedInit, Clocked, Wound, Agrees, New
<1>5. Mailed
  BY <1>1 DEF TimedInit, Mailed
<1> QED
  BY <1>2, <1>4, <1>5 DEF TInv

LEMMA NextTimed ==
  ASSUME TInv, [TimedNext]_timedVars
  PROVE  TInv' /\ [Next]_vars
<1>1. Maps
  <2>1. CASE UNCHANGED timedVars
    BY <2>1 DEF Maps, TInv, Clocked, Mailed, Parcels, Beyond, Running, timedVars, vars
  <2>2. CASE Tock
    BY <2>2, TockMaps
  <2>3. CASE NodeStep
    BY <2>3, StartMaps, ResetMaps, DeliverMaps, OnTimeoutMaps, ContinueMaps DEF NodeStep
  <2> QED
    BY <2>1, <2>2, <2>3 DEF TimedNext
<1>2. RInv'
  BY <1>1, NextAlert DEF TInv, Maps
<1> QED
  BY <1>1, <1>2 DEF TInv, Maps

-----------------------------------------------------------------------------
(* The results.                                                             *)

LEMMA TimedInvariant == TimedSpec => []TInv
<1>1. TInv /\ [TimedNext]_timedVars => TInv'
  BY NextTimed
<1> QED
  BY <1>1, InitTimed, PTL DEF TimedSpec

\* Whatever the delays, the durations and the sizes of the channels, the loop of
\* a node does nothing that Dbft does not allow: every payload it takes from its
\* channel is one that was broadcast, and every tick it passes on is one that
\* the last Reset of its handlers asked for, or one that OnTimeout drops
\* (timer.go Reset and Extend, main.go Run and Broadcast).
THEOREM TimedImplements == TimedSpec => ImplementsDbft
<1>1. TimedInit => Init
  BY DEF TimedInit
<1>2. TInv /\ [TimedNext]_timedVars => [Next]_vars
  BY NextTimed
<1> QED
  BY <1>1, <1>2, TimedInvariant, PTL DEF TimedSpec, ImplementsDbft, Spec

=============================================================================
