---------------------------- MODULE VettingProofs ----------------------------
(***************************************************************************)
(* A correct validator prepares, pre-commits and commits only proposals    *)
(* that pass the checks of VerifyPrepareRequest and Verify(Pre)Block, as   *)
(* long as every set of M validators has a correct one among them. As long *)
(* as what passes the first of these checks passes the second, and nobody  *)
(* loses its context, no handler panics and no missing transaction is      *)
(* forgotten.                                                              *)
(***************************************************************************)
EXTENDS AgreementProofs

\* A node in order at any point of a handler (see Vouched), S being what is on
\* the network.
Wise(d, S) == Vetted(d) /\ \A m \in S \cup d.out : Vouches(m) /\ Backed(m)

Trusted(r, d, S) == Fit(r, d, S) /\ Wise(d, S)

-----------------------------------------------------------------------------
(* Calls that store no preparation.                                         *)

\* What vouches for itself may be cached, left to replay, or broadcast.
Mild(d, d1) ==
    /\ d1.BlockIndex = d.BlockIndex
    /\ d1.ViewNumber = d.ViewNumber
    /\ d1.PreparationPayloads = d.PreparationPayloads
    /\ d1.proposal = d.proposal
    /\ \A m \in d1.cache : m \in d.cache \/ Vouches(m)
    /\ \A item \in RangeOf(d1.todo) :
        item \in RangeOf(d.todo) \/ VouchesItem(item, d.BlockIndex)
    /\ \A m \in d1.out : m \in d.out \/ (Vouches(m) /\ Backed(m))

LEMMA MildWise ==
  ASSUME NEW d, NEW S, Wise(d, S), NEW d1, Mild(d, d1)
  PROVE  Wise(d1, S)
<1>1. PrimaryIndex(d1) = PrimaryIndex(d) /\ RequestSentOrReceived(d1) = RequestSentOrReceived(d)
  BY DEF Mild, RequestSentOrReceived, PrimaryIndex
<1>2. \A m \in S \cup d1.out : Vouches(m) /\ Backed(m)
  BY DEF Mild, Wise
<1>3. Vetted(d1)
  <2>1. \A m \in d1.cache : Vouches(m)
    BY DEF Mild, Wise, Vetted
  <2>2. \A item \in RangeOf(d1.todo) : VouchesItem(item, d1.BlockIndex)
    BY DEF Mild, Wise, Vetted
  <2> QED
    BY <1>1, <2>1, <2>2 DEF Mild, Wise, Vetted
<1> QED
  BY <1>2, <1>3 DEF Wise

LEMMA AlikeMild ==
  ASSUME NEW d, NEW d1, Alike(d, d1)
  PROVE  Mild(d, d1)
  BY DEF Alike, Mild

LEMMA AlikeWise ==
  ASSUME NEW d, NEW S, Wise(d, S), NEW d1, Alike(d, d1)
  PROVE  Wise(d1, S)
  BY AlikeMild, MildWise

\* Commits are no preparations.
LEMMA CommitFieldsMild ==
  ASSUME NEW d \in Contexts
  PROVE  /\ \A x : Mild(d, [d EXCEPT !.CommitPayloads = x])
         /\ \A x : Mild(d, [d EXCEPT !.blockProcessed = x])
         /\ Mild(d, verifyCommitPayloadsAgainstHeader(d))
         /\ \A e : Mild(d, checkCommit(d, e))
<1>1. \A x : Mild(d, [d EXCEPT !.CommitPayloads = x])
  BY DEF Mild, Contexts
<1>2. \A x : Mild(d, [d EXCEPT !.blockProcessed = x])
  BY DEF Mild, Contexts
<1>3. Mild(d, verifyCommitPayloadsAgainstHeader(d))
  BY <1>1 DEF verifyCommitPayloadsAgainstHeader
<1>4. Mild(d, d)
  BY DEF Mild
<1>5. ASSUME NEW e PROVE Mild(d, checkCommit(d, e))
  <2>1. checkCommit(d, e) \in {d, [d EXCEPT !.blockProcessed = TRUE]}
    BY DEF checkCommit
  <2> QED
    BY <1>2, <1>4, <2>1
<1> QED
  BY <1>1, <1>2, <1>3, <1>5

LEMMA checkCommitWise ==
  ASSUME NEW d \in Contexts, NEW S, Wise(d, S), NEW e
  PROVE  Wise(checkCommit(d, e), S)
  BY CommitFieldsMild, MildWise

LEMMA panicWise ==
  ASSUME NEW d \in Contexts, NEW S, Wise(d, S)
  PROVE  Wise(panic(d), S)
<1>1. RangeOf(panic(d).todo) = {}
  BY DEF panic, RangeOf, Contexts
<1>2. Mild(d, panic(d))
  BY <1>1 DEF Mild, panic, Contexts
<1> QED
  BY <1>2, MildWise

LEMMA deleteMissingWise ==
  ASSUME NEW d \in Contexts, NEW S, Wise(d, S), NEW i
  PROVE  Wise(deleteMissing(d, i), S)
<1>1. \/ deleteMissing(d, i) \in {d, panic(d)}
      \/ \E x : deleteMissing(d, i) = [d EXCEPT !.MissingTransactions = x]
  BY DEF deleteMissing
<1> QED
  BY <1>1, panicWise, FieldAlike, AlikeWise

LEMMA BroadcastWise ==
  ASSUME NEW d \in Contexts, NEW S, Wise(d, S), NEW m, Vouches(m), Backed(m)
  PROVE  Wise(Broadcast(d, m), S)
<1>1. Mild(d, Broadcast(d, m))
  BY DEF Mild, Broadcast, Contexts
<1> QED
  BY <1>1, MildWise

\* Requests for recovery or for a change of view say nothing of a proposal.
LEMMA RequestVouches ==
  ASSUME NEW m, m.type \in {"RecoveryRequest", "ChangeView"}
  PROVE  Vouches(m) /\ Backed(m)
  BY DEF Vouches, Backed, Preparations

LEMMA sendRecoveryRequestWise ==
  ASSUME NEW r, NEW d \in Contexts, NEW S, Wise(d, S), NEW e
  PROVE  Wise(sendRecoveryRequest(r, d, e), S)
<1> DEFINE d1 == IF RequestSentOrReceived(d) /\ ~hasAllTransactions(d)
                 THEN processMissingTx(d, e)
                 ELSE d
           msg == RecoveryRequestMsg(d1.BlockIndex, d1.ViewNumber, r)
<1>1. d1 \in Contexts /\ Alike(d, d1)
  BY processMissingTxAlike, processMissingTxSame DEF Alike, Same
<1> HIDE DEF d1
<1>2. Vouches(msg) /\ Backed(msg)
  BY RequestVouches DEF RecoveryRequestMsg
<1> HIDE DEF msg
<1>3. Wise(Broadcast(d1, msg), S)
  BY <1>1, <1>2, AlikeWise, BroadcastWise
<1> QED
  BY <1>3 DEF sendRecoveryRequest, d1, msg

LEMMA broadcastChangeViewWise ==
  ASSUME NEW r, NEW d \in Contexts, NEW S, Wise(d, S)
  PROVE  Wise(broadcastChangeView(r, d), S)
<1> DEFINE m == makeChangeView(r, d)
<1>1. Vouches(m) /\ Backed(m)
  BY RequestVouches DEF makeChangeView, ChangeViewMsg
<1> HIDE DEF m
<1>2. Mild(d, broadcastChangeView(r, d))
  BY <1>1 DEF Contexts, Mild, broadcastChangeView, Broadcast, m
<1> QED
  BY <1>2, MildWise

LEMMA addMessageWise ==
  ASSUME NEW d \in Contexts, NEW S, Wise(d, S), NEW m, Vouches(m)
  PROVE  Wise(addMessage(d, m), S)
<1> DEFINE d1 == [d EXCEPT !.cache = {x \in d.cache : ~SameSlot(x, m)} \cup {m}]
<1>1. Mild(d, d1)
  BY DEF Mild, Contexts
<1> QED
  BY <1>1, MildWise DEF addMessage

LEMMA PushWise ==
  ASSUME NEW d \in Contexts, NEW S, Wise(d, S), NEW s \in Seq(WorkItems),
         \A item \in RangeOf(s) : VouchesItem(item, d.BlockIndex)
  PROVE  Wise(Push(d, s), S)
<1>1. d.todo \in Seq(WorkItems)
  BY DEF Contexts
<1>2. \A item \in RangeOf(s \o d.todo) : item \in RangeOf(s) \/ item \in RangeOf(d.todo)
  BY <1>1, ConcatRange
<1>3. Mild(d, Push(d, s))
  BY <1>2 DEF Mild, Contexts, Push
<1> QED
  BY <1>3, MildWise


-----------------------------------------------------------------------------
(* Recovery messages.                                                       *)

\* A recovery message brings no response of a correct validator to a proposal
\* that is unfit.
LEMMA RecoveryVouches ==
  ASSUME NEW r, NEW d \in Contexts, Sane(d), Tidy(d), Vetted(d)
  PROVE  Vouches(makeRecoveryMessage(r, d)) /\ Backed(makeRecoveryMessage(r, d))
<1> DEFINE msg == makeRecoveryMessage(r, d)
           preparations == PayloadsOf(d.PreparationPayloads)
           requests == {m \in preparations : m.type = "PrepareRequest"}
<1>1. /\ msg.type = "RecoveryMessage"
      /\ msg.height = d.BlockIndex /\ msg.view = d.ViewNumber
      /\ msg.prepareRequest
            = IF requests = {} THEN Nil ELSE (CHOOSE m \in requests : TRUE).proposal
      /\ msg.preparationPayloads = {m.from : m \in preparations \ requests}
  BY DEF makeRecoveryMessage
<1>2. \A m \in preparations : \E i \in Validators :
        d.PreparationPayloads[i] # Nil /\ m = d.PreparationPayloads[i] /\ m.from = i
  BY DEF PayloadsOf, Vetted
<1> HIDE DEF msg, preparations
<1>3. ASSUME msg.prepareRequest # Nil, msg.prepareRequest \in Unfit
      PROVE  /\ GetPrimaryIndex(msg.height, msg.view) \notin Correct
             /\ msg.preparationPayloads \cap Correct = {}
  <2>1. PICK m \in requests : msg.prepareRequest = m.proposal
    BY <1>1, <1>3
  <2>2. m = d.PreparationPayloads[PrimaryIndex(d)] /\ m # Nil
    BY <1>2, <2>1 DEF Sane
  <2>3. RequestSentOrReceived(d) /\ d.proposal \in Unfit
    BY <1>3, <2>1, <2>2 DEF RequestSentOrReceived, Tidy
  <2>4. \A i \in Correct : d.PreparationPayloads[i] = Nil
    BY <2>3 DEF Vetted
  <2>5. PrimaryIndex(d) \notin Correct
    BY <2>3, <2>4 DEF RequestSentOrReceived
  <2>6. \A m1 \in preparations : m1.from \notin Correct
    BY <1>2, <2>4
  <2> QED
    BY <1>1, <2>5, <2>6 DEF PrimaryIndex
<1> QED
  BY <1>1, <1>3 DEF Vouches, Backed, Preparations, msg

LEMMA sendRecoveryMessageWise ==
  ASSUME NEW r, NEW S, NEW d, Trusted(r, d, S)
  PROVE  Wise(sendRecoveryMessage(r, d), S)
<1>1. d \in Contexts /\ Sane(d) /\ Tidy(d) /\ Vetted(d) /\ Wise(d, S)
  BY FitContext DEF Trusted, Fit, Wise
<1> QED
  BY <1>1, RecoveryVouches, BroadcastWise DEF sendRecoveryMessage

LEMMA onRecoveryRequestWise ==
  ASSUME NEW r, NEW S, NEW d, Trusted(r, d, S), NEW msg
  PROVE  Wise(onRecoveryRequest(r, d, msg), S)
  BY sendRecoveryMessageWise DEF onRecoveryRequest, Trusted

-----------------------------------------------------------------------------
(* Commits.                                                                 *)

\* One of the M validators whose preparations a (pre)commit takes is correct.
LEMMA HonestQuorum ==
  ASSUME Cardinality(Correct) > F, NEW d \in Contexts, Vetted(d),
         LET counted == {m \in PayloadsOf(d.PreparationPayloads) : m.view = d.ViewNumber}
         IN  ~(Cardinality(counted) < M)
  PROVE  \E i \in Correct : d.PreparationPayloads[i] # Nil
<1> DEFINE counted == {m \in PayloadsOf(d.PreparationPayloads) : m.view = d.ViewNumber}
           senders == {i \in Validators : d.PreparationPayloads[i] # Nil}
           f == [m \in counted |-> m.from]
<1>1. \A m \in counted : m.from \in senders /\ m = d.PreparationPayloads[m.from]
  BY DEF PayloadsOf, Vetted
<1>2. f \in [counted -> senders]
  BY <1>1
<1>3. \A m1, m2 \in counted : f[m1] = f[m2] => m1 = m2
  BY <1>1
<1>4. f \in Injection(counted, senders)
  BY <1>2, <1>3 DEF Injection, IsInjective
<1>5. senders \in SUBSET Validators /\ Correct \in SUBSET Validators
  BY DEF Correct
<1>6. ~(Cardinality(counted) < M)
  OBVIOUS
<1>7. SUFFICES ASSUME Correct \cap senders = {} PROVE FALSE
  BY <1>5
<1> HIDE DEF f, counted, senders
<1>8. /\ IsFiniteSet(senders) /\ Cardinality(senders) \in Nat
      /\ IsFiniteSet(Correct) /\ Cardinality(Correct) \in Nat
  BY <1>5, QuorumFacts
<1>9. IsFiniteSet(counted) /\ Cardinality(counted) <= Cardinality(senders)
  BY <1>4, <1>8, FS_Injection
<1>10. Cardinality(counted) \in Nat /\ M \in Nat /\ F \in Nat /\ M + F = N /\ N \in Nat
  <2>1. N \in Nat \ {0}
    BY NAssumption
  <2>2. F \in Nat /\ M + F = N
    BY <2>1 DEF M, F
  <2> QED
    BY <1>9, <2>1, <2>2, FS_CardinalityType, QuorumFacts
<1>11. Cardinality(Correct \cup senders) = Cardinality(Correct) + Cardinality(senders)
  BY <1>7, <1>8, FS_Union, FS_EmptySet
<1>12. Cardinality(Correct \cup senders) <= N
  BY <1>5, QuorumFacts, FS_Subset
<1> QED
  BY <1>6, <1>8, <1>9, <1>10, <1>11, <1>12

\* What a correct validator (pre)commits to has been prepared by a correct one.
Endorsed(r, d) == r \in Correct => d.proposal \notin Unfit

LEMMA sendPreCommitWise ==
  ASSUME NEW r \in Validators, NEW S, NEW d, Trusted(r, d, S), Endorsed(r, d),
         RequestSentOrReceived(d)
  PROVE  Wise(sendPreCommit(r, d), S)
<1> DEFINE m == makePreCommit(r, d)
           d1 == sendPreCommit(r, d)
<1>1. /\ d \in Contexts /\ Sane(d) /\ Wise(d, S)
      /\ r \in Correct => Locked(r, d, S \cup d.out)
  BY FitContext DEF Trusted, Fit
<1>2. MakePreHeader(d) = [view |-> d.ViewNumber, proposal |-> d.proposal]
  BY DEF MakePreHeader
<1>3. MakePreHeader(d) # Nil
  BY <1>1, HeaderFacts
<1>4. m.type = "PreCommit" /\ m.from = r
  <2>1. CASE d.PreCommitPayloads[r] # Nil
    <3>1. d.PreCommitPayloads[r] \in PreCommits /\ d.PreCommitPayloads[r].from = r
      BY <1>1, <2>1 DEF Contexts, Slots, Trusted, Fit, HoldsGenuine
    <3> QED
      BY <2>1, <3>1 DEF makePreCommit, PreCommits
  <2>2. CASE d.PreCommitPayloads[r] = Nil
    BY <1>3, <2>2 DEF makePreCommit, PreCommitMsg
  <2> QED
    BY <2>1, <2>2
<1>5. r \in Correct => m.sign = MakePreHeader(d)
  BY <1>1, <1>3 DEF makePreCommit, Locked, PreCommitMsg
<1> HIDE DEF m
<1>6. Vouches(m) /\ Backed(m)
  BY <1>2, <1>4, <1>5 DEF Vouches, Backed, Preparations, Endorsed
<1>7. d1 \in {d, Broadcast([d EXCEPT !.PreCommitPayloads[r] = m], m)}
  BY DEF sendPreCommit, m
<1>8. Mild(d, d1)
  <2>1. /\ d1.BlockIndex = d.BlockIndex /\ d1.ViewNumber = d.ViewNumber
        /\ d1.PreparationPayloads = d.PreparationPayloads /\ d1.proposal = d.proposal
        /\ d1.cache = d.cache /\ d1.todo = d.todo
        /\ d1.out \in {d.out, d.out \cup {m}}
    BY <1>1, <1>7 DEF Broadcast, Contexts
  <2> QED
    BY <1>6, <2>1 DEF Mild
<1> QED
  BY <1>1, <1>8, MildWise

LEMMA sendCommitWise ==
  ASSUME NEW r \in Validators, NEW S, NEW d, Trusted(r, d, S), Endorsed(r, d),
         HeaderReady(d)
  PROVE  Wise(sendCommit(r, d), S)
<1> DEFINE m == makeCommit(r, d)
           d1 == sendCommit(r, d)
           own == d.CommitPayloads[r]
<1>1. /\ d \in Contexts /\ Sane(d) /\ Wise(d, S)
      /\ r \in Correct => Locked(r, d, S \cup d.out)
  BY FitContext DEF Trusted, Fit
<1>2. /\ MakeHeader(d) = [view |-> d.ViewNumber, proposal |-> d.proposal]
      /\ MakeHeader(d) # Nil
  <2>1. MakePreHeader(d) = [view |-> d.ViewNumber, proposal |-> d.proposal]
    BY DEF MakePreHeader, HeaderReady
  <2> QED
    BY <1>1, <2>1, HeaderFacts DEF HeaderReady
<1>3. ASSUME own # Nil PROVE Vouches(m) /\ Backed(m)
  <2>1. own \in Commits /\ m = own /\ own.from = r
    BY <1>1, <1>3 DEF makeCommit, Contexts, Slots, Sane
  <2>2. own.type = "Commit"
    BY <2>1 DEF Commits
  <2>3. r \in Correct => own \in S \cup d.out
    BY <1>1, <1>3 DEF Locked
  <2>4. Vouches(own) /\ Backed(own)
    BY <1>1, <2>1, <2>2, <2>3 DEF Wise, Vouches, Backed, Preparations
  <2> QED
    BY <2>1, <2>4
<1>4. ASSUME own = Nil PROVE Vouches(m) /\ Backed(m)
  <2>1. m = CommitMsg(d.BlockIndex, d.ViewNumber, r, MakeHeader(d))
    BY <1>2, <1>4 DEF makeCommit
  <2>2. m.type = "Commit" /\ m.from = r /\ m.sign.proposal = d.proposal
    BY <1>2, <2>1 DEF CommitMsg
  <2> HIDE DEF m
  <2> QED
    BY <2>2 DEF Vouches, Backed, Preparations, Endorsed
<1>5. Vouches(m) /\ Backed(m)
  BY <1>3, <1>4
<1> HIDE DEF m
<1>6. d1 \in {d, Broadcast([d EXCEPT !.CommitPayloads[r] = m], m)}
  BY DEF sendCommit, m
<1>7. Mild(d, d1)
  <2>1. /\ d1.BlockIndex = d.BlockIndex /\ d1.ViewNumber = d.ViewNumber
        /\ d1.PreparationPayloads = d.PreparationPayloads /\ d1.proposal = d.proposal
        /\ d1.cache = d.cache /\ d1.todo = d.todo
        /\ d1.out \in {d.out, d.out \cup {m}}
    BY <1>1, <1>6 DEF Broadcast, Contexts
  <2> QED
    BY <1>5, <2>1 DEF Mild
<1> QED
  BY <1>1, <1>7, MildWise

\* With the extension the Commit follows a PreCommit, which has been endorsed.
LEMMA checkPreCommitWise ==
  ASSUME NEW r \in Nodes, NEW S \in SUBSET Payloads, NEW d, Trusted(r, d, S),
         RequestSentOrReceived(d), isAntiMEVExtensionEnabled(d), NEW e
  PROVE  Wise(checkPreCommit(r, d, e), S)
<1> DEFINE processed == [d EXCEPT !.preBlockProcessed = TRUE]
           verified == verifyCommitPayloadsAgainstHeader(processed)
           sent == sendCommit(r, verified)
           timed == changeTimer(sent, "commit")
<1>1. Fit(r, d, S) /\ Wise(d, S) /\ d \in Contexts
  BY FitContext DEF Trusted
<1>2. /\ Fit(r, processed, S) /\ HeaderReady(processed)
      /\ isAntiMEVExtensionEnabled(processed)
      /\ processed.PreCommitPayloads = d.PreCommitPayloads
      /\ processed \in Contexts
      /\ Good(r, processed, Due(r, S))
  BY <1>1, preBlockProcessedStep, FitContext DEF Step
<1>3. Alike(d, processed)
  BY <1>1, FieldAlike
<1>4. checkPreCommit(r, d, e)
        \in {d, processed, IF PreCommitSent(r, d) THEN checkCommit(timed, e) ELSE d}
  BY DEF checkPreCommit
<1> HIDE DEF processed
<1>5. Wise(processed, S)
  BY <1>1, <1>3, AlikeWise
<1>6. /\ Fit(r, verified, S) /\ HeaderReady(verified)
      /\ verified.PreCommitPayloads = d.PreCommitPayloads
      /\ verified.proposal = d.proposal
      /\ \A i \in Validators :
            LET m == verified.CommitPayloads[i]
            IN  m # Nil /\ m.view = verified.ViewNumber => m.sign = MakePreHeader(verified)
  <2>1. /\ HeaderReady(verified)
        /\ \A i \in Validators :
              LET m == verified.CommitPayloads[i]
              IN  m # Nil /\ m.view = verified.ViewNumber => m.sign = MakePreHeader(verified)
    BY <1>2, verifyCommitsGood, Zenon
  <2>2. Step(r, processed, verified, S)
    BY <1>2, verifyCommitsStep
  <2>3. /\ verified.PreCommitPayloads = processed.PreCommitPayloads
        /\ verified.proposal = processed.proposal
    BY <1>2 DEF verifyCommitPayloadsAgainstHeader, Contexts
  <2> HIDE DEF verified
  <2> QED
    BY <1>2, <1>3, <2>1, <2>2, <2>3 DEF Step, Alike
<1>7. Wise(verified, S)
  BY <1>2, <1>5, CommitFieldsMild, MildWise
<1> HIDE DEF verified
<1>8. ASSUME PreCommitSent(r, d)
      PROVE  Wise(checkCommit(timed, e), S)
  <2>1. r \in Validators /\ d.PreCommitPayloads[r] # Nil
    BY <1>8, NodeFacts DEF PreCommitSent
  <2>2. Endorsed(r, verified)
    <3>1. SUFFICES ASSUME r \in Correct PROVE d.proposal \notin Unfit
      BY <1>6 DEF Endorsed
    <3> DEFINE own == d.PreCommitPayloads[r]
    <3>2. /\ own = PreCommitMsg(d.BlockIndex, d.ViewNumber, r, MakePreHeader(d))
          /\ own \in S \cup d.out
      BY <1>1, <2>1, <3>1 DEF Fit, Locked
    <3>3. own.type = "PreCommit" /\ own.from = r /\ own.sign.proposal = d.proposal
      BY <3>2 DEF PreCommitMsg, MakePreHeader
    <3> QED
      BY <1>1, <3>1, <3>2, <3>3 DEF Wise, Backed
  <2>3. Wise(sent, S)
    BY <1>6, <1>7, <2>1, <2>2, sendCommitWise DEF Trusted
  <2>4. Step(r, verified, sent, S)
    BY <1>6, <2>1, sendCommitStep
  <2> HIDE DEF sent
  <2>5. sent \in Contexts
    BY <2>4, FitContext DEF Step
  <2>6. Wise(timed, S) /\ timed \in Contexts
    BY <2>3, <2>5, Names, CallAlike, AlikeWise, changeTimerSame DEF Same
  <2> QED
    BY <2>6, checkCommitWise
<1> QED
  BY <1>1, <1>4, <1>5, <1>8

LEMMA checkPrepareWise ==
  ASSUME Cardinality(Correct) > F, NEW r \in Validators, NEW S \in SUBSET Payloads,
         NEW d0, Trusted(r, d0, S), NEW e
  PROVE  Wise(checkPrepare(r, d0, e), S)
<1> DEFINE d == Call(d0, "checkPrepare")
<1>1. d0 \in Contexts /\ Wise(d0, S) /\ Fit(r, d0, S)
  BY FitContext DEF Trusted
<1>2. Wise(d, S)
  BY <1>1, CallAlike, AlikeWise
<1>3. Still(r, d0, d, S)
  BY <1>1, Names, CallStill
<1> HIDE DEF d
<1> DEFINE preparations == PayloadsOf(d.PreparationPayloads)
           counted == {m \in preparations : m.view = d.ViewNumber}
           hasRequest == \E m \in preparations : m.type = "PrepareRequest"
<1>4. d \in Contexts /\ Sane(d) /\ Fit(r, d, S) /\ r \in Nodes
  BY <1>3, StillFacts, FitContext DEF Nodes
<1>5. SUFFICES ASSUME hasRequest, ~(Cardinality(counted) < M), checkPrepare(r, d0, e) # d
               PROVE  Wise(checkPrepare(r, d0, e), S)
  BY <1>2 DEF checkPrepare, d
<1>6. RequestSentOrReceived(d)
  BY <1>4, <1>5 DEF Sane, RequestSentOrReceived, PayloadsOf
<1>7. Endorsed(r, d)
  <2>1. Vetted(d)
    BY <1>2 DEF Wise
  <2>2. \E i \in Correct : d.PreparationPayloads[i] # Nil
    BY <1>4, <1>5, <2>1, HonestQuorum
  <2> QED
    BY <1>6, <2>1, <2>2 DEF Vetted, Endorsed
<1>8. CASE isAntiMEVExtensionEnabled(d)
  <2> DEFINE sent == sendPreCommit(r, d)
             timed == changeTimer(sent, "commit")
  <2>1. Step(r, d, sent, S) /\ Same(d, sent)
    BY <1>4, <1>6, <1>8, sendPreCommitStep
  <2>2. checkPrepare(r, d0, e) = checkPreCommit(r, timed, e)
    BY <1>5, <1>8 DEF checkPrepare, d
  <2>3. Wise(sent, S)
    BY <1>2, <1>4, <1>6, <1>7, sendPreCommitWise DEF Trusted
  <2> HIDE DEF sent
  <2>4. RequestSentOrReceived(sent) /\ isAntiMEVExtensionEnabled(sent)
    BY <1>6, <1>8, <2>1, SameFacts
  <2>5. Still(r, sent, timed, S) /\ sent \in Contexts
    BY <2>1, Names, changeTimerStill, FitContext DEF Step
  <2>6. Wise(timed, S)
    BY <2>3, <2>5, CallAlike, AlikeWise
  <2> HIDE DEF timed
  <2>7. /\ Fit(r, timed, S)
        /\ RequestSentOrReceived(timed) /\ isAntiMEVExtensionEnabled(timed)
    BY <2>4, <2>5, StillFacts
  <2> QED
    BY <1>4, <2>2, <2>6, <2>7, checkPreCommitWise DEF Trusted
<1>9. CASE ~isAntiMEVExtensionEnabled(d)
  <2> DEFINE sent == sendCommit(r, d)
             timed == changeTimer(sent, "commit")
  <2>1. HeaderReady(d)
    BY <1>6, <1>9 DEF HeaderReady
  <2>2. Step(r, d, sent, S)
    BY <1>4, <1>9, <2>1, sendCommitStep
  <2>3. checkPrepare(r, d0, e) = checkCommit(timed, e)
    BY <1>5, <1>9 DEF checkPrepare, d
  <2>4. Wise(sent, S)
    BY <1>2, <1>4, <1>7, <2>1, sendCommitWise DEF Trusted
  <2> HIDE DEF sent
  <2>5. sent \in Contexts
    BY <2>2, FitContext DEF Step
  <2>6. Wise(timed, S) /\ timed \in Contexts
    BY <2>4, <2>5, Names, CallAlike, AlikeWise, changeTimerSame DEF Same
  <2> QED
    BY <2>3, <2>6, checkCommitWise
<1> QED
  BY <1>8, <1>9

-----------------------------------------------------------------------------
(* Opening a height or a view.                                              *)

LEMMA resetWise ==
  ASSUME NEW r \in Nodes, NEW S, NEW d \in Contexts, Wise(d, S),
         NEW view \in Views, NEW height \in Nat, view = 0 => d.todo = <<>>
  PROVE  Wise(reset(r, d, view, height), S)
<1> DEFINE d1 == reset(r, d, view, height)
<1>1. /\ d1 \in Contexts
      /\ d1.BlockIndex = IF view = 0 THEN height ELSE d.BlockIndex
      /\ d1.PreparationPayloads = NoPayloads
      /\ d1.cache = d.cache /\ d1.todo = d.todo /\ d1.out = d.out
  BY resetFacts
<1> HIDE DEF d1
<1>2. ~RequestSentOrReceived(d1) /\ \A i \in Validators : d1.PreparationPayloads[i] = Nil
  BY <1>1, NodeFacts DEF RequestSentOrReceived, NoPayloads
<1>3. \A item \in RangeOf(d1.todo) : VouchesItem(item, d1.BlockIndex)
  <2>1. CASE view = 0
    BY <1>1, <2>1 DEF RangeOf
  <2>2. CASE view # 0
    BY <1>1, <2>2 DEF Wise, Vetted
  <2> QED
    BY <2>1, <2>2
<1>4. \A m \in d1.cache : Vouches(m)
  BY <1>1 DEF Wise, Vetted
<1>5. Vetted(d1)
  BY <1>2, <1>3, <1>4 DEF Vetted
<1>6. Wise(d1, S)
  BY <1>1, <1>5 DEF Wise
<1> QED
  BY <1>6 DEF d1

LEMMA initializeConsensusWise ==
  ASSUME NEW r \in Nodes, NEW S, NEW d \in Contexts, Wise(d, S),
         NEW view \in Views, NEW height \in Nat, view = 0 => d.todo = <<>>
  PROVE  Wise(initializeConsensus(r, d, view, height), S)
<1> DEFINE d0 == reset(r, d, view, height)
           d1 == Call(d0, "reset")
           inbox == getHeight(d1, d1.BlockIndex)
           d2 == [d1 EXCEPT !.cache = d1.cache \ inbox]
           Mail(kind) == Replay({m \in inbox : InboxOf(m.type) = kind})
           items == <<Mail("prepare"), Mail("ChangeView"), Mail("PreCommit"),
                      Mail("Commit"), [op |-> "armTimer", view |-> view]>>
           d3 == initializeConsensus(r, d, view, height)
<1>1. Wise(d0, S) /\ d0 \in Contexts
  BY resetWise, resetFacts
<1>2. d3 = IF inbox = {} THEN armTimer(r, d1, view) ELSE Push(d2, items)
  BY DEF initializeConsensus
<1> HIDE DEF d0, d3
<1>3. Wise(d1, S) /\ d1 \in Contexts
  BY <1>1, Names, CallAlike, AlikeWise, CallSame DEF Same
<1> HIDE DEF d1
<1>4. d1.cache \subseteq Restorable /\ \A m \in d1.cache : Vouches(m)
  BY <1>3 DEF Contexts, Wise, Vetted
<1>5. inbox \subseteq d1.cache
  BY DEF getHeight
<1> HIDE DEF inbox
<1>6. Wise(d2, S) /\ d2 \in Contexts
  <2>1. Mild(d1, d2)
    BY <1>3 DEF Mild, Contexts
  <2>2. d2 \in Contexts
    BY <1>3, <1>4, FieldTypes
  <2> QED
    BY <1>3, <2>1, <2>2, MildWise
<1>7. \A kind : Mail(kind) \in WorkItems /\ \A h : VouchesItem(Mail(kind), h)
  BY <1>4, <1>5 DEF Replay, WorkItems, VouchesItem
<1>8. /\ [op |-> "armTimer", view |-> view] \in WorkItems
      /\ \A h : VouchesItem([op |-> "armTimer", view |-> view], h)
  BY DEF WorkItems, VouchesItem
<1> HIDE DEF Mail, d2
<1>9. items \in Seq(WorkItems)
  BY <1>7, <1>8
<1>10. \A item \in RangeOf(items) : VouchesItem(item, d2.BlockIndex)
  <2>1. RangeOf(items) = {Mail("prepare"), Mail("ChangeView"), Mail("PreCommit"),
                          Mail("Commit"), [op |-> "armTimer", view |-> view]}
    BY FiveRange
  <2> QED
    BY <1>7, <1>8, <2>1
<1> HIDE DEF items
<1>11. Wise(Push(d2, items), S)
  BY <1>6, <1>9, <1>10, PushWise
<1>12. Wise(d3, S)
  BY <1>2, <1>3, <1>11, armTimerAlike, AlikeWise
<1> QED
  BY <1>12 DEF d3

LEMMA checkChangeViewWise ==
  ASSUME NEW r \in Nodes, NEW S, NEW d, Trusted(r, d, S), NEW view \in Views
  PROVE  Wise(checkChangeView(r, d, view), S)
<1> DEFINE mine == IF WatchOnly(r) THEN Nil ELSE d.ChangeViewPayloads[r]
           agree == mine # Nil /\ mine.newView < view
           d1 == IF agree THEN broadcastChangeView(r, d) ELSE d
<1>1. /\ d.BlockIndex \in Nat /\ d.ViewNumber \in Nat /\ view \in Nat
      /\ Fit(r, d, S) /\ Wise(d, S) /\ d \in Contexts
  BY FitContext, FitTypes, ViewFacts DEF Trusted
<1>2. d1 \in Contexts
  <2>1. agree => r \in Validators
    BY NodeFacts
  <2>2. Still(r, d, d1, S)
    BY <1>1, <2>1, StepReflexive, broadcastChangeViewStill
  <2> QED
    BY <2>2, StillFacts
<1>3. Wise(d1, S)
  BY <1>1, broadcastChangeViewWise
<1>4. \/ checkChangeView(r, d, view) = d
      \/ ~(d.ViewNumber >= view)
         /\ checkChangeView(r, d, view) = initializeConsensus(r, d1, view, d.BlockIndex)
  BY DEF checkChangeView
<1> HIDE DEF d1
<1>5. ~(d.ViewNumber >= view) => view # 0
  BY <1>1
<1> QED
  BY <1>1, <1>2, <1>3, <1>4, <1>5, initializeConsensusWise

LEMMA sendChangeViewWise ==
  ASSUME NEW r \in Nodes, NEW S, NEW d, Trusted(r, d, S), NEW e, NEW reason
  PROVE  Wise(sendChangeView(r, d, e, reason), S)
<1> DEFINE d1 == changeTimer(d, "changeView")
           d2 == broadcastChangeView(r, d1)
           view == (d.ViewNumber + 1) % ViewSize
<1>1. Fit(r, d, S) /\ Wise(d, S) /\ d \in Contexts /\ view \in Views
  BY FitContext, FitTypes, ViewFacts DEF Trusted
<1>2. SUFFICES ASSUME ~WatchOnly(r)
               PROVE  Wise(sendChangeView(r, d, e, reason), S)
  BY <1>1 DEF sendChangeView
<1>3. r \in Validators
  BY <1>2, NodeFacts
<1>4. Still(r, d, d1, S) /\ Wise(d1, S)
  BY <1>1, Names, changeTimerStill, CallAlike, AlikeWise
<1>5. sendChangeView(r, d, e, reason)
        \in {sendRecoveryRequest(r, d1, e), checkChangeView(r, d2, view)}
  BY <1>2 DEF sendChangeView
<1> HIDE DEF d1, view
<1>6. Fit(r, d1, S) /\ d1 \in Contexts
  BY <1>4, StillFacts
<1>7. Still(r, d1, d2, S) /\ Wise(d2, S)
  BY <1>3, <1>4, <1>6, broadcastChangeViewStill, broadcastChangeViewWise
<1> HIDE DEF d2
<1>8. Trusted(r, d2, S)
  BY <1>7, StillFacts DEF Trusted
<1>9. Wise(checkChangeView(r, d2, view), S)
  BY <1>1, <1>8, checkChangeViewWise
<1>10. Wise(sendRecoveryRequest(r, d1, e), S)
  BY <1>4, <1>6, sendRecoveryRequestWise
<1> QED
  BY <1>5, <1>9, <1>10

-----------------------------------------------------------------------------
(* Preparations.                                                            *)

\* Before the request is there, slots may be cleared and the proposal changed.
LEMMA FewerWise ==
  ASSUME NEW d \in Contexts, NEW S, Wise(d, S), ~RequestSentOrReceived(d), NEW d1,
         d1.BlockIndex = d.BlockIndex,
         d1.ViewNumber = d.ViewNumber,
         \A i \in Validators :
            d1.PreparationPayloads[i] \in {Nil, d.PreparationPayloads[i]},
         d1.cache = d.cache, d1.todo = d.todo, d1.out = d.out
  PROVE  Wise(d1, S)
<1>1. PrimaryIndex(d1) = PrimaryIndex(d) /\ PrimaryIndex(d) \in Validators
  BY NodeFacts DEF PrimaryIndex
<1>2. ~RequestSentOrReceived(d1)
  BY <1>1 DEF RequestSentOrReceived
<1>3. ASSUME NEW i \in Validators, d1.PreparationPayloads[i] # Nil
      PROVE  d1.PreparationPayloads[i].from = i /\ Vouches(d1.PreparationPayloads[i])
  <2>1. d1.PreparationPayloads[i] = d.PreparationPayloads[i]
    BY <1>3
  <2> QED
    BY <1>3, <2>1 DEF Wise, Vetted
<1>4. Vetted(d1)
  BY <1>2, <1>3 DEF Wise, Vetted
<1> QED
  BY <1>4 DEF Wise

\* A preparation that vouches for itself is stored: next to a request that is
\* unfit it is of no correct validator.
LEMMA StoredWise ==
  ASSUME NEW d \in Contexts, NEW S, Wise(d, S), NEW i \in Validators,
         NEW m \in PrepareRequests \cup PrepareResponses, m.from = i, Vouches(m),
         NEW d1,
         d1.BlockIndex = d.BlockIndex,
         d1.ViewNumber = d.ViewNumber,
         d1.PreparationPayloads = [d.PreparationPayloads EXCEPT ![i] = m],
         d1.cache = d.cache, d1.todo = d.todo, d1.out \in {d.out, d.out \cup {m}},
         RequestSentOrReceived(d) => d1.proposal = d.proposal,
         i = PrimaryIndex(d) =>
            /\ d1.proposal \notin Rejected \ Drafts
            /\ d1.proposal \in Unfit =>
                /\ m.type = "PrepareRequest"
                /\ \A j \in Correct : d.PreparationPayloads[j] = Nil,
         RequestSentOrReceived(d) \/ i = PrimaryIndex(d) =>
            (d1.proposal \in Unfit => i \notin Correct)
  PROVE  Wise(d1, S)
<1>1. PrimaryIndex(d1) = PrimaryIndex(d) /\ PrimaryIndex(d) \in Validators
  BY NodeFacts DEF PrimaryIndex
<1>2. \A j \in Validators :
        d1.PreparationPayloads[j] = IF j = i THEN m ELSE d.PreparationPayloads[j]
  BY DEF Contexts, Slots
<1>3. RequestSentOrReceived(d1) => RequestSentOrReceived(d) \/ i = PrimaryIndex(d)
  BY <1>1, <1>2 DEF RequestSentOrReceived
<1>4. Backed(m)
  BY DEF Backed, PrepareRequests, PrepareResponses
<1>5. \A k \in S \cup d1.out : Vouches(k) /\ Backed(k)
  BY <1>4 DEF Wise
<1>6. RequestSentOrReceived(d1) => d1.proposal \notin Rejected \ Drafts
  BY <1>3 DEF Wise, Vetted
<1>7. ASSUME RequestSentOrReceived(d1), d1.proposal \in Unfit
      PROVE  /\ d1.PreparationPayloads[PrimaryIndex(d1)].type = "PrepareRequest"
             /\ \A j \in Correct : d1.PreparationPayloads[j] = Nil
  <2>1. Correct \subseteq Validators
    BY DEF Correct
  <2>2. CASE i = PrimaryIndex(d)
    BY <1>1, <1>2, <1>7, <2>1, <2>2
  <2>3. CASE i # PrimaryIndex(d)
    <3>1. RequestSentOrReceived(d) /\ d.proposal \in Unfit
      BY <1>3, <1>7, <2>3
    <3> QED
      BY <1>1, <1>2, <1>7, <2>1, <2>3, <3>1 DEF Wise, Vetted
  <2> QED
    BY <2>2, <2>3
<1>8. \A j \in Validators :
        d1.PreparationPayloads[j] # Nil =>
            /\ d1.PreparationPayloads[j].from = j
            /\ Vouches(d1.PreparationPayloads[j])
  BY <1>2 DEF Wise, Vetted
<1>9. Vetted(d1)
  BY <1>6, <1>7, <1>8 DEF Wise, Vetted
<1> QED
  BY <1>5, <1>9 DEF Wise

\* A primary that runs the library proposes one of its drafts.
LEMMA sendPrepareRequestWise ==
  ASSUME Cardinality(Correct) > F, NEW r \in Nodes, NEW S \in SUBSET Payloads, NEW d,
         Trusted(r, d, S), ~RequestSentOrReceived(d), r = PrimaryIndex(d), NEW force,
         NEW e, e.fill \in Drafts, e.refill \in Drafts
  PROVE  Wise(sendPrepareRequest(r, d, force, e), S)
<1> DEFINE p == IF CanFill(e.fill, force) THEN e.fill ELSE e.refill
           msg == PrepareRequestMsg(d.BlockIndex, d.ViewNumber, r, p)
           filled == [d EXCEPT
                        !.proposal = p,
                        !.Transactions = d.Transactions \cup RangeOf(TxOf[p]),
                        !.txSubscriptionOn = FALSE,
                        !.PreparationPayloads[r] = msg]
           sent == Broadcast(filled, msg)
           noted == Call(sent, "prepareSent")
           timed == changeTimer(noted, "request")
<1>1. /\ Fit(r, d, S) /\ Wise(d, S) /\ d \in Contexts
      /\ d.BlockIndex \in Nat /\ d.ViewNumber \in Views
      /\ r \in Validators /\ p \in Drafts /\ p \in Proposals
  BY FitContext, FitTypes, NodeFacts, RunningFacts DEF Trusted
<1>2. sendPrepareRequest(r, d, force, e)
        \in {waitForTransactions(d, "subscribe"), checkPrepare(r, timed, e)}
  BY DEF sendPrepareRequest
<1>3. Wise(waitForTransactions(d, "subscribe"), S)
  BY <1>1, waitForTransactionsAlike, AlikeWise
<1> HIDE DEF p
<1>4. msg \in PrepareRequests /\ msg.from = r /\ msg.proposal = p
  BY <1>1 DEF PrepareRequestMsg, PrepareRequests
<1>5. p \notin Unfit /\ p \notin Rejected \ Drafts
  BY <1>1 DEF Unfit
<1>6. Fit(r, sent, S)
  BY <1>1, ProposeStep DEF Step
<1> HIDE DEF msg
<1>7. Vouches(msg)
  BY <1>4, <1>5 DEF Vouches, PrepareRequests, Preparations
<1>8. /\ sent.BlockIndex = d.BlockIndex
      /\ sent.ViewNumber = d.ViewNumber
      /\ sent.PreparationPayloads = [d.PreparationPayloads EXCEPT ![r] = msg]
      /\ sent.proposal = p
      /\ sent.cache = d.cache /\ sent.todo = d.todo /\ sent.out = d.out \cup {msg}
  BY <1>1 DEF Contexts, Broadcast
<1> HIDE DEF sent
<1>9. Wise(sent, S)
  BY <1>1, <1>4, <1>5, <1>7, <1>8, StoredWise
<1>10. sent \in Contexts
  BY <1>6, FitContext
<1>11. Fit(r, noted, S) /\ Wise(noted, S) /\ noted \in Contexts
  BY <1>6, <1>9, <1>10, Names, CallStill, StillFacts, CallAlike, AlikeWise
<1> HIDE DEF noted
<1>12. Fit(r, timed, S) /\ Wise(timed, S)
  BY <1>11, Names, changeTimerStill, StillFacts, CallAlike, AlikeWise
<1> HIDE DEF timed
<1>13. Wise(checkPrepare(r, timed, e), S)
  BY <1>1, <1>12, checkPrepareWise DEF Trusted
<1> QED
  BY <1>2, <1>3, <1>13

LEMMA sendPrepareResponseWise ==
  ASSUME NEW r \in Validators, NEW S, NEW d, Trusted(r, d, S),
         RequestSentOrReceived(d), d.proposal \notin Unfit
  PROVE  Wise(sendPrepareResponse(r, d), S)
<1> DEFINE request == d.PreparationPayloads[PrimaryIndex(d)]
           msg == PrepareResponseMsg(d.BlockIndex, d.ViewNumber, r, request.proposal)
           d1 == sendPrepareResponse(r, d)
<1>1. /\ d \in Contexts /\ Wise(d, S) /\ d.BlockIndex \in Nat /\ d.ViewNumber \in Views
      /\ d.proposal \in Proposals /\ request.proposal = d.proposal
  <2>1. d \in Contexts /\ Sane(d) /\ Tidy(d) /\ Wise(d, S)
    BY FitContext DEF Fit, Trusted
  <2> QED
    BY <2>1 DEF Sane, Contexts, Tidy
<1>2. msg \in PrepareResponses /\ msg.from = r /\ msg.proposal = d.proposal
  BY <1>1 DEF PrepareResponseMsg, PrepareResponses
<1>3. d1 = Broadcast([d EXCEPT !.PreparationPayloads[r] = msg], msg)
  BY DEF sendPrepareResponse
<1> HIDE DEF msg, d1
<1>4. Vouches(msg)
  BY <1>2 DEF Vouches, PrepareResponses, Preparations
<1>5. /\ d1.BlockIndex = d.BlockIndex
      /\ d1.ViewNumber = d.ViewNumber
      /\ d1.PreparationPayloads = [d.PreparationPayloads EXCEPT ![r] = msg]
      /\ d1.proposal = d.proposal
      /\ d1.cache = d.cache /\ d1.todo = d.todo /\ d1.out = d.out \cup {msg}
  BY <1>1, <1>3 DEF Contexts, Broadcast
<1>6. d.proposal \notin Rejected \ Drafts
  BY <1>1 DEF Wise, Vetted
<1>7. Wise(d1, S)
  BY <1>1, <1>2, <1>4, <1>5, <1>6, StoredWise
<1> QED
  BY <1>7 DEF d1

LEMMA updateExistingPayloadsWise ==
  ASSUME NEW d \in Contexts, NEW S, Wise(d, S), ~RequestSentOrReceived(d), NEW msg
  PROVE  LET d1 == updateExistingPayloads(d, msg)
         IN  /\ Wise(d1, S)
             /\ d1.BlockIndex = d.BlockIndex /\ d1.ViewNumber = d.ViewNumber
             /\ d1.proposal = d.proposal /\ d1.cache = d.cache /\ d1.todo = d.todo
             /\ d1.out = d.out
             /\ \A i \in Validators :
                    d1.PreparationPayloads[i] \in {Nil, d.PreparationPayloads[i]}
             /\ \A i \in Validators :
                    LET m == d1.PreparationPayloads[i]
                    IN  m # Nil /\ m.type = "PrepareResponse" =>
                            m.proposal = msg.proposal
<1> DEFINE x == [i \in Validators |->
                    IF /\ d.PreparationPayloads[i] # Nil
                       /\ d.PreparationPayloads[i].type = "PrepareResponse"
                       /\ d.PreparationPayloads[i].proposal # msg.proposal
                    THEN Nil
                    ELSE d.PreparationPayloads[i]]
           d0 == [d EXCEPT !.PreparationPayloads = x]
           d1 == updateExistingPayloads(d, msg)
<1>1. /\ \A i \in Validators : x[i] \in {Nil, d.PreparationPayloads[i]}
      /\ \A i \in Validators :
            x[i] # Nil /\ x[i].type = "PrepareResponse" => x[i].proposal = msg.proposal
  OBVIOUS
<1>2. d1 = IF isAntiMEVExtensionEnabled(d)
           THEN verifyPreCommitPayloadsAgainstPreBlock(d0)
           ELSE verifyCommitPayloadsAgainstHeader(d0)
  BY DEF updateExistingPayloads
<1> HIDE DEF x, d1
<1>3. /\ d1.BlockIndex = d.BlockIndex
      /\ d1.ViewNumber = d.ViewNumber
      /\ d1.PreparationPayloads = x
      /\ d1.proposal = d.proposal
      /\ d1.cache = d.cache /\ d1.todo = d.todo /\ d1.out = d.out
  BY <1>2 DEF Contexts, verifyPreCommitPayloadsAgainstPreBlock,
              verifyCommitPayloadsAgainstHeader
<1>4. Wise(d1, S)
  BY <1>1, <1>3, FewerWise
<1> QED
  BY <1>1, <1>3, <1>4 DEF d1

\* The responses that are kept are for the request: when it is unfit none of
\* them is of a correct validator.
LEMMA acceptPrepareRequestWise ==
  ASSUME NEW r \in Nodes, NEW S \in SUBSET Payloads, NEW d, Trusted(r, d, S),
         ~RequestSentOrReceived(d), NEW msg \in PrepareRequests,
         msg.from = PrimaryIndex(d), msg.proposal \notin Rejected, Vouches(msg), NEW e
  PROVE  Wise(acceptPrepareRequest(d, msg, e), S)
<1> DEFINE d1 == [d EXCEPT !.proposal = msg.proposal]
           d2 == processMissingTx(d1, e)
           d3 == updateExistingPayloads(d2, msg)
           d4 == [d3 EXCEPT !.PreparationPayloads[msg.from] = msg]
<1>1. /\ msg.proposal \in Proposals /\ msg.from \in Validators
      /\ msg.type = "PrepareRequest"
      /\ Fit(r, d, S) /\ Wise(d, S) /\ d \in Contexts
  BY FitContext DEF PrepareRequests, Trusted
<1>2. /\ Fit(r, d1, S) /\ ~RequestSentOrReceived(d1) /\ d1.proposal = msg.proposal
      /\ PrimaryIndex(d1) = PrimaryIndex(d)
  BY <1>1, ProposalStep DEF Step
<1>3. Wise(d1, S) /\ d1 \in Contexts
  <2>1. /\ d1.BlockIndex = d.BlockIndex /\ d1.ViewNumber = d.ViewNumber
        /\ d1.PreparationPayloads = d.PreparationPayloads
        /\ d1.cache = d.cache /\ d1.todo = d.todo /\ d1.out = d.out
    BY <1>1 DEF Contexts
  <2> HIDE DEF d1
  <2>2. Wise(d1, S)
    BY <1>1, <2>1, FewerWise
  <2> QED
    BY <1>2, <2>2, FitContext
<1>4. acceptPrepareRequest(d, msg, e) = d4
  BY DEF acceptPrepareRequest
<1> HIDE DEF d1, d4
<1>5. Still(r, d1, d2, S) /\ Alike(d1, d2)
  BY <1>2, <1>3, processMissingTxStill, processMissingTxAlike
<1> HIDE DEF d2
<1>6. /\ Fit(r, d2, S) /\ d2 \in Contexts /\ Sane(d2) /\ ~RequestSentOrReceived(d2)
      /\ d2.proposal = msg.proposal /\ PrimaryIndex(d2) = PrimaryIndex(d)
      /\ Wise(d2, S)
  BY <1>2, <1>3, <1>5, StillFacts, AlikeWise, FitContext
<1>7. /\ Fit(r, d3, S) /\ PrimaryIndex(d3) = PrimaryIndex(d)
      /\ ~RequestSentOrReceived(d3) /\ d3.proposal = msg.proposal
  BY <1>6, updateExistingPayloadsStep DEF Step
<1>8. /\ Wise(d3, S)
      /\ \A i \in Validators :
            LET m == d3.PreparationPayloads[i]
            IN  m # Nil /\ m.type = "PrepareResponse" => m.proposal = msg.proposal
  BY <1>6, updateExistingPayloadsWise
<1> HIDE DEF d3
<1>9. d3 \in Contexts /\ Sane(d3)
  BY <1>7, FitContext
<1>10. ASSUME msg.proposal \in Unfit
       PROVE  /\ msg.from \notin Correct
              /\ \A j \in Correct : d3.PreparationPayloads[j] = Nil
  <2>1. msg.from \notin Correct
    BY <1>1, <1>10 DEF Vouches, Preparations
  <2>2. SUFFICES ASSUME NEW j \in Correct, d3.PreparationPayloads[j] # Nil
                 PROVE  FALSE
    BY <2>1
  <2> DEFINE m == d3.PreparationPayloads[j]
  <2>3. j \in Validators
    BY DEF Correct
  <2>4. /\ m.from = j /\ Vouches(m)
        /\ m \in PrepareRequests \cup PrepareResponses
    BY <1>8, <1>9, <2>2, <2>3 DEF Wise, Vetted, Contexts, Slots
  <2>5. j # PrimaryIndex(d3)
    BY <1>7, <2>2 DEF RequestSentOrReceived
  <2>6. m.type = "PrepareResponse"
    BY <1>9, <2>2, <2>3, <2>4, <2>5 DEF Sane, PrepareRequests, PrepareResponses
  <2>7. m.proposal = msg.proposal
    BY <1>8, <2>2, <2>3, <2>6
  <2> QED
    BY <1>10, <2>4, <2>6, <2>7 DEF Vouches, Preparations
<1>11. /\ d4.BlockIndex = d3.BlockIndex /\ d4.ViewNumber = d3.ViewNumber
       /\ d4.PreparationPayloads = [d3.PreparationPayloads EXCEPT ![msg.from] = msg]
       /\ d4.proposal = msg.proposal
       /\ d4.cache = d3.cache /\ d4.todo = d3.todo /\ d4.out = d3.out
  BY <1>7, <1>9 DEF d4, Contexts
<1>12. Wise(d4, S)
  BY <1>1, <1>7, <1>8, <1>9, <1>10, <1>11, StoredWise
<1> QED
  BY <1>4, <1>12

\* The answer to a request that passes the checks.
LEMMA respondWise ==
  ASSUME Cardinality(Correct) > F, NEW r \in Nodes, NEW S \in SUBSET Payloads, NEW d,
         Trusted(r, d, S), RequestSentOrReceived(d), NEW e
  PROVE  Wise(respond(r, d, e), S)
<1>1. Wise(rejectBlock(r, d, e), S)
  BY sendChangeViewWise DEF rejectBlock
<1>2. ASSUME ~WatchOnly(r), BlockVerified(d)
      PROVE  Wise(checkPrepare(r, sendPrepareResponse(r, d), e), S)
  <2> DEFINE d1 == sendPrepareResponse(r, d)
  <2>1. r \in Validators
    BY <1>2, NodeFacts
  <2>2. d.proposal \notin Unfit
    BY <1>2 DEF BlockVerified, Unfit, Trusted, Wise, Vetted
  <2>3. Fit(r, d1, S) /\ Wise(d1, S)
    BY <2>1, <2>2, sendPrepareResponseStep, sendPrepareResponseWise DEF Step, Trusted
  <2> HIDE DEF d1
  <2>4. Wise(checkPrepare(r, d1, e), S)
    BY <2>1, <2>3, checkPrepareWise DEF Trusted
  <2> QED
    BY <2>4 DEF d1
<1> QED
  BY <1>1, <1>2 DEF respond, Trusted

LEMMA onPrepareRequestWise ==
  ASSUME Cardinality(Correct) > F, NEW r \in Nodes, NEW S \in SUBSET Payloads, NEW d,
         Trusted(r, d, S), NEW msg \in PrepareRequests, Vouches(msg), NEW e
  PROVE  Wise(onPrepareRequest(r, d, msg, e), S)
<1>1. SUFFICES ASSUME ~ignoresRequest(d, msg)
               PROVE  Wise(onPrepareRequest(r, d, msg, e), S)
  BY DEF onPrepareRequest, Trusted
<1>2. /\ ~RequestSentOrReceived(d) /\ msg.from = PrimaryIndex(d)
      /\ Fit(r, d, S) /\ Wise(d, S) /\ d \in Contexts
  BY <1>1, FitContext DEF ignoresRequest, Trusted
<1>3. Wise(sendChangeView(r, d, e, "CVBlockRejectedByPolicy"), S)
  BY sendChangeViewWise
<1>4. ASSUME msg.proposal \notin Rejected
      PROVE  Wise(respond(r, acceptPrepareRequest(extendTimer(r, d, "extend2"), msg, e), e), S)
  <2> DEFINE d1 == extendTimer(r, d, "extend2")
             d2 == acceptPrepareRequest(d1, msg, e)
  <2>1. Still(r, d, d1, S) /\ Alike(d, d1)
    BY <1>2, Names, extendTimerStill, extendTimerAlike
  <2> HIDE DEF d1
  <2>2. /\ Fit(r, d1, S) /\ Wise(d1, S)
        /\ ~RequestSentOrReceived(d1) /\ msg.from = PrimaryIndex(d1)
    BY <1>2, <2>1, StillFacts, AlikeWise
  <2>3. Fit(r, d2, S) /\ RequestSentOrReceived(d2)
    BY <2>2, acceptPrepareRequestStep DEF Step
  <2>4. Wise(d2, S)
    BY <1>4, <2>2, acceptPrepareRequestWise DEF Trusted
  <2> HIDE DEF d2
  <2>5. Wise(respond(r, d2, e), S)
    BY <2>3, <2>4, respondWise DEF Trusted
  <2> QED
    BY <2>5 DEF d1, d2
<1> QED
  BY <1>1, <1>3, <1>4 DEF onPrepareRequest

\* A response for another proposal than the request's is dropped, so none of a
\* correct validator comes next to an unfit request.
LEMMA onPrepareResponseWise ==
  ASSUME Cardinality(Correct) > F, NEW r \in Nodes, NEW S \in SUBSET Payloads, NEW d,
         Trusted(r, d, S), NEW msg \in PrepareResponses, Vouches(msg), NEW e
  PROVE  Wise(onPrepareResponse(r, d, msg, e), S)
<1> DEFINE request == d.PreparationPayloads[PrimaryIndex(d)]
           d1 == [d EXCEPT !.PreparationPayloads[msg.from] = msg]
           d2 == IF IsPrimary(r, d) /\ ~recovering(d) THEN Call(d1, "prepareResponse") ELSE d1
           d3 == extendTimer(r, d2, "extend2")
<1>1. Fit(r, d, S) /\ Wise(d, S) /\ d \in Contexts /\ Tidy(d)
  BY FitContext DEF Trusted, Fit
<1>2. SUFFICES ASSUME ~ignoresResponse(r, d, msg),
                      request = Nil \/ request.type # "PrepareRequest"
                        \/ request.proposal = msg.proposal
               PROVE  Wise(onPrepareResponse(r, d, msg, e), S)
  BY <1>1 DEF onPrepareResponse
<1>3. /\ msg.from # PrimaryIndex(d) /\ msg.from \in Validators
      /\ msg.type = "PrepareResponse"
  BY <1>2 DEF ignoresResponse, PrepareResponses
<1>4. onPrepareResponse(r, d, msg, e)
        \in {d, panic(d1), d3, IF WatchOnly(r) THEN d3 ELSE checkPrepare(r, d3, e)}
  BY <1>2 DEF onPrepareResponse
<1>5. RequestSentOrReceived(d) /\ d.proposal \in Unfit => msg.from \notin Correct
  <2>1. SUFFICES ASSUME RequestSentOrReceived(d), d.proposal \in Unfit
                 PROVE  msg.from \notin Correct
    OBVIOUS
  <2>2. request # Nil /\ request.type = "PrepareRequest" /\ request.proposal = d.proposal
    BY <1>1, <2>1 DEF RequestSentOrReceived, Tidy, Wise, Vetted
  <2>3. msg.proposal \in Unfit
    BY <1>2, <2>1, <2>2
  <2> QED
    BY <1>3, <2>3 DEF Vouches, Preparations
<1>6. /\ d1.BlockIndex = d.BlockIndex /\ d1.ViewNumber = d.ViewNumber
      /\ d1.PreparationPayloads = [d.PreparationPayloads EXCEPT ![msg.from] = msg]
      /\ d1.proposal = d.proposal
      /\ d1.cache = d.cache /\ d1.todo = d.todo /\ d1.out = d.out
  BY <1>1 DEF Contexts
<1>7. Fit(r, d1, S) /\ d1 \in Contexts
  BY <1>1, <1>3, PreparationStep, FitContext DEF Step
<1> HIDE DEF d1
<1>8. Wise(d1, S)
  BY <1>1, <1>3, <1>5, <1>6, StoredWise
<1>9. Wise(panic(d1), S)
  BY <1>7, <1>8, panicWise
<1>10. Fit(r, d2, S) /\ Wise(d2, S) /\ d2 \in Contexts
  BY <1>7, <1>8, Names, CallStill, StillFacts, CallAlike, AlikeWise
<1> HIDE DEF d2
<1>11. Fit(r, d3, S) /\ Wise(d3, S)
  BY <1>10, Names, extendTimerStill, StillFacts, extendTimerAlike, AlikeWise
<1> HIDE DEF d3
<1>12. ASSUME ~WatchOnly(r)
       PROVE  Wise(checkPrepare(r, d3, e), S)
  BY <1>11, <1>12, NodeFacts, checkPrepareWise DEF Trusted
<1> QED
  BY <1>1, <1>4, <1>9, <1>11, <1>12

\* The last transaction of a proposal answers its request.
LEMMA addTransactionWise ==
  ASSUME Cardinality(Correct) > F, NEW r \in Nodes, NEW S \in SUBSET Payloads, NEW d,
         Trusted(r, d, S), RequestSentOrReceived(d), NEW tx \in Tx, NEW e
  PROVE  Wise(addTransaction(r, d, tx, e), S)
<1> DEFINE known == d.Transactions \cup {tx}
           d1 == [d EXCEPT !.Transactions = known]
           d2 == verifyPreCommitPayloadsAgainstPreBlock(d1)
           d3 == extendTimer(r, d2, "extend2")
           d4 == sendPrepareResponse(r, d3)
<1>1. Fit(r, d, S) /\ Wise(d, S) /\ d \in Contexts
  BY FitContext DEF Trusted
<1>2. addTransaction(r, d, tx, e)
        \in {d1, rejectBlock(r, d1, e),
             IF WatchOnly(r) \/ ~BlockVerified(d1) THEN d1 ELSE checkPrepare(r, d4, e)}
  BY DEF addTransaction
<1>3. known \in SUBSET Tx
  BY <1>1 DEF Contexts
<1> HIDE DEF known
<1>4. Still(r, d, d1, S) /\ Wise(d1, S)
  BY <1>1, <1>3, FieldStill, FieldAlike, AlikeWise
<1> HIDE DEF d1
<1>5. Fit(r, d1, S) /\ RequestSentOrReceived(d1) /\ d1 \in Contexts
  BY <1>4, StillFacts
<1>6. Wise(rejectBlock(r, d1, e), S)
  BY <1>4, <1>5, sendChangeViewWise DEF rejectBlock, Trusted
<1>7. /\ Fit(r, d2, S) /\ RequestSentOrReceived(d2) /\ Wise(d2, S)
      /\ d2.proposal = d1.proposal
  <2>1. Fit(r, d2, S) /\ Same(d1, d2) /\ Alike(d1, d2)
    BY <1>5, verifyPreCommitsStep, verifyPreCommitsSame, verifyPreCommitsAlike DEF Step
  <2> HIDE DEF d2
  <2> QED
    BY <1>4, <1>5, <2>1, SameFacts, AlikeWise DEF Alike
<1> HIDE DEF d2
<1>8. Still(r, d2, d3, S) /\ Wise(d3, S)
  BY <1>7, FitContext, Names, extendTimerStill, extendTimerAlike, AlikeWise
<1> HIDE DEF d3
<1>9. Fit(r, d3, S) /\ RequestSentOrReceived(d3) /\ d3.proposal = d1.proposal
  BY <1>7, <1>8, StillFacts
<1>10. ASSUME ~WatchOnly(r), BlockVerified(d1)
       PROVE  Wise(checkPrepare(r, d4, e), S)
  <2>1. r \in Validators
    BY <1>10, NodeFacts
  <2>2. d3.proposal \notin Unfit
    BY <1>8, <1>9, <1>10 DEF BlockVerified, Unfit, Wise, Vetted
  <2>3. Fit(r, d4, S) /\ Wise(d4, S)
    BY <1>8, <1>9, <2>1, <2>2, sendPrepareResponseStep, sendPrepareResponseWise
       DEF Step, Trusted
  <2> HIDE DEF d4
  <2> QED
    BY <2>1, <2>3, checkPrepareWise DEF Trusted
<1> HIDE DEF d4
<1> QED
  BY <1>2, <1>4, <1>6, <1>10

LEMMA onTransactionWise ==
  ASSUME Cardinality(Correct) > F, NEW r \in Nodes, NEW S \in SUBSET Payloads, NEW d,
         Trusted(r, d, S), NEW tx \in Tx, NEW e
  PROVE  Wise(onTransaction(r, d, tx, e), S)
<1> DEFINE item == [op |-> "deleteMissing", index |-> FirstIndex(d.MissingTransactions, tx)]
           d1 == Push(d, <<item>>)
<1>1. Fit(r, d, S) /\ Wise(d, S) /\ d \in Contexts
  BY FitContext DEF Trusted
<1>2. SUFFICES ASSUME RequestSentOrReceived(d), tx \in RangeOf(d.MissingTransactions)
               PROVE  Wise(addTransaction(r, d1, tx, e), S)
  BY <1>1 DEF onTransaction
<1>3. d.MissingTransactions \in Seq(Tx)
  BY <1>1 DEF Contexts
<1>4. item \in WorkItems
  BY <1>2, <1>3, FirstIndexType DEF WorkItems
<1>5. GenuineItem(item, S \cup d.out) /\ VouchesItem(item, d.BlockIndex)
  BY DEF GenuineItem, VouchesItem
<1> HIDE DEF item
<1>6. <<item>> \in Seq(WorkItems) /\ RangeOf(<<item>>) = {item}
  BY <1>4 DEF RangeOf
<1>7. Still(r, d, d1, S) /\ Wise(d1, S)
  BY <1>1, <1>5, <1>6, PushStill, PushWise
<1> HIDE DEF d1
<1>8. Fit(r, d1, S) /\ RequestSentOrReceived(d1)
  BY <1>2, <1>7, StillFacts
<1> QED
  BY <1>7, <1>8, addTransactionWise DEF Trusted

-----------------------------------------------------------------------------
(* Commits, view changes, recovery and dispatch.                            *)

LEMMA onPreCommitWise ==
  ASSUME NEW r \in Nodes, NEW S \in SUBSET Payloads, NEW d, Trusted(r, d, S),
         isAntiMEVExtensionEnabled(d), NEW msg \in PreCommits,
         msg.height = d.BlockIndex, Genuine(msg, S \cup d.out), NEW e
  PROVE  Wise(onPreCommit(r, d, msg, e), S)
<1> DEFINE d1 == [d EXCEPT !.PreCommitPayloads[msg.from] = msg]
           d2 == extendTimer(r, d1, "extend4")
           d3 == [d2 EXCEPT !.PreCommitPayloads = d.PreCommitPayloads]
<1>1. Fit(r, d, S) /\ Wise(d, S) /\ d \in Contexts
  BY FitContext DEF Trusted
<1>2. SUFFICES ASSUME d.PreCommitPayloads[msg.from] = Nil
               PROVE  Wise(onPreCommit(r, d, msg, e), S)
  BY <1>1 DEF onPreCommit
<1>3. onPreCommit(r, d, msg, e)
        \in {d, d1, d2, d3, IF MakePreHeader(d) = Nil THEN d2 ELSE checkPreCommit(r, d2, e)}
  BY DEF onPreCommit
<1>4. Fit(r, d1, S) /\ Same(d, d1) /\ d1 \in Contexts
  BY <1>1, <1>2, PreCommitStored, FitContext DEF Step
<1>5. Wise(d1, S)
  BY <1>1, FieldAlike, AlikeWise
<1> HIDE DEF d1
<1>6. Still(r, d1, d2, S) /\ Wise(d2, S)
  BY <1>4, <1>5, Names, extendTimerStill, extendTimerAlike, AlikeWise
<1> HIDE DEF d2
<1>7. Fit(r, d2, S) /\ d2 \in Contexts /\ Same(d1, d2)
  BY <1>4, <1>6, StillFacts
<1>8. /\ isAntiMEVExtensionEnabled(d2)
      /\ RequestSentOrReceived(d2) = RequestSentOrReceived(d)
  BY <1>1, <1>4, <1>7, SameTransitive, SameFacts
<1>9. Wise(d3, S)
  BY <1>6, <1>7, FieldAlike, AlikeWise
<1> HIDE DEF d3
<1>10. ASSUME MakePreHeader(d) # Nil
       PROVE  Wise(checkPreCommit(r, d2, e), S)
  <2>1. RequestSentOrReceived(d2)
    BY <1>8, <1>10 DEF MakePreHeader
  <2> QED
    BY <1>6, <1>7, <1>8, <2>1, checkPreCommitWise DEF Trusted
<1> QED
  BY <1>1, <1>3, <1>5, <1>6, <1>9, <1>10

LEMMA onCommitWise ==
  ASSUME NEW r, NEW S, NEW d \in Contexts, Wise(d, S), NEW msg \in Commits, NEW e
  PROVE  Wise(onCommit(r, d, msg, e), S)
<1> DEFINE x == [d.CommitPayloads EXCEPT ![msg.from] = msg]
           d1 == [d EXCEPT !.CommitPayloads = x]
           d2 == extendTimer(r, d1, "extend4")
           d3 == [d2 EXCEPT !.CommitPayloads = d.CommitPayloads]
<1>1. d1 = [d EXCEPT !.CommitPayloads[msg.from] = msg]
  OBVIOUS
<1>2. onCommit(r, d, msg, e) \in {d, d1, d2, d3, checkCommit(d2, e)}
  BY <1>1 DEF onCommit
<1>3. x \in Slots(Commits)
  BY DEF Slots, Contexts, Commits
<1> HIDE DEF x
<1>4. Wise(d1, S) /\ d1 \in Contexts
  BY <1>3, CommitFieldsMild, MildWise, FieldTypes
<1> HIDE DEF d1
<1>5. Wise(d2, S) /\ d2 \in Contexts
  BY <1>4, extendTimerAlike, AlikeWise, Names, extendTimerSame DEF Same
<1> HIDE DEF d2
<1>6. Wise(d3, S)
  BY <1>5, CommitFieldsMild, MildWise
<1> HIDE DEF d3
<1>7. Wise(checkCommit(d2, e), S)
  BY <1>5, checkCommitWise
<1> QED
  BY <1>2, <1>4, <1>5, <1>6, <1>7

LEMMA onChangeViewWise ==
  ASSUME NEW r \in Nodes, NEW S, NEW d, Trusted(r, d, S), NEW msg \in ChangeViews
  PROVE  Wise(onChangeView(r, d, msg), S)
<1> DEFINE x == [d.ChangeViewPayloads EXCEPT ![msg.from] = msg]
           d1 == [d EXCEPT !.ChangeViewPayloads = x]
<1>1. Fit(r, d, S) /\ Wise(d, S) /\ d \in Contexts
  BY FitContext DEF Trusted
<1>2. d.ChangeViewPayloads \in Slots(ChangeViews) /\ msg.newView \in Views
  BY <1>1, FitTypes DEF ChangeViews
<1>3. x \in Slots(ChangeViews)
  BY <1>2 DEF Slots, ChangeViews
<1>4. d1 = [d EXCEPT !.ChangeViewPayloads[msg.from] = msg]
  OBVIOUS
<1> HIDE DEF x
<1>5. Still(r, d, d1, S) /\ Wise(d1, S)
  BY <1>1, <1>3, FieldStill, FieldAlike, AlikeWise
<1> HIDE DEF d1
<1>6. Wise(onRecoveryRequest(r, d, msg), S) /\ Wise(sendRecoveryMessage(r, d), S)
  BY onRecoveryRequestWise, sendRecoveryMessageWise
<1>7. Wise(checkChangeView(r, d1, msg.newView), S)
  BY <1>2, <1>5, StillFacts, checkChangeViewWise DEF Trusted
<1> QED
  BY <1>1, <1>4, <1>6, <1>7 DEF onChangeView

\* What is rebuilt from a recovery message vouches for no less.
LEMMA RecoveredVouches ==
  ASSUME NEW msg \in RecoveryMessages, Vouches(msg)
  PROVE  \A m \in GetPrepareRequest(msg, GetPrimaryIndex(msg.height, msg.view))
                    \cup GetPrepareResponses(msg)
                    \cup GetChangeViews(msg) \cup GetPreCommits(msg) \cup GetCommits(msg) :
            Vouches(m)
<1> DEFINE primary == GetPrimaryIndex(msg.height, msg.view)
<1>1. msg.prepareRequest # Nil /\ msg.prepareRequest \in Unfit =>
        primary \notin Correct /\ msg.preparationPayloads \cap Correct = {}
  BY DEF Vouches, RecoveryMessages
<1> HIDE DEF primary
<1>2. ASSUME NEW m \in GetPrepareRequest(msg, primary)
      PROVE  Vouches(m)
  <2>1. /\ msg.prepareRequest # Nil
        /\ m.type = "PrepareRequest" /\ m.from = primary /\ m.proposal = msg.prepareRequest
    BY <1>2 DEF GetPrepareRequest, PrepareRequestMsg
  <2> QED
    BY <1>1, <2>1 DEF Vouches
<1>3. ASSUME NEW m \in GetPrepareResponses(msg)
      PROVE  Vouches(m)
  <2>1. PICK i \in msg.preparationPayloads :
            /\ msg.prepareRequest # Nil
            /\ m = PrepareResponseMsg(msg.height, msg.view, i, msg.prepareRequest)
    BY <1>3 DEF GetPrepareResponses
  <2>2. m.type = "PrepareResponse" /\ m.from = i /\ m.proposal = msg.prepareRequest
    BY <2>1 DEF PrepareResponseMsg
  <2> QED
    BY <1>1, <2>1, <2>2 DEF Vouches
<1>4. \A m \in GetChangeViews(msg) \cup GetPreCommits(msg) \cup GetCommits(msg) :
        m.type \in {"ChangeView", "PreCommit", "Commit"}
  BY DEF GetChangeViews, ChangeViewMsg, GetPreCommits, PreCommitMsg, GetCommits, CommitMsg
<1> QED
  BY <1>2, <1>3, <1>4 DEF Vouches, Preparations, primary

LEMMA ReplayVouches ==
  ASSUME NEW B, \A m \in B : Vouches(m), NEW h
  PROVE  VouchesItem(Replay(B), h)
  BY DEF VouchesItem, Replay

LEMMA onRecoveryMessageWise ==
  ASSUME NEW r, NEW S, NEW d \in Contexts, Wise(d, S), NEW msg \in RecoveryMessages,
         msg.height = d.BlockIndex, Vouches(msg)
  PROVE  Wise(onRecoveryMessage(r, d, msg), S)
<1> DEFINE first == [op |-> "preparations", msg |-> msg]
           second == [op |-> "commits", msg |-> msg]
           stages == <<first, second>>
           votes == Replay(GetChangeViews(msg))
<1>1. first \in WorkItems /\ second \in WorkItems
  BY DEF WorkItems
<1>2. VouchesItem(first, d.BlockIndex) /\ VouchesItem(second, d.BlockIndex)
  BY DEF VouchesItem
<1>3. 0 \in Validators
  BY NAssumption DEF Validators
<1>4. votes \in WorkItems
  BY <1>3, RecoveredType, ReplayType
<1>5. VouchesItem(votes, d.BlockIndex)
  BY RecoveredVouches, ReplayVouches
<1>6. onRecoveryMessage(r, d, msg) \in {d, Push(d, stages), Push(d, <<votes>> \o stages)}
  BY DEF onRecoveryMessage
<1> HIDE DEF first, second, votes
<1>7. stages \in Seq(WorkItems) /\ RangeOf(stages) = {first, second}
  BY <1>1 DEF RangeOf
<1>8. <<votes>> \in Seq(WorkItems) /\ RangeOf(<<votes>>) = {votes}
  BY <1>4 DEF RangeOf
<1> HIDE DEF stages
<1>9. /\ <<votes>> \o stages \in Seq(WorkItems)
      /\ \A item \in RangeOf(<<votes>> \o stages) : item \in {votes, first, second}
  BY <1>7, <1>8, ConcatRange
<1>10. Wise(Push(d, stages), S)
  BY <1>2, <1>7, PushWise
<1>11. Wise(Push(d, <<votes>> \o stages), S)
  BY <1>2, <1>5, <1>9, PushWise
<1> QED
  BY <1>6, <1>10, <1>11

LEMMA recoverPreparationsWise ==
  ASSUME NEW r, NEW S, NEW d \in Contexts, Wise(d, S), NEW msg \in RecoveryMessages,
         msg.height = d.BlockIndex, Vouches(msg)
  PROVE  Wise(recoverPreparations(r, d, msg), S)
<1> DEFINE request == IF RequestSentOrReceived(d)
                      THEN {}
                      ELSE GetPrepareRequest(msg, PrimaryIndex(d))
           first == Replay(request)
           second == Replay(GetPrepareResponses(msg))
           items == <<first, second>>
<1>1. SUFFICES ASSUME msg.view = d.ViewNumber
               PROVE  Wise(recoverPreparations(r, d, msg), S)
  BY DEF recoverPreparations
<1>2. /\ PrimaryIndex(d) \in Validators
      /\ PrimaryIndex(d) = GetPrimaryIndex(msg.height, msg.view)
  BY <1>1, NodeFacts DEF PrimaryIndex
<1>3. request \in SUBSET Restorable /\ GetPrepareResponses(msg) \in SUBSET Restorable
  BY <1>2, RecoveredType
<1>4. recoverPreparations(r, d, msg) \in {d, Push(d, items)}
  BY DEF recoverPreparations
<1>5. /\ \A m \in request : Vouches(m)
      /\ \A m \in GetPrepareResponses(msg) : Vouches(m)
  BY <1>2, RecoveredVouches
<1> HIDE DEF request
<1>6. first \in WorkItems /\ second \in WorkItems
  BY <1>3, ReplayType
<1>7. VouchesItem(first, d.BlockIndex) /\ VouchesItem(second, d.BlockIndex)
  BY <1>5, ReplayVouches
<1> HIDE DEF first, second
<1>8. items \in Seq(WorkItems) /\ RangeOf(items) = {first, second}
  BY <1>6 DEF RangeOf
<1>9. Wise(Push(d, items), S)
  BY <1>7, <1>8, PushWise
<1> QED
  BY <1>4, <1>9

LEMMA recoverCommitsWise ==
  ASSUME NEW S, NEW d \in Contexts, Wise(d, S), NEW msg \in RecoveryMessages
  PROVE  Wise(recoverCommits(d, msg), S)
<1> DEFINE first == Replay(GetPreCommits(msg))
           second == Replay(GetCommits(msg))
           items == <<first, second>>
<1>1. 0 \in Validators
  BY NAssumption DEF Validators
<1>2. GetPreCommits(msg) \in SUBSET Restorable /\ GetCommits(msg) \in SUBSET Restorable
  BY <1>1, RecoveredType
<1>3. recoverCommits(d, msg) \in {d, Push(d, items)}
  BY DEF recoverCommits
<1>4. \A m \in GetPreCommits(msg) \cup GetCommits(msg) : Vouches(m)
  BY DEF GetPreCommits, PreCommitMsg, GetCommits, CommitMsg, Vouches, Preparations
<1>5. first \in WorkItems /\ second \in WorkItems
  BY <1>2, ReplayType
<1>6. VouchesItem(first, d.BlockIndex) /\ VouchesItem(second, d.BlockIndex)
  BY <1>4, ReplayVouches
<1> HIDE DEF first, second
<1>7. items \in Seq(WorkItems) /\ RangeOf(items) = {first, second}
  BY <1>5 DEF RangeOf
<1>8. Wise(Push(d, items), S)
  BY <1>6, <1>7, PushWise
<1> QED
  BY <1>3, <1>8

LEMMA dispatchWise ==
  ASSUME Cardinality(Correct) > F, NEW r \in Nodes, NEW S \in SUBSET Payloads, NEW d,
         Trusted(r, d, S), NEW msg \in Payloads, msg.height = d.BlockIndex,
         Genuine(msg, S \cup d.out), Vouches(msg), NEW e
  PROVE  Wise(dispatch(r, d, msg, e), S)
<1>0. Fit(r, d, S) /\ Wise(d, S) /\ d \in Contexts
  BY FitContext DEF Trusted
<1>1. CASE msg.type = "ChangeView"
  <2>1. dispatch(r, d, msg, e) = onChangeView(r, d, msg)
    BY <1>1 DEF dispatch
  <2> QED
    BY <1>1, <2>1, PayloadTypes, onChangeViewWise
<1>2. CASE msg.type = "PrepareRequest"
  <2>1. dispatch(r, d, msg, e) = onPrepareRequest(r, d, msg, e)
    BY <1>2 DEF dispatch
  <2> QED
    BY <1>2, <2>1, PayloadTypes, onPrepareRequestWise
<1>3. CASE msg.type = "PrepareResponse"
  <2>1. dispatch(r, d, msg, e) = onPrepareResponse(r, d, msg, e)
    BY <1>3 DEF dispatch
  <2> QED
    BY <1>3, <2>1, PayloadTypes, onPrepareResponseWise
<1>4. CASE msg.type = "Commit"
  <2>1. dispatch(r, d, msg, e) = onCommit(r, d, msg, e)
    BY <1>4 DEF dispatch
  <2> QED
    BY <1>0, <1>4, <2>1, PayloadTypes, onCommitWise
<1>5. CASE msg.type = "PreCommit"
  <2>1. dispatch(r, d, msg, e)
            = IF isAntiMEVExtensionEnabled(d) THEN onPreCommit(r, d, msg, e) ELSE d
    BY <1>5 DEF dispatch
  <2> QED
    BY <1>0, <1>5, <2>1, PayloadTypes, onPreCommitWise
<1>6. CASE msg.type = "RecoveryRequest"
  <2>1. dispatch(r, d, msg, e) = onRecoveryRequest(r, d, msg)
    BY <1>6 DEF dispatch
  <2> QED
    BY <2>1, onRecoveryRequestWise
<1>7. CASE msg.type \notin {"PrepareRequest", "PrepareResponse", "PreCommit", "Commit",
                            "ChangeView", "RecoveryRequest"}
  <2>1. dispatch(r, d, msg, e) = onRecoveryMessage(r, d, msg)
    BY <1>7 DEF dispatch
  <2>2. msg \in RecoveryMessages
    BY <1>7, PayloadTypes
  <2> QED
    BY <1>0, <2>1, <2>2, onRecoveryMessageWise
<1> QED
  BY <1>1, <1>2, <1>3, <1>4, <1>5, <1>6, <1>7

LEMMA OnReceiveWise ==
  ASSUME Cardinality(Correct) > F, NEW r \in Nodes, NEW S \in SUBSET Payloads, NEW d,
         Trusted(r, d, S), NEW msg \in Payloads, Genuine(msg, S \cup d.out),
         Vouches(msg), NEW e
  PROVE  Wise(OnReceive(r, d, msg, e), S)
<1> DEFINE x == [d.LastSeenMessage EXCEPT ![msg.from] =
                    IF d.LastSeenMessage[msg.from] < msg.view
                    THEN msg.view
                    ELSE d.LastSeenMessage[msg.from]]
           seen == [d EXCEPT !.LastSeenMessage = x]
<1>0. Fit(r, d, S) /\ Wise(d, S) /\ d \in Contexts
  BY FitContext DEF Trusted
<1>1. d.LastSeenMessage \in [Validators -> Views \cup {-1}] /\ d.BlockIndex \in Nat
  BY <1>0, FitTypes
<1>2. msg.view \in Views /\ msg.from \in Validators /\ msg.height \in Nat
  BY PayloadTypes
<1>3. x \in [Validators -> Views \cup {-1}]
  BY <1>1, <1>2
<1>4. seen = [d EXCEPT !.LastSeenMessage[msg.from] =
                IF d.LastSeenMessage[msg.from] < msg.view
                THEN msg.view
                ELSE d.LastSeenMessage[msg.from]]
  OBVIOUS
<1> HIDE DEF x
<1>5. Still(r, d, seen, S) /\ Alike(d, seen)
  BY <1>0, <1>3, FieldStill, FieldAlike
<1> HIDE DEF seen
<1>6. /\ Fit(r, seen, S) /\ Wise(seen, S) /\ seen.out = d.out
      /\ seen.BlockIndex = d.BlockIndex
  BY <1>0, <1>5, StillFacts, AlikeWise DEF Alike
<1>7. Wise(addMessage(d, msg), S)
  BY <1>0, addMessageWise
<1>8. ASSUME msg.height = d.BlockIndex
      PROVE  Wise(dispatch(r, seen, msg, e), S)
  BY <1>6, <1>8, dispatchWise DEF Trusted
<1>9. ~(msg.height < d.BlockIndex) /\ ~(msg.height > d.BlockIndex) => msg.height = d.BlockIndex
  BY <1>1, <1>2
<1> QED
  BY <1>0, <1>4, <1>6, <1>7, <1>8, <1>9 DEF OnReceive, isForeignOrOld

LEMMA onTimeoutWise ==
  ASSUME Cardinality(Correct) > F, NEW r \in Nodes, NEW S \in SUBSET Payloads, NEW d,
         Trusted(r, d, S), NEW height, NEW view, NEW force,
         NEW e, e.fill \in Drafts, e.refill \in Drafts
  PROVE  Wise(onTimeout(r, d, height, view, force, e), S)
<1>0. Fit(r, d, S) /\ Wise(d, S) /\ d \in Contexts
  BY FitContext DEF Trusted
<1>1. SUFFICES ASSUME ~WatchOnly(r)
               PROVE  Wise(onTimeout(r, d, height, view, force, e), S)
  BY <1>0 DEF onTimeout
<1>2. ASSUME IsPrimary(r, d), ~RequestSentOrReceived(d)
      PROVE  Wise(sendPrepareRequest(r, d, d.ViewNumber # 0 \/ d.txSubscriptionOn \/ force, e), S)
  BY <1>2, sendPrepareRequestWise DEF IsPrimary
<1>3. Wise(changeTimer(sendRecoveryMessage(r, d), "resend"), S)
  <2> DEFINE d1 == sendRecoveryMessage(r, d)
  <2>1. Still(r, d, d1, S) /\ Wise(d1, S)
    BY <1>0, <1>1, NodeFacts, sendRecoveryMessageStill, sendRecoveryMessageWise
  <2> HIDE DEF d1
  <2>2. Wise(changeTimer(d1, "resend"), S)
    BY <2>1, StillFacts, CallAlike, AlikeWise
  <2> QED
    BY <2>2 DEF d1
<1>4. Wise([changeTimer(d, "forced") EXCEPT !.txSubscriptionOn = FALSE], S)
  <2> DEFINE d1 == changeTimer(d, "forced")
  <2>1. Wise(d1, S) /\ d1 \in Contexts
    BY <1>0, Names, CallAlike, AlikeWise, changeTimerSame DEF Same
  <2> HIDE DEF d1
  <2>2. Wise([d1 EXCEPT !.txSubscriptionOn = FALSE], S)
    BY <2>1, FieldAlike, AlikeWise
  <2> QED
    BY <2>2 DEF d1
<1>5. Wise(waitForTransactions(d, "subscribeBackup"), S)
  BY <1>0, waitForTransactionsAlike, AlikeWise
<1>6. Wise(sendChangeView(r, d, e, "CVTimeout"), S)
  BY sendChangeViewWise
<1> QED
  BY <1>0, <1>2, <1>3, <1>4, <1>5, <1>6 DEF onTimeout

-----------------------------------------------------------------------------
(* The network.                                                             *)

\* The inductive invariant.
VInv == PInv /\ RInv /\ Vouched

\* Between two steps every node is in order.
LEMMA StateTrusted ==
  ASSUME VInv, NEW r \in Running
  PROVE  /\ Trusted(r, ctx[r], msgs)
         /\ Fit(r, ctx[r], msgs) /\ Wise(ctx[r], msgs)
         /\ ctx[r] \in Contexts /\ ctx[r].out = {}
         /\ msgs \in SUBSET Payloads
         /\ r \in Nodes
<1>1. /\ Fit(r, ctx[r], msgs) /\ ctx[r] \in Contexts /\ ctx[r].out = {}
      /\ msgs \in SUBSET Payloads /\ r \in Nodes
  BY StateFit DEF VInv
<1>2. Wise(ctx[r], msgs)
  BY <1>1 DEF Wise, VInv, Vouched
<1> QED
  BY <1>1, <1>2 DEF Trusted

\* What a node in order broadcasts joins the network, but for the recovery
\* messages that are lost.
LEMMA BecomesVouched ==
  ASSUME VInv, NEW r \in Running, NEW d \in Contexts, Wise(d, msgs), Becomes(r, d)
  PROVE  Vouched'
<1> DEFINE d1 == [[d EXCEPT !.out = {}] EXCEPT !.calls = <<>>]
<1>1. ctx \in [Running -> Contexts]
  BY DEF VInv, PInv, IInv, TypeOK
<1>2. ctx' = [ctx EXCEPT ![r] = d1]
  BY DEF Becomes
<1>3. PICK lost \in SUBSET RecoveriesOf(d.out) : msgs' = msgs \cup (d.out \ lost)
  BY DEF Becomes, Send
<1>4. \A m \in msgs' : Vouches(m) /\ Backed(m)
  BY <1>3 DEF Wise
<1>5. Wise(d1, {})
  <2>1. Wise(d, {})
    BY DEF Wise
  <2>2. Mild(d, d1)
    BY DEF Mild, Contexts
  <2> QED
    BY <2>1, <2>2, MildWise
<1> HIDE DEF d1
<1>6. \A s \in Running : Vetted(ctx'[s])
  BY <1>1, <1>2, <1>5 DEF Wise, VInv, Vouched
<1> QED
  BY <1>4, <1>6 DEF Vouched, Running

LEMMA NewContextVetted == Vetted(NewContext)
<1>1. /\ NewContext \in Contexts
      /\ NewContext.cache = {} /\ NewContext.todo = <<>>
      /\ NewContext.PreparationPayloads = NoPayloads
  BY NewContextSane DEF Sane, NewContext
<1>2. ~RequestSentOrReceived(NewContext)
  BY <1>1, NodeFacts DEF RequestSentOrReceived, NoPayloads
<1>3. RangeOf(NewContext.todo) = {}
  BY <1>1 DEF RangeOf
<1> QED
  BY <1>1, <1>2, <1>3 DEF Vetted, NoPayloads

LEMMA InitVouched == Init => VInv
<1>1. ASSUME Init PROVE Vouched
  <2>1. msgs = {} /\ \A r \in Running : ctx[r] = NewContext
    BY <1>1 DEF Init
  <2> QED
    BY <2>1, NewContextVetted DEF Vouched
<1> QED
  BY <1>1, InitPromises, InitAlert DEF VInv

LEMMA StartVouched ==
  ASSUME Cardinality(Correct) > F, VInv, NEW r \in Running, Start(r)
  PROVE  Vouched'
<1>1. PICK e \in FillCallbacks :
        LET d == initializeConsensus(r, ctx[r], 0, Len(ledger[r]) + 1)
        IN  Becomes(r, IF IsPrimary(r, d) THEN sendPrepareRequest(r, d, TRUE, e) ELSE d)
  BY DEF Start
<1> DEFINE d == initializeConsensus(r, ctx[r], 0, Len(ledger[r]) + 1)
           d1 == IF IsPrimary(r, d) THEN sendPrepareRequest(r, d, TRUE, e) ELSE d
<1>2. /\ Fit(r, ctx[r], msgs) /\ Wise(ctx[r], msgs) /\ ctx[r] \in Contexts
      /\ msgs \in SUBSET Payloads
      /\ r \in Nodes /\ ctx[r].BlockIndex = 0 /\ ctx[r].todo = <<>>
  BY StateTrusted DEF Start, Idle
<1>3. Len(ledger[r]) + 1 \in Nat /\ Len(ledger[r]) + 1 > ctx[r].BlockIndex
  BY <1>2 DEF VInv, PInv, IInv, TypeOK
<1>4. Fit(r, d, msgs) /\ ~RequestSentOrReceived(d)
  BY <1>2, <1>3, ViewFacts, initializeConsensusFit
<1>5. Wise(d, msgs)
  BY <1>2, <1>3, ViewFacts, initializeConsensusWise
<1>6. Becomes(r, d1)
  BY <1>1
<1>7. /\ e.fill \in Drafts /\ e.refill \in Drafts
      /\ e.fill \in Proposals /\ e.refill \in Proposals
  BY <1>1, RunningFacts DEF FillCallbacks
<1> HIDE DEF d
<1>8. ASSUME IsPrimary(r, d)
      PROVE  /\ Fit(r, sendPrepareRequest(r, d, TRUE, e), msgs)
             /\ Wise(sendPrepareRequest(r, d, TRUE, e), msgs)
  <2>1. Fit(r, sendPrepareRequest(r, d, TRUE, e), msgs)
    BY <1>2, <1>4, <1>7, <1>8, sendPrepareRequestStep DEF IsPrimary, Step
  <2>2. Wise(sendPrepareRequest(r, d, TRUE, e), msgs)
    BY <1>2, <1>4, <1>5, <1>7, <1>8, sendPrepareRequestWise DEF IsPrimary, Trusted
  <2> QED
    BY <2>1, <2>2
<1>9. d1 \in Contexts /\ Wise(d1, msgs)
  BY <1>4, <1>5, <1>8, FitContext
<1> HIDE DEF d1
<1> QED
  BY <1>6, <1>9, BecomesVouched

LEMMA ResetVouched ==
  ASSUME VInv, NEW r \in Running, Reset(r)
  PROVE  Vouched'
<1> DEFINE d == initializeConsensus(r, ctx[r], 0, Len(ledger[r]) + 1)
<1>1. /\ Fit(r, ctx[r], msgs) /\ Wise(ctx[r], msgs) /\ ctx[r] \in Contexts
      /\ msgs \in SUBSET Payloads
      /\ r \in Nodes /\ ctx[r].BlockIndex \in Nat /\ ctx[r].todo = <<>>
  BY StateTrusted DEF Reset, Ready, Idle, Contexts
<1>2. Len(ledger[r]) + 1 \in Nat /\ Len(ledger[r]) + 1 > ctx[r].BlockIndex
  BY <1>1 DEF VInv, PInv, IInv, TypeOK, Reset
<1>3. Fit(r, d, msgs) /\ Wise(d, msgs)
  BY <1>1, <1>2, ViewFacts, initializeConsensusFit, initializeConsensusWise
<1>4. Becomes(r, d)
  BY DEF Reset
<1> HIDE DEF d
<1> QED
  BY <1>3, <1>4, FitContext, BecomesVouched

\* A payload of a validator that breaks the protocol says nothing of the correct
\* ones, and in its recovery message theirs are on the network.
LEMMA InjectedVouches ==
  ASSUME VInv, NEW m \in Injected, Authentic(m)
  PROVE  Vouches(m)
<1>1. m.from \notin Correct
  BY FaultAssumption DEF Correct
<1>2. ASSUME m.type = "RecoveryMessage", m.prepareRequest # Nil, m.prepareRequest \in Unfit
      PROVE  /\ GetPrimaryIndex(m.height, m.view) \notin Correct
             /\ m.preparationPayloads \cap Correct = {}
  <2> DEFINE i == GetPrimaryIndex(m.height, m.view)
  <2>1. ASSUME i \in Correct
        PROVE  FALSE
    <3> DEFINE x == PrepareRequestMsg(m.height, m.view, i, m.prepareRequest)
    <3>1. x \in msgs
      BY <1>2, <2>1, CorrectFacts DEF Authentic
    <3>2. x.type = "PrepareRequest" /\ x.from = i /\ x.proposal = m.prepareRequest
      BY DEF PrepareRequestMsg
    <3> QED
      BY <1>2, <2>1, <3>1, <3>2 DEF VInv, Vouched, Vouches, Preparations
  <2>2. ASSUME NEW j \in m.preparationPayloads \cap Correct
        PROVE  FALSE
    <3> DEFINE x == PrepareResponseMsg(m.height, m.view, j, m.prepareRequest)
    <3>1. x \in msgs
      BY <1>2, <2>2, CorrectFacts DEF Authentic
    <3>2. x.type = "PrepareResponse" /\ x.from = j /\ x.proposal = m.prepareRequest
      BY DEF PrepareResponseMsg
    <3> QED
      BY <1>2, <2>2, <3>1, <3>2 DEF VInv, Vouched, Vouches, Preparations
  <2> QED
    BY <2>1, <2>2
<1> QED
  BY <1>1, <1>2 DEF Vouches

LEMMA DeliverVouched ==
  ASSUME Cardinality(Correct) > F, VInv, NEW r \in Running, NEW m \in msgs \cup Injected,
         Deliver(r, m)
  PROVE  Vouched'
<1>1. /\ Trusted(r, ctx[r], msgs) /\ Fit(r, ctx[r], msgs)
      /\ ctx[r].out = {} /\ msgs \in SUBSET Payloads /\ r \in Nodes
  BY StateTrusted
<1>2. m \in Payloads
  BY <1>1, RunningFacts
<1>3. PICK e \in Callbacks : Becomes(r, OnReceive(r, ctx[r], m, e))
  BY DEF Deliver
<1>4. Genuine(m, msgs \cup ctx[r].out)
  BY <1>1, DeliveredGenuine, GenuineGrows DEF VInv
<1>5. Vouches(m)
  BY InjectedVouches DEF Deliver, VInv, Vouched
<1>6. OnReceive(r, ctx[r], m, e) \in Contexts /\ Wise(OnReceive(r, ctx[r], m, e), msgs)
  BY <1>1, <1>2, <1>4, <1>5, OnReceiveStep, OnReceiveWise, FitContext DEF Step
<1> QED
  BY <1>3, <1>6, BecomesVouched

LEMMA OnTransactionVouched ==
  ASSUME Cardinality(Correct) > F, VInv, NEW r \in Running, NEW tx \in Tx, OnTransaction(r, tx)
  PROVE  Vouched'
<1>1. /\ Trusted(r, ctx[r], msgs) /\ Fit(r, ctx[r], msgs)
      /\ msgs \in SUBSET Payloads /\ r \in Nodes
  BY StateTrusted
<1>2. PICK e \in Callbacks : Becomes(r, onTransaction(r, ctx[r], tx, e))
  BY DEF OnTransaction
<1>3. /\ onTransaction(r, ctx[r], tx, e) \in Contexts
      /\ Wise(onTransaction(r, ctx[r], tx, e), msgs)
  BY <1>1, onTransactionStep, onTransactionWise, FitContext DEF Step
<1> QED
  BY <1>2, <1>3, BecomesVouched

LEMMA OnTimeoutVouched ==
  ASSUME Cardinality(Correct) > F, VInv, NEW r \in Running, OnTimeout(r) \/ OnNewTransaction(r)
  PROVE  Vouched'
<1> DEFINE stopped == [ctx[r].timer EXCEPT !.armed = FALSE]
           d == [ctx[r] EXCEPT !.timer = stopped]
<1>1. /\ Trusted(r, ctx[r], msgs) /\ Fit(r, ctx[r], msgs) /\ Wise(ctx[r], msgs)
      /\ msgs \in SUBSET Payloads /\ r \in Nodes /\ ctx[r] \in Contexts
  BY StateTrusted
<1>2. \A e \in FillCallbacks : /\ e.fill \in Drafts /\ e.refill \in Drafts
                               /\ e.fill \in Proposals /\ e.refill \in Proposals
  BY RunningFacts DEF FillCallbacks
<1>3. stopped \in [height : Nat, view : Views, armed : BOOLEAN]
  BY <1>1 DEF Contexts
<1> HIDE DEF stopped
<1>4. Trusted(r, d, msgs)
  <2>1. Fit(r, d, msgs)
    BY <1>1, <1>3, FieldStill, StillFacts
  <2>2. Wise(d, msgs)
    BY <1>1, <1>3, FieldAlike, AlikeWise
  <2> QED
    BY <2>1, <2>2 DEF Trusted
<1> HIDE DEF d
<1>5. ASSUME NEW d1, Trusted(r, d1, msgs), NEW height, NEW view, NEW force, NEW e \in FillCallbacks
      PROVE  /\ onTimeout(r, d1, height, view, force, e) \in Contexts
             /\ Wise(onTimeout(r, d1, height, view, force, e), msgs)
  <2>1. /\ Fit(r, d1, msgs)
        /\ e.fill \in Drafts /\ e.refill \in Drafts
        /\ e.fill \in Proposals /\ e.refill \in Proposals
    BY <1>2, <1>5 DEF Trusted
  <2>2. onTimeout(r, d1, height, view, force, e) \in Contexts
    BY <1>1, <2>1, onTimeoutStep, FitContext DEF Step
  <2>3. Wise(onTimeout(r, d1, height, view, force, e), msgs)
    BY <1>1, <1>5, <2>1, onTimeoutWise
  <2> QED
    BY <2>2, <2>3
<1>6. CASE OnTimeout(r)
  <2>1. PICK e \in FillCallbacks :
            Becomes(r, onTimeout(r, d, ctx[r].timer.height, ctx[r].timer.view, FALSE, e))
    BY <1>6 DEF OnTimeout, d, stopped
  <2> QED
    BY <1>4, <1>5, <2>1, BecomesVouched
<1>7. CASE OnNewTransaction(r)
  <2>1. PICK e \in FillCallbacks :
            Becomes(r, onTimeout(r, ctx[r], ctx[r].timer.height, ctx[r].timer.view, TRUE, e))
    BY <1>7 DEF OnNewTransaction
  <2> QED
    BY <1>1, <1>5, <2>1, BecomesVouched
<1> QED
  BY <1>6, <1>7

LEMMA PopVouched ==
  ASSUME VInv, NEW r \in Running, ctx[r].todo # <<>>
  PROVE  /\ Trusted(r, Pop(ctx[r]), msgs) /\ Pop(ctx[r]) \in Contexts
         /\ Pop(ctx[r]).out = {}
         /\ Head(ctx[r].todo) \in WorkItems
         /\ GenuineItem(Head(ctx[r].todo), msgs)
         /\ VouchesItem(Head(ctx[r].todo), Pop(ctx[r]).BlockIndex)
<1> DEFINE s == ctx[r].todo
           d == Pop(ctx[r])
<1>1. /\ Fit(r, ctx[r], msgs) /\ Wise(ctx[r], msgs)
      /\ ctx[r] \in Contexts /\ ctx[r].out = {}
  BY StateTrusted
<1>2. s \in Seq(WorkItems) /\ s # <<>>
  BY <1>1 DEF Contexts
<1>3. Head(s) = s[1] /\ 1 \in DOMAIN s /\ Tail(s) \in Seq(WorkItems) /\ Head(s) \in WorkItems
  BY <1>2
<1>4. \A i \in DOMAIN Tail(s) : i + 1 \in DOMAIN s /\ Tail(s)[i] = s[i + 1]
  BY <1>2
<1>5. d = [ctx[r] EXCEPT !.todo = Tail(s)]
  BY DEF Pop
<1> HIDE DEF s
<1>6. Head(s) \in RangeOf(s) /\ RangeOf(Tail(s)) \subseteq RangeOf(s)
  BY <1>3, <1>4 DEF RangeOf
<1>7. Still(r, ctx[r], [ctx[r] EXCEPT !.todo = Tail(s)], msgs)
  BY <1>1, <1>3, <1>6, TodoStill DEF s
<1>8. Fit(r, d, msgs)
  BY <1>5, <1>7, StillFacts
<1>9. Mild(ctx[r], d)
  BY <1>1, <1>5, <1>6 DEF Mild, Contexts, s
<1>10. Wise(d, msgs)
  BY <1>1, <1>9, MildWise
<1>11. d.out = {} /\ d.BlockIndex = ctx[r].BlockIndex
  BY <1>1, <1>5 DEF Contexts
<1>12. GenuineItem(Head(s), msgs) /\ VouchesItem(Head(s), ctx[r].BlockIndex)
  BY <1>6 DEF VInv, PInv, PromisesKept, HoldsGenuine, Vouched, Vetted, s
<1> QED
  BY <1>3, <1>8, <1>10, <1>11, <1>12, FitContext DEF Trusted, s

LEMMA ContinueVouched ==
  ASSUME Cardinality(Correct) > F, VInv, NEW r \in Running, Continue(r)
  PROVE  Vouched'
<1> DEFINE item == Head(ctx[r].todo)
           d == Pop(ctx[r])
<1>1. ctx[r].todo # <<>>
  BY DEF Continue, ContinueReplay, ContinueArmTimer, ContinuePreparations,
         ContinueCommits, ContinueDeleteMissing, Pending
<1>2. msgs \in SUBSET Payloads /\ r \in Nodes
  BY StateTrusted
<1>3. /\ Trusted(r, d, msgs) /\ d \in Contexts /\ d.out = {}
      /\ item \in WorkItems /\ GenuineItem(item, msgs)
      /\ VouchesItem(item, d.BlockIndex)
  BY <1>1, PopVouched
<1>4. Fit(r, d, msgs) /\ Wise(d, msgs) /\ msgs \cup d.out = msgs
  BY <1>3 DEF Trusted
<1> HIDE DEF d
<1>5. ASSUME NEW d1, Fit(r, d1, msgs), Wise(d1, msgs), Becomes(r, d1)
      PROVE  Vouched'
  BY <1>5, FitContext, BecomesVouched
<1>6. CASE ContinueReplay(r)
  <2>1. item.op = "replay"
    BY <1>6 DEF ContinueReplay, Pending
  <2>2. /\ item.payloads \subseteq Payloads
        /\ \A m \in item.payloads : Genuine(m, msgs) /\ Vouches(m)
    BY <1>3, <2>1, WorkItemTypes DEF Payloads, GenuineItem, VouchesItem
  <2>3. CASE Becomes(r, d)
    BY <1>4, <1>5, <2>3
  <2>4. ASSUME NEW m \in item.payloads, NEW e \in Callbacks,
               LET rest == [item EXCEPT !.payloads = item.payloads \ {m}]
                   d1 == Push(d, <<rest>>)
               IN  Becomes(r, IF Beyond(m) THEN d1 ELSE OnReceive(r, d1, m, e))
        PROVE  Vouched'
    <3> DEFINE rest == [item EXCEPT !.payloads = item.payloads \ {m}]
               d1 == Push(d, <<rest>>)
               d2 == IF Beyond(m) THEN d1 ELSE OnReceive(r, d1, m, e)
    <3>1. rest \in WorkItems
      BY <1>3, <2>1, WorkItemTypes
    <3>2. GenuineItem(rest, msgs) /\ VouchesItem(rest, d.BlockIndex)
      <4>1. rest.op = item.op /\ rest.payloads \subseteq item.payloads
        BY <1>3, <2>1 DEF WorkItems
      <4> HIDE DEF rest
      <4> QED
        BY <2>1, <2>2, <4>1 DEF GenuineItem, VouchesItem
    <3>3. Becomes(r, d2)
      BY <2>4
    <3> HIDE DEF rest
    <3>4. <<rest>> \in Seq(WorkItems) /\ RangeOf(<<rest>>) = {rest}
      BY <3>1 DEF RangeOf
    <3>5. \A i \in RangeOf(<<rest>>) :
            GenuineItem(i, msgs \cup d.out) /\ VouchesItem(i, d.BlockIndex)
      BY <1>4, <3>2, <3>4
    <3>6. Still(r, d, d1, msgs) /\ Wise(d1, msgs)
      BY <1>3, <1>4, <3>4, <3>5, PushStill, PushWise
    <3>7. Fit(r, d1, msgs)
      BY <3>6, StillFacts
    <3>8. msgs \cup d1.out = msgs
      BY <1>3, <1>4 DEF Push, Contexts
    <3> HIDE DEF d1
    <3>9. m \in Payloads /\ Genuine(m, msgs \cup d1.out) /\ Vouches(m)
      BY <2>2, <3>8
    <3>10. /\ Fit(r, OnReceive(r, d1, m, e), msgs)
           /\ Wise(OnReceive(r, d1, m, e), msgs)
      BY <1>2, <3>6, <3>7, <3>9, OnReceiveStep, OnReceiveWise DEF Step, Trusted
    <3>11. Fit(r, d2, msgs) /\ Wise(d2, msgs)
      BY <3>6, <3>7, <3>10
    <3> HIDE DEF d2
    <3> QED
      BY <1>5, <3>3, <3>11
  <2> QED
    BY <1>6, <2>3, <2>4 DEF ContinueReplay, d
<1>7. CASE ContinueArmTimer(r)
  <2>1. Fit(r, armTimer(r, d, item.view), msgs) /\ Wise(armTimer(r, d, item.view), msgs)
    BY <1>3, <1>4, armTimerStill, StillFacts, armTimerAlike, AlikeWise
  <2> QED
    BY <1>5, <1>7, <2>1 DEF ContinueArmTimer, d
<1>8. ASSUME item.op \in {"preparations", "commits"}
      PROVE  item.msg \in RecoveryMessages /\ Genuine(item.msg, msgs \cup d.out)
  BY <1>3, <1>4, <1>8, WorkItemTypes DEF GenuineItem
<1>9. CASE ContinuePreparations(r)
  <2> DEFINE d1 == recoverPreparations(r, d, item.msg)
  <2>1. item.op = "preparations"
    BY <1>9 DEF ContinuePreparations, Pending
  <2>2. /\ item.msg \in RecoveryMessages /\ Genuine(item.msg, msgs \cup d.out)
        /\ item.msg.height = d.BlockIndex /\ Vouches(item.msg)
    BY <1>3, <1>8, <2>1 DEF VouchesItem
  <2>3. Fit(r, d1, msgs)
    BY <1>4, <2>2, recoverPreparationsStill, StillFacts
  <2>4. Wise(d1, msgs)
    BY <1>3, <1>4, <2>2, recoverPreparationsWise
  <2> QED
    BY <1>5, <1>9, <2>3, <2>4 DEF ContinuePreparations, d
<1>10. CASE ContinueCommits(r)
  <2> DEFINE d1 == recoverCommits(d, item.msg)
  <2>1. item.msg \in RecoveryMessages /\ Genuine(item.msg, msgs \cup d.out)
    BY <1>8, <1>10 DEF ContinueCommits, Pending
  <2>2. Fit(r, d1, msgs)
    BY <1>4, <2>1, recoverCommitsStill, StillFacts
  <2>3. Wise(d1, msgs)
    BY <1>3, <1>4, <2>1, recoverCommitsWise
  <2> QED
    BY <1>5, <1>10, <2>2, <2>3 DEF ContinueCommits, d
<1>11. CASE ContinueDeleteMissing(r)
  <2> DEFINE d1 == deleteMissing(d, item.index)
  <2>1. item.index \in Nat
    BY <1>3, <1>11, WorkItemTypes DEF ContinueDeleteMissing, Pending
  <2>2. Fit(r, d1, msgs) /\ Wise(d1, msgs)
    BY <1>3, <1>4, <2>1, deleteMissingStill, StillFacts, deleteMissingWise
  <2> QED
    BY <1>5, <1>11, <2>2 DEF ContinueDeleteMissing, d
<1> QED
  BY <1>6, <1>7, <1>9, <1>10, <1>11 DEF Continue

LEMMA EnvironmentVouched ==
  ASSUME VInv, NEW r \in Running, SyncBlock(r) \/ Crash(r)
  PROVE  Vouched'
<1>1. msgs' = msgs /\ ctx \in [Running -> Contexts]
  BY DEF SyncBlock, Crash, VInv, PInv, IInv, TypeOK
<1>2. \A s \in Running : ctx'[s] \in {ctx[s], NewContext}
  BY <1>1 DEF SyncBlock, Crash
<1>3. \A s \in Running : Vetted(ctx'[s])
  BY <1>2, NewContextVetted DEF VInv, Vouched
<1> QED
  BY <1>1, <1>3 DEF VInv, Vouched, Running

LEMMA NextVouched ==
  ASSUME Cardinality(Correct) > F, VInv, [Next]_vars
  PROVE  VInv'
<1>1. PInv' /\ RInv'
  BY NextPromises, NextAlert DEF VInv
<1>2. CASE UNCHANGED vars
  <2>1. ctx' = ctx /\ msgs' = msgs
    BY <1>2 DEF vars
  <2> QED
    BY <1>1, <2>1 DEF VInv, Vouched, Running
<1>3. CASE Next
  <2>1. PICK r \in Running :
            \/ Start(r)
            \/ Reset(r)
            \/ \E m \in msgs \cup Injected : Deliver(r, m)
            \/ \E tx \in Tx : OnTransaction(r, tx)
            \/ OnTimeout(r)
            \/ OnNewTransaction(r)
            \/ Continue(r)
            \/ SyncBlock(r)
            \/ Crash(r)
    BY <1>3 DEF Next
  <2>2. Vouched'
    BY <2>1, StartVouched, ResetVouched, DeliverVouched, OnTransactionVouched,
       OnTimeoutVouched, ContinueVouched, EnvironmentVouched
  <2> QED
    BY <1>1, <2>2 DEF VInv
<1> QED
  BY <1>2, <1>3

\* In a network in which every set of M validators has a correct one, whatever
\* the others send, a correct validator never prepares, pre-commits or commits a
\* proposal that the checks of onPrepareRequest refuse: neither
\* VerifyPrepareRequest nor Verify(Pre)Block can be passed by on the way over
\* the cache, a recovery message or the last missing transaction, and no such
\* proposal gathers the preparations of checkPrepare without a correct one.
THEOREM PreparationsAreVerified ==
  ASSUME Cardinality(Correct) > F
  PROVE  Spec => []PreparesVerified
<1>1. VInv /\ [Next]_vars => VInv'
  BY NextVouched
<1>2. VInv => PreparesVerified
  BY DEF VInv, Vouched, Vouches, Backed, Unfit, Preparations, PreparesVerified
<1> QED
  BY <1>1, <1>2, InitVouched, PTL DEF Spec

-----------------------------------------------------------------------------
(* Why no handler panics and no missing transaction is forgotten (see       *)
(* Stocked).                                                                *)

\* A node in order at any point of a handler, S being what is on the network.
Ample(d, S) ==
    /\ Supplied(d, S \cup d.out)
    /\ \A m \in S \cup d.out : Offers(m, S \cup d.out)

\* Besides, OnTransaction has no entry to delete: a view may be opened.
Clear(d) == \A item \in RangeOf(d.todo) : item.op # "deleteMissing"

Full(d, S) == Ample(d, S) /\ Clear(d)

LEMMA OffersGrows ==
  ASSUME NEW A, NEW B, Extends(A, B)
  PROVE  /\ \A m : Offers(m, A) => Offers(m, B)
         /\ \A item, h : OffersItem(item, h, A) => OffersItem(item, h, B)
         /\ \A d : Supplied(d, A) => Supplied(d, B)
<1>1. \A h, v : PreparedIn(A, h, v) \subseteq PreparedIn(B, h, v)
  BY EvidenceGrows
<1>2. \A m : Offers(m, A) => Offers(m, B)
  BY <1>1 DEF Offers
<1>3. \A item, h : OffersItem(item, h, A) => OffersItem(item, h, B)
  BY <1>2 DEF OffersItem
<1>4. ASSUME NEW d, Supplied(d, A) PROVE Supplied(d, B)
  BY <1>1, <1>2, <1>3, <1>4 DEF Supplied
<1> QED
  BY <1>2, <1>3, <1>4

\* What brings no proposal is fine.
LEMMA NothingOffers ==
  ASSUME NEW m, m.type \notin {"PrepareRequest", "RecoveryMessage"}
  PROVE  Brings(m) = {} /\ \A A : Offers(m, A)
  BY DEF Brings, Offers

\* A call that leaves the proposal, its transactions and its request alone.
Even(d, d1) ==
    /\ d1.BlockIndex = d.BlockIndex
    /\ d1.ViewNumber = d.ViewNumber
    /\ d1.proposal = d.proposal
    /\ d1.Transactions = d.Transactions
    /\ d1.MissingTransactions = d.MissingTransactions
    /\ d1.cache = d.cache
    /\ d1.todo = d.todo
    /\ d1.panicked = d.panicked
    /\ RequestSentOrReceived(d1) = RequestSentOrReceived(d)
    /\ NoAmnesia =>
        d1.PreparationPayloads[PrimaryIndex(d)] = d.PreparationPayloads[PrimaryIndex(d)]
    /\ d.out \subseteq d1.out
    /\ \A m \in d1.out : m \in d.out \/ Brings(m) = {}

\* Besides, it may learn of transactions, list others as missing, and cache,
\* broadcast or leave to replay what offers no trap.
Adds(d, d1, A) ==
    /\ d1.BlockIndex = d.BlockIndex
    /\ d1.ViewNumber = d.ViewNumber
    /\ d1.proposal = d.proposal
    /\ d1.panicked = d.panicked
    /\ RequestSentOrReceived(d1) = RequestSentOrReceived(d)
    /\ NoAmnesia =>
        d1.PreparationPayloads[PrimaryIndex(d)] = d.PreparationPayloads[PrimaryIndex(d)]
    /\ d.Transactions \subseteq d1.Transactions
    /\ \A i \in DOMAIN d.MissingTransactions :
        /\ i \in DOMAIN d1.MissingTransactions
        /\ d1.MissingTransactions[i] = d.MissingTransactions[i]
    /\ \A m \in d1.cache : m \in d.cache \/ Offers(m, A)
    /\ \A item \in RangeOf(d1.todo) :
        \/ item \in RangeOf(d.todo)
        \/ OffersItem(item, d.BlockIndex, A) /\ item.op # "deleteMissing"
    /\ d.out \subseteq d1.out
    /\ \A m \in d1.out : m \in d.out \/ Offers(m, A)

LEMMA AddsAmple ==
  ASSUME NEW d, NEW S, Ample(d, S), NEW d1, Adds(d, d1, S \cup d1.out)
  PROVE  /\ Ample(d1, S)
         /\ Clear(d) => Clear(d1)
<1> DEFINE A == S \cup d1.out
<1>1. PrimaryIndex(d1) = PrimaryIndex(d) /\ TransactionHashes(d1) = TransactionHashes(d)
  BY DEF Adds, PrimaryIndex, TransactionHashes
<1>2. Supplied(d, A) /\ \A m \in S \cup d.out : Offers(m, A)
  <2>1. Extends(S \cup d.out, A)
    BY DEF Extends, Adds
  <2> HIDE DEF A
  <2> QED
    BY <2>1, OffersGrows DEF Ample
<1>3. \A m \in A : Offers(m, A)
  BY <1>2 DEF Adds
<1> HIDE DEF A
<1>4. RequestSentOrReceived(d1) =>
        /\ d1.proposal \notin Invalid
        /\ PrimaryIndex(d1) \in Correct =>
            PrimaryIndex(d1) \in PreparedIn(A, d1.BlockIndex, d1.ViewNumber)
  BY <1>1, <1>2 DEF Adds, Supplied
<1>5. RangeOf(d.MissingTransactions) \subseteq RangeOf(d1.MissingTransactions)
  BY DEF Adds, RangeOf
<1>6. RangeOf(TransactionHashes(d1)) \ d1.Transactions \subseteq RangeOf(d1.MissingTransactions)
  BY <1>1, <1>2, <1>5 DEF Adds, Supplied
<1>7. \A m \in d1.cache : Offers(m, A)
  BY <1>2 DEF Adds, Supplied, A
<1>8. ASSUME NEW item \in RangeOf(d1.todo)
      PROVE  OffersItem(item, d1.BlockIndex, A) /\ Found(d1, item)
  <2>1. CASE item \in RangeOf(d.todo)
    BY <1>2, <2>1 DEF Adds, Supplied, Found
  <2>2. CASE item \notin RangeOf(d.todo)
    BY <2>2 DEF Adds, Found, A
  <2> QED
    BY <2>1, <2>2
<1>9. NoAmnesia =>
        /\ ~d1.panicked
        /\ RequestSentOrReceived(d1) =>
            d1.PreparationPayloads[PrimaryIndex(d1)].type = "PrepareRequest"
  BY <1>1, <1>2 DEF Adds, Supplied
<1>10. Supplied(d1, A)
  BY <1>4, <1>6, <1>7, <1>8, <1>9 DEF Supplied
<1>11. Clear(d) => Clear(d1)
  BY DEF Clear, Adds
<1> QED
  BY <1>3, <1>10, <1>11 DEF Ample, A

LEMMA EvenAdds ==
  ASSUME NEW d, NEW d1, Even(d, d1)
  PROVE  \A A : Adds(d, d1, A)
  BY DEF Even, Adds, Offers

LEMMA EvenAmple ==
  ASSUME NEW d, NEW S, Ample(d, S), NEW d1, Even(d, d1)
  PROVE  Ample(d1, S)
  BY EvenAdds, AddsAmple

LEMMA EvenFull ==
  ASSUME NEW d, NEW S, Full(d, S), NEW d1, Even(d, d1)
  PROVE  Full(d1, S)
<1>1. Ample(d, S) /\ Clear(d) /\ Adds(d, d1, S \cup d1.out)
  BY EvenAdds DEF Full
<1> QED
  BY <1>1, AddsAmple DEF Full

LEMMA EvenReflexive ==
  ASSUME NEW d
  PROVE  Even(d, d)
  BY DEF Even

LEMMA EvenTransitive ==
  ASSUME NEW d, NEW d1, NEW d2, Even(d, d1), Even(d1, d2)
  PROVE  Even(d, d2)
<1>1. PrimaryIndex(d1) = PrimaryIndex(d)
  BY DEF Even, PrimaryIndex
<1> QED
  BY <1>1 DEF Even

-----------------------------------------------------------------------------
(* The calls that store no request and open no view.                        *)

LEMMA FieldEven ==
  ASSUME NEW d, Framed(d), NEW x
  PROVE  /\ Even(d, [d EXCEPT !.CommitPayloads = x])
         /\ Even(d, [d EXCEPT !.PreCommitPayloads = x])
         /\ Even(d, [d EXCEPT !.ChangeViewPayloads = x])
         /\ Even(d, [d EXCEPT !.LastSeenMessage = x])
         /\ Even(d, [d EXCEPT !.blockProcessed = x])
         /\ Even(d, [d EXCEPT !.preBlockProcessed = x])
         /\ Even(d, [d EXCEPT !.txSubscriptionOn = x])
         /\ Even(d, [d EXCEPT !.timer = x])
         /\ Even(d, [d EXCEPT !.calls = x])
  BY DEF Framed, Fields, Even, RequestSentOrReceived, PrimaryIndex

LEMMA CallEven ==
  ASSUME NEW d, Framed(d), NEW op
  PROVE  Even(d, Call(d, op))
  BY FieldEven DEF Call

LEMMA changeTimerEven ==
  ASSUME NEW d, Framed(d), NEW op
  PROVE  Even(d, changeTimer(d, op))
<1> DEFINE d1 == Call(d, op)
           x == [height |-> d.BlockIndex, view |-> d.ViewNumber, armed |-> TRUE]
<1>1. Even(d, d1) /\ Framed(d1)
  BY CallEven, CallQuiet, QuietFacts
<1>2. changeTimer(d, op) = [d1 EXCEPT !.timer = x]
  BY DEF changeTimer
<1> HIDE DEF d1, x
<1> QED
  BY <1>1, <1>2, FieldEven, EvenTransitive

LEMMA extendTimerEven ==
  ASSUME NEW r, NEW d, Framed(d), NEW op
  PROVE  Even(d, extendTimer(r, d, op))
  BY EvenReflexive, CallEven DEF extendTimer

LEMMA waitForTransactionsEven ==
  ASSUME NEW d, Framed(d), NEW op
  PROVE  Even(d, waitForTransactions(d, op))
<1> DEFINE d1 == [d EXCEPT !.txSubscriptionOn = TRUE]
<1>1. Even(d, d1) /\ Framed(d1)
  BY FieldEven, FieldQuiet, QuietFacts
<1> HIDE DEF d1
<1> QED
  BY <1>1, changeTimerEven, EvenTransitive DEF waitForTransactions, d1

LEMMA armTimerEven ==
  ASSUME NEW r, NEW d, Framed(d), NEW view
  PROVE  Even(d, armTimer(r, d, view))
  BY EvenReflexive, changeTimerEven DEF armTimer

LEMMA BroadcastEven ==
  ASSUME NEW d, Framed(d), NEW m, Brings(m) = {}
  PROVE  Even(d, Broadcast(d, m))
  BY DEF Broadcast, Framed, Fields, Even, RequestSentOrReceived, PrimaryIndex

LEMMA broadcastChangeViewEven ==
  ASSUME NEW r, NEW d, Framed(d)
  PROVE  Even(d, broadcastChangeView(r, d))
<1> DEFINE m == makeChangeView(r, d)
           d1 == [d EXCEPT !.ChangeViewPayloads[r] = m]
<1>1. Brings(m) = {}
  BY NothingOffers DEF makeChangeView, ChangeViewMsg
<1> HIDE DEF m
<1>2. Even(d, d1) /\ Framed(d1)
  BY FieldEven, FieldQuiet, QuietFacts
<1> HIDE DEF d1
<1>3. broadcastChangeView(r, d) = Broadcast(d1, m)
  BY DEF broadcastChangeView, d1, m
<1> QED
  BY <1>1, <1>2, <1>3, BroadcastEven, EvenTransitive

LEMMA checkCommitEven ==
  ASSUME NEW d, Framed(d), NEW e
  PROVE  Even(d, checkCommit(d, e))
  BY EvenReflexive, FieldEven DEF checkCommit

LEMMA verifyCommitsEven ==
  ASSUME NEW d, Framed(d)
  PROVE  Even(d, verifyCommitPayloadsAgainstHeader(d))
  BY FieldEven DEF verifyCommitPayloadsAgainstHeader

LEMMA verifyPreCommitsEven ==
  ASSUME NEW d, Framed(d)
  PROVE  Even(d, verifyPreCommitPayloadsAgainstPreBlock(d))
  BY EvenReflexive, FieldEven DEF verifyPreCommitPayloadsAgainstPreBlock

LEMMA sendCommitEven ==
  ASSUME NEW r \in Validators, NEW d, Framed(d)
  PROVE  Even(d, sendCommit(r, d))
<1> DEFINE m == makeCommit(r, d)
           x == [d.CommitPayloads EXCEPT ![r] = m]
           d1 == [d EXCEPT !.CommitPayloads = x]
<1>1. SUFFICES ASSUME m # Nil PROVE Even(d, sendCommit(r, d))
  BY EvenReflexive DEF sendCommit
<1>2. m.type = "Commit"
  BY <1>1 DEF makeCommit, Framed, Kind, CommitMsg
<1>3. sendCommit(r, d) = Broadcast(d1, m)
  BY <1>1 DEF sendCommit
<1> HIDE DEF m
<1>4. Kind(x, "Commit")
  BY <1>2, KindExcept DEF Framed
<1> HIDE DEF x
<1>5. Even(d, d1) /\ Framed(d1)
  BY <1>4, FieldEven, FieldQuiet, QuietFacts
<1> HIDE DEF d1
<1>6. Brings(m) = {}
  BY <1>2, NothingOffers
<1> QED
  BY <1>3, <1>5, <1>6, BroadcastEven, EvenTransitive

LEMMA sendPreCommitEven ==
  ASSUME NEW r \in Validators, NEW d, Framed(d)
  PROVE  Even(d, sendPreCommit(r, d))
<1> DEFINE m == makePreCommit(r, d)
           x == [d.PreCommitPayloads EXCEPT ![r] = m]
           d1 == [d EXCEPT !.PreCommitPayloads = x]
<1>1. SUFFICES ASSUME m # Nil PROVE Even(d, sendPreCommit(r, d))
  BY EvenReflexive DEF sendPreCommit
<1>2. m.type = "PreCommit"
  BY <1>1 DEF makePreCommit, Framed, Kind, PreCommitMsg
<1>3. sendPreCommit(r, d) = Broadcast(d1, m)
  BY <1>1 DEF sendPreCommit
<1> HIDE DEF m
<1>4. Kind(x, "PreCommit")
  BY <1>2, KindExcept DEF Framed
<1> HIDE DEF x
<1>5. Even(d, d1) /\ Framed(d1)
  BY <1>4, FieldEven, FieldQuiet, QuietFacts
<1> HIDE DEF d1
<1>6. Brings(m) = {}
  BY <1>2, NothingOffers
<1> QED
  BY <1>3, <1>5, <1>6, BroadcastEven, EvenTransitive

LEMMA checkPreCommitEven ==
  ASSUME NEW r \in Nodes, NEW d, Framed(d), NEW e
  PROVE  Even(d, checkPreCommit(r, d, e))
<1> DEFINE d1 == [d EXCEPT !.preBlockProcessed = TRUE]
           d2 == verifyCommitPayloadsAgainstHeader(d1)
           d3 == sendCommit(r, d2)
           d4 == changeTimer(d3, "commit")
<1>1. Even(d, d1) /\ Framed(d1)
  BY FieldEven, FieldQuiet, QuietFacts
<1>2. \/ checkPreCommit(r, d, e) = d
      \/ PreCommitSent(r, d) /\ checkPreCommit(r, d, e) = checkCommit(d4, e)
      \/ checkPreCommit(r, d, e) = d1
  BY Zenon DEF checkPreCommit
<1>3. PreCommitSent(r, d) => r \in Validators
  BY DEF PreCommitSent, WatchOnly, Nodes
<1> HIDE DEF d1
<1>4. Even(d1, d2) /\ Framed(d2)
  BY <1>1, verifyCommitsEven, verifyCommitsQuiet, QuietFacts
<1> HIDE DEF d2
<1>5. ASSUME r \in Validators PROVE Even(d2, d3) /\ Framed(d3)
  BY <1>4, <1>5, sendCommitEven, sendCommitQuiet, QuietFacts
<1> HIDE DEF d3
<1>6. ASSUME r \in Validators PROVE Even(d3, d4) /\ Framed(d4)
  BY <1>5, <1>6, changeTimerEven, changeTimerQuiet, QuietFacts
<1> HIDE DEF d4
<1>7. ASSUME r \in Validators PROVE Even(d, checkCommit(d4, e))
  <2>1. Even(d4, checkCommit(d4, e))
    BY <1>6, <1>7, checkCommitEven
  <2>2. Even(d, d3)
    BY <1>1, <1>4, <1>5, <1>7, EvenTransitive
  <2> QED
    BY <1>6, <1>7, <2>1, <2>2, EvenTransitive
<1> QED
  BY <1>1, <1>2, <1>3, <1>7, EvenReflexive

LEMMA checkPrepareEven ==
  ASSUME NEW r \in Validators, NEW d0, Framed(d0), NEW e
  PROVE  Even(d0, checkPrepare(r, d0, e))
<1> DEFINE d == Call(d0, "checkPrepare")
           d1 == sendPreCommit(r, d)
           d2 == changeTimer(d1, "commit")
           d3 == sendCommit(r, d)
           d4 == changeTimer(d3, "commit")
<1>0. r \in Nodes
  BY DEF Nodes
<1>1. Even(d0, d) /\ Framed(d)
  BY CallEven, CallQuiet, QuietFacts
<1>2. checkPrepare(r, d0, e) \in {d, checkPreCommit(r, d2, e), checkCommit(d4, e)}
  BY DEF checkPrepare
<1> HIDE DEF d
<1>3. Even(d, d1) /\ Framed(d1) /\ Even(d, d3) /\ Framed(d3)
  BY <1>1, sendPreCommitEven, sendCommitEven, sendPreCommitQuiet, sendCommitQuiet, QuietFacts
<1> HIDE DEF d1, d3
<1>4. Even(d1, d2) /\ Framed(d2) /\ Even(d3, d4) /\ Framed(d4)
  BY <1>3, changeTimerEven, changeTimerQuiet, QuietFacts
<1> HIDE DEF d2, d4
<1>5. Even(d0, d2) /\ Even(d0, d4)
  BY <1>1, <1>3, <1>4, EvenTransitive
<1>6. Even(d2, checkPreCommit(r, d2, e)) /\ Even(d4, checkCommit(d4, e))
  BY <1>0, <1>4, checkPreCommitEven, checkCommitEven
<1> QED
  BY <1>1, <1>2, <1>5, <1>6, EvenTransitive

LEMMA onPreCommitEven ==
  ASSUME NEW r \in Nodes, NEW d, Framed(d), NEW msg, msg.type = "PreCommit",
         msg.from \in Validators, NEW e
  PROVE  Even(d, onPreCommit(r, d, msg, e))
<1> DEFINE x == [d.PreCommitPayloads EXCEPT ![msg.from] = msg]
           d1 == [d EXCEPT !.PreCommitPayloads = x]
           extended == extendTimer(r, d1, "extend4")
           dropped == [extended EXCEPT !.PreCommitPayloads = d.PreCommitPayloads]
<1>1. onPreCommit(r, d, msg, e)
        \in {d, d1, extended, dropped, checkPreCommit(r, extended, e)}
  BY DEF onPreCommit
<1>2. Kind(x, "PreCommit")
  BY KindExcept DEF Framed
<1> HIDE DEF x
<1>3. Even(d, d1) /\ Framed(d1)
  BY <1>2, FieldEven, FieldQuiet, QuietFacts
<1> HIDE DEF d1
<1>4. Even(d1, extended) /\ Framed(extended)
  BY <1>3, extendTimerEven, extendTimerQuiet, QuietFacts
<1> HIDE DEF extended
<1>5. Even(extended, dropped) /\ Even(extended, checkPreCommit(r, extended, e))
  BY <1>4, FieldEven, checkPreCommitEven
<1> HIDE DEF dropped
<1> QED
  BY <1>1, <1>3, <1>4, <1>5, EvenTransitive, EvenReflexive

LEMMA onCommitEven ==
  ASSUME NEW r, NEW d, Framed(d), NEW msg, msg.type = "Commit", msg.from \in Validators, NEW e
  PROVE  Even(d, onCommit(r, d, msg, e))
<1> DEFINE x == [d.CommitPayloads EXCEPT ![msg.from] = msg]
           d1 == [d EXCEPT !.CommitPayloads = x]
           extended == extendTimer(r, d1, "extend4")
           dropped == [extended EXCEPT !.CommitPayloads = d.CommitPayloads]
<1>1. onCommit(r, d, msg, e) \in {d, d1, extended, dropped, checkCommit(extended, e)}
  BY DEF onCommit
<1>2. Kind(x, "Commit")
  BY KindExcept DEF Framed
<1> HIDE DEF x
<1>3. Even(d, d1) /\ Framed(d1)
  BY <1>2, FieldEven, FieldQuiet, QuietFacts
<1> HIDE DEF d1
<1>4. Even(d1, extended) /\ Framed(extended)
  BY <1>3, extendTimerEven, extendTimerQuiet, QuietFacts
<1> HIDE DEF extended
<1>5. Even(extended, dropped) /\ Even(extended, checkCommit(extended, e))
  BY <1>4, FieldEven, checkCommitEven
<1> HIDE DEF dropped
<1> QED
  BY <1>1, <1>3, <1>4, <1>5, EvenTransitive, EvenReflexive

-----------------------------------------------------------------------------
(* Transactions.                                                            *)

\* EntriesAt drops none of the entries asked for.
LEMMA EntriesAtRange ==
  ASSUME NEW A, NEW s \in Seq(A), NEW I \in SUBSET DOMAIN s, NEW i \in I
  PROVE  s[i] \in RangeOf(EntriesAt(s, I))
<1> DEFINE Upto(x) == {j \in I : j <= x}
           Kth(k) == CHOOSE x \in I : Cardinality(Upto(x)) = k
           n == Cardinality(Upto(i))
<1>1. Len(s) \in Nat /\ DOMAIN s = 1 .. Len(s) /\ I \subseteq Nat
  OBVIOUS
<1>2. IsFiniteSet(I) /\ Cardinality(I) \in Nat
  <2>1. IsFiniteSet(DOMAIN s)
    BY <1>1, FS_Interval
  <2> QED
    BY <2>1, FS_Subset, FS_CardinalityType
<1>3. \A x : Upto(x) \subseteq I /\ IsFiniteSet(Upto(x)) /\ Cardinality(Upto(x)) \in Nat
  BY <1>2, FS_Subset, FS_CardinalityType
<1>4. ASSUME NEW x \in I, NEW y \in I, x < y
      PROVE  Cardinality(Upto(x)) < Cardinality(Upto(y))
  <2>1. y \notin Upto(x) /\ Upto(x) \cup {y} \subseteq Upto(y)
    BY <1>1, <1>4
  <2> HIDE DEF Upto
  <2>2. Cardinality(Upto(x) \cup {y}) = Cardinality(Upto(x)) + 1
    BY <1>3, <2>1, FS_AddElement
  <2>3. Cardinality(Upto(x) \cup {y}) <= Cardinality(Upto(y))
    BY <1>3, <2>1, FS_Subset
  <2> QED
    BY <1>3, <2>2, <2>3
<1>5. n \in 1 .. Cardinality(I)
  <2>1. {i} \subseteq Upto(i)
    BY <1>1
  <2> HIDE DEF Upto
  <2>2. Cardinality({i}) = 1
    BY FS_Singleton
  <2>3. 1 <= n /\ n <= Cardinality(I)
    BY <1>2, <1>3, <2>1, <2>2, FS_Subset
  <2> QED
    BY <1>2, <1>3, <2>3
<1>6. EntriesAt(s, I) = [k \in 1 .. Cardinality(I) |-> s[Kth(k)]]
  BY DEF EntriesAt
<1> HIDE DEF Upto
<1>7. Kth(n) \in I /\ Cardinality(Upto(Kth(n))) = n
  OBVIOUS
<1>8. Kth(n) = i
  <2>1. ~(Kth(n) < i) /\ ~(i < Kth(n))
    BY <1>3, <1>4, <1>7
  <2> QED
    BY <1>1, <1>7, <2>1
<1> HIDE DEF Kth, n
<1>9. n \in DOMAIN EntriesAt(s, I) /\ EntriesAt(s, I)[n] = s[i]
  BY <1>5, <1>6, <1>8
<1> QED
  BY <1>9 DEF RangeOf

\* What is not known after processMissingTx is listed, and what was listed is.
LEMMA MissingTxFacts ==
  ASSUME NEW d \in Contexts, NEW e
  PROVE  LET d1 == processMissingTx(d, e)
         IN  /\ d.Transactions \subseteq d1.Transactions
             /\ \A i \in DOMAIN d.MissingTransactions :
                    /\ i \in DOMAIN d1.MissingTransactions
                    /\ d1.MissingTransactions[i] = d.MissingTransactions[i]
             /\ RangeOf(TransactionHashes(d)) \ d1.Transactions
                    \subseteq RangeOf(d1.MissingTransactions)
             /\ d1.panicked = d.panicked
             /\ Alike(d, d1)
<1> DEFINE hashes == TransactionHashes(d)
           missing == {i \in DOMAIN hashes : hashes[i] \notin d.Transactions \cup e.avail}
           s == d.MissingTransactions
           t == EntriesAt(hashes, missing)
           known == d.Transactions \cup (RangeOf(hashes) \cap e.avail)
           d1 == processMissingTx(d, e)
<1>1. hashes \in Seq(Tx) /\ s \in Seq(Tx)
  BY TxAssumption DEF TransactionHashes, Contexts
<1>2. missing \in SUBSET DOMAIN hashes
  OBVIOUS
<1>3. /\ d1.Transactions = known /\ d1.MissingTransactions = s \o t
      /\ d1.panicked = d.panicked
  BY DEF processMissingTx, Contexts
<1>4. Alike(d, d1)
  BY processMissingTxAlike
<1> HIDE DEF hashes, d1, s
<1>5. t \in Seq(Tx)
  BY <1>1, <1>2, EntriesAtType
<1>6. \A i \in missing : hashes[i] \in RangeOf(t)
  BY <1>1, <1>2, EntriesAtRange
<1> HIDE DEF t
<1>7. \A i \in DOMAIN s : i \in DOMAIN (s \o t) /\ (s \o t)[i] = s[i]
  BY <1>1, <1>5
<1>8. \A i \in DOMAIN t : i + Len(s) \in DOMAIN (s \o t) /\ (s \o t)[i + Len(s)] = t[i]
  BY <1>1, <1>5
<1>9. RangeOf(t) \subseteq RangeOf(s \o t)
  BY <1>8 DEF RangeOf
<1>10. RangeOf(hashes) \ known \subseteq RangeOf(s \o t)
  <2>1. ASSUME NEW i \in DOMAIN hashes, hashes[i] \notin known
        PROVE  hashes[i] \in RangeOf(t)
    <3>1. hashes[i] \in RangeOf(hashes)
      BY DEF RangeOf
    <3> QED
      BY <1>6, <2>1, <3>1
  <2> QED
    BY <1>9, <2>1 DEF RangeOf
<1> QED
  BY <1>3, <1>4, <1>7, <1>10 DEF d1, s, hashes

LEMMA processMissingTxAdds ==
  ASSUME NEW d \in Contexts, NEW e, NEW A
  PROVE  Adds(d, processMissingTx(d, e), A)
<1> DEFINE d1 == processMissingTx(d, e)
<1>1. /\ d.Transactions \subseteq d1.Transactions
      /\ \A i \in DOMAIN d.MissingTransactions :
            /\ i \in DOMAIN d1.MissingTransactions
            /\ d1.MissingTransactions[i] = d.MissingTransactions[i]
      /\ d1.panicked = d.panicked
      /\ Alike(d, d1)
  BY MissingTxFacts
<1> HIDE DEF d1
<1>2. Adds(d, d1, A)
  BY <1>1 DEF Adds, Alike, RequestSentOrReceived, PrimaryIndex
<1> QED
  BY <1>2 DEF d1

LEMMA sendRecoveryRequestFull ==
  ASSUME NEW r, NEW S, NEW d \in Contexts, Full(d, S), NEW e
  PROVE  Full(sendRecoveryRequest(r, d, e), S)
<1> DEFINE d1 == IF RequestSentOrReceived(d) /\ ~hasAllTransactions(d)
                 THEN processMissingTx(d, e)
                 ELSE d
           msg == RecoveryRequestMsg(d1.BlockIndex, d1.ViewNumber, r)
<1>1. d1 \in Contexts /\ Adds(d, d1, S \cup d1.out)
  BY processMissingTxAdds, processMissingTxSame, EvenReflexive, EvenAdds DEF Same
<1>2. sendRecoveryRequest(r, d, e) = Broadcast(d1, msg)
  BY DEF sendRecoveryRequest
<1> HIDE DEF d1
<1>3. Full(d1, S)
  BY <1>1, AddsAmple DEF Full
<1>4. Brings(msg) = {}
  BY NothingOffers DEF RecoveryRequestMsg
<1> HIDE DEF msg
<1>5. Even(d1, Broadcast(d1, msg))
  BY <1>1, <1>4, ContextFramed, BroadcastEven
<1> QED
  BY <1>2, <1>3, <1>5, EvenFull

\* The entry that OnTransaction has found is that of a transaction it has added.
LEMMA deleteMissingFull ==
  ASSUME NEW S, NEW d \in Contexts, Full(d, S), NEW i \in DOMAIN d.MissingTransactions,
         d.MissingTransactions[i] \in d.Transactions
  PROVE  Full(deleteMissing(d, i), S)
<1> DEFINE s == d.MissingTransactions
           t == SubSeq(s, 1, i - 1) \o SubSeq(s, i + 1, Len(s))
           d1 == [d EXCEPT !.MissingTransactions = t]
<1>1. s \in Seq(Tx) /\ DOMAIN s = 1 .. Len(s) /\ Len(s) \in Nat /\ i \in 1 .. Len(s)
  BY DEF Contexts
<1>2. deleteMissing(d, i) = d1
  <2>1. s # <<>> /\ ~(i > Len(s))
    BY <1>1
  <2> QED
    BY <2>1 DEF deleteMissing
<1> HIDE DEF s
<1>3. RangeOf(s) \ {s[i]} \subseteq RangeOf(t)
  <2> DEFINE u == SubSeq(s, 1, i - 1)
             w == SubSeq(s, i + 1, Len(s))
  <2>1. /\ u \in Seq(Tx) /\ Len(u) = i - 1
        /\ \A j \in 1 .. i - 1 : u[j] = s[j]
    BY <1>1
  <2>2. /\ w \in Seq(Tx) /\ Len(w) = Len(s) - i
        /\ \A j \in 1 .. Len(s) - i : w[j] = s[j + i]
    BY <1>1
  <2> HIDE DEF u, w
  <2>3. /\ Len(u \o w) = Len(u) + Len(w) /\ DOMAIN (u \o w) = 1 .. Len(u) + Len(w)
        /\ \A j \in 1 .. Len(u) + Len(w) :
            (u \o w)[j] = IF j <= Len(u) THEN u[j] ELSE w[j - Len(u)]
    <3>1. /\ u \o w \in Seq(Tx) /\ Len(u \o w) = Len(u) + Len(w)
          /\ \A j \in 1 .. Len(u) + Len(w) :
                (u \o w)[j] = IF j <= Len(u) THEN u[j] ELSE w[j - Len(u)]
      BY <2>1, <2>2, ConcatProperties, Zenon
    <3> QED
      BY <3>1
  <2>4. ASSUME NEW j \in 1 .. Len(s), j # i
        PROVE  s[j] \in RangeOf(u \o w)
    <3>0. j \in Int /\ i \in Int /\ Len(s) \in Int /\ 1 <= j /\ j <= Len(s) /\ 1 <= i /\ i <= Len(s)
      BY <1>1
    <3>1. CASE j < i
      <4>1. j \in 1 .. i - 1 /\ j \in 1 .. Len(u) + Len(w) /\ j <= Len(u)
        BY <2>1, <2>2, <3>0, <3>1
      <4>2. (u \o w)[j] = s[j] /\ j \in DOMAIN (u \o w)
        BY <2>1, <2>3, <4>1
      <4> QED
        BY <4>2 DEF RangeOf
    <3>2. CASE j > i
      <4> DEFINE k == j - 1
                 n == j - i
      <4>1. n \in 1 .. Len(s) - i /\ n + i = j
        BY <3>0, <3>2
      <4>2. k \in 1 .. Len(u) + Len(w) /\ ~(k <= Len(u)) /\ k - Len(u) = n
        BY <2>1, <2>2, <3>0, <3>2
      <4> HIDE DEF k, n
      <4>3. (u \o w)[k] = w[n] /\ w[n] = s[j] /\ k \in DOMAIN (u \o w)
        BY <2>2, <2>3, <4>1, <4>2
      <4> QED
        BY <4>3 DEF RangeOf
    <3> QED
      BY <2>4, <3>0, <3>1, <3>2
  <2>5. t = u \o w
    BY DEF u, w
  <2> HIDE DEF t
  <2> QED
    BY <1>1, <2>4, <2>5 DEF RangeOf
<1> HIDE DEF t
<1>4. /\ d1.BlockIndex = d.BlockIndex /\ d1.ViewNumber = d.ViewNumber
      /\ d1.proposal = d.proposal /\ d1.PreparationPayloads = d.PreparationPayloads
      /\ d1.Transactions = d.Transactions /\ d1.MissingTransactions = t
      /\ d1.cache = d.cache /\ d1.todo = d.todo /\ d1.panicked = d.panicked
      /\ d1.out = d.out
  BY DEF Contexts
<1> HIDE DEF d1
<1>5. /\ PrimaryIndex(d1) = PrimaryIndex(d) /\ TransactionHashes(d1) = TransactionHashes(d)
      /\ RequestSentOrReceived(d1) = RequestSentOrReceived(d)
  BY <1>4 DEF RequestSentOrReceived, PrimaryIndex, TransactionHashes
<1>6. Supplied(d, S \cup d.out) /\ Clear(d)
  BY DEF Full, Ample
<1>7. RangeOf(TransactionHashes(d)) \ d.Transactions \subseteq RangeOf(t)
  BY <1>3, <1>6 DEF Supplied, s
<1>8. \A item \in RangeOf(d1.todo) : Found(d1, item)
  BY <1>4, <1>6 DEF Clear, Found
<1>9. Supplied(d1, S \cup d1.out)
  BY <1>4, <1>5, <1>6, <1>7, <1>8 DEF Supplied
<1> QED
  BY <1>2, <1>4, <1>9 DEF Full, Ample, Clear

-----------------------------------------------------------------------------
(* What a node caches, broadcasts or leaves to replay.                      *)

LEMMA BroadcastFull ==
  ASSUME NEW S, NEW d \in Contexts, Full(d, S), NEW m, Offers(m, S \cup d.out)
  PROVE  Full(Broadcast(d, m), S)
<1> DEFINE d1 == Broadcast(d, m)
<1>1. /\ d1.BlockIndex = d.BlockIndex /\ d1.ViewNumber = d.ViewNumber
      /\ d1.proposal = d.proposal /\ d1.panicked = d.panicked
      /\ d1.PreparationPayloads = d.PreparationPayloads
      /\ d1.Transactions = d.Transactions
      /\ d1.MissingTransactions = d.MissingTransactions
      /\ d1.cache = d.cache /\ d1.todo = d.todo /\ d1.out = d.out \cup {m}
  BY DEF Broadcast, Contexts
<1> HIDE DEF d1
<1>2. Extends(S \cup d.out, S \cup d1.out)
  BY <1>1 DEF Extends
<1>3. Offers(m, S \cup d1.out)
  BY <1>2, OffersGrows
<1>4. Adds(d, d1, S \cup d1.out)
  BY <1>1, <1>3 DEF Adds, RequestSentOrReceived, PrimaryIndex
<1>5. Full(d1, S)
  BY <1>4, AddsAmple DEF Full
<1> QED
  BY <1>5 DEF d1

LEMMA addMessageFull ==
  ASSUME NEW S, NEW d \in Contexts, Full(d, S), NEW m, Offers(m, S \cup d.out)
  PROVE  Full(addMessage(d, m), S)
<1> DEFINE d1 == [d EXCEPT !.cache = {x \in d.cache : ~SameSlot(x, m)} \cup {m}]
<1>1. Adds(d, d1, S \cup d1.out)
  BY DEF Contexts, Adds, RequestSentOrReceived, PrimaryIndex
<1> HIDE DEF d1
<1>2. Full(d1, S)
  BY <1>1, AddsAmple DEF Full
<1> QED
  BY <1>2 DEF addMessage, d1

LEMMA PushFull ==
  ASSUME NEW S, NEW d \in Contexts, Full(d, S), NEW s \in Seq(WorkItems),
         \A item \in RangeOf(s) :
            OffersItem(item, d.BlockIndex, S \cup d.out) /\ item.op # "deleteMissing"
  PROVE  Full(Push(d, s), S)
<1> DEFINE d1 == Push(d, s)
<1>1. d.todo \in Seq(WorkItems)
  BY DEF Contexts
<1>2. \A item \in RangeOf(s \o d.todo) : item \in RangeOf(s) \/ item \in RangeOf(d.todo)
  BY <1>1, ConcatRange
<1>3. /\ d1.BlockIndex = d.BlockIndex /\ d1.ViewNumber = d.ViewNumber
      /\ d1.proposal = d.proposal /\ d1.panicked = d.panicked
      /\ d1.PreparationPayloads = d.PreparationPayloads
      /\ d1.Transactions = d.Transactions
      /\ d1.MissingTransactions = d.MissingTransactions
      /\ d1.cache = d.cache /\ d1.todo = s \o d.todo /\ d1.out = d.out
  BY DEF Push, Contexts
<1> HIDE DEF d1
<1>4. Adds(d, d1, S \cup d1.out)
  BY <1>2, <1>3 DEF Adds, RequestSentOrReceived, PrimaryIndex
<1>5. Full(d1, S)
  BY <1>4, AddsAmple DEF Full
<1> QED
  BY <1>5 DEF d1

\* A handler may only panic where a validator has lost its context.
LEMMA panicFull ==
  ASSUME NEW S, NEW d \in Contexts, Full(d, S), ~NoAmnesia
  PROVE  Full(panic(d), S)
<1> DEFINE d1 == panic(d)
<1>1. /\ d1.BlockIndex = d.BlockIndex /\ d1.ViewNumber = d.ViewNumber
      /\ d1.proposal = d.proposal
      /\ d1.PreparationPayloads = d.PreparationPayloads
      /\ d1.Transactions = d.Transactions
      /\ d1.MissingTransactions = d.MissingTransactions
      /\ d1.cache = d.cache /\ d1.todo = <<>> /\ d1.out = d.out
  BY DEF panic, Contexts
<1> HIDE DEF d1
<1>2. RangeOf(d1.todo) = {}
  BY <1>1 DEF RangeOf
<1>3. /\ PrimaryIndex(d1) = PrimaryIndex(d) /\ TransactionHashes(d1) = TransactionHashes(d)
      /\ RequestSentOrReceived(d1) = RequestSentOrReceived(d)
  BY <1>1 DEF RequestSentOrReceived, PrimaryIndex, TransactionHashes
<1>4. Supplied(d1, S \cup d1.out)
  BY <1>1, <1>2, <1>3 DEF Full, Ample, Supplied
<1>5. Full(d1, S)
  BY <1>1, <1>2, <1>4 DEF Full, Ample, Clear
<1> QED
  BY <1>5 DEF d1

-----------------------------------------------------------------------------
(* Recovery messages.                                                       *)

\* A node in order at any point of a handler but the one in OnTransaction.
Fresh(r, d, S) == Fit(r, d, S) /\ Full(d, S)

\* The request in a recovery message is the one of the node, which verifies.
LEMMA RecoveryOffers ==
  ASSUME NEW r, NEW S, NEW d \in Contexts, Sane(d), Tidy(d), Ample(d, S)
  PROVE  Offers(makeRecoveryMessage(r, d), S \cup d.out)
<1> DEFINE msg == makeRecoveryMessage(r, d)
           preparations == PayloadsOf(d.PreparationPayloads)
           requests == {m \in preparations : m.type = "PrepareRequest"}
<1>1. /\ msg.type = "RecoveryMessage"
      /\ msg.height = d.BlockIndex /\ msg.view = d.ViewNumber
      /\ msg.prepareRequest
            = IF requests = {} THEN Nil ELSE (CHOOSE m \in requests : TRUE).proposal
  BY DEF makeRecoveryMessage
<1>2. \A m \in preparations : \E i \in Validators :
        d.PreparationPayloads[i] # Nil /\ m = d.PreparationPayloads[i]
  BY DEF PayloadsOf
<1> HIDE DEF msg, preparations
<1>3. ASSUME msg.prepareRequest # Nil
      PROVE  /\ msg.prepareRequest = d.proposal
             /\ RequestSentOrReceived(d)
  <2>1. PICK m \in requests : msg.prepareRequest = m.proposal
    BY <1>1, <1>3
  <2>2. m = d.PreparationPayloads[PrimaryIndex(d)] /\ m # Nil
    BY <1>2, <2>1 DEF Sane
  <2> QED
    BY <2>1, <2>2 DEF RequestSentOrReceived, Tidy
<1>4. Brings(msg) # {} => RequestSentOrReceived(d) /\ Brings(msg) = {d.proposal}
  BY <1>1, <1>3 DEF Brings
<1>5. Proposer(msg) = PrimaryIndex(d)
  BY <1>1 DEF Proposer, PrimaryIndex
<1>6. Offers(msg, S \cup d.out)
  BY <1>1, <1>4, <1>5 DEF Ample, Supplied, Offers, Traps
<1> QED
  BY <1>6 DEF msg

LEMMA sendRecoveryMessageFull ==
  ASSUME NEW r, NEW S, NEW d, Fresh(r, d, S)
  PROVE  Full(sendRecoveryMessage(r, d), S)
<1>1. d \in Contexts /\ Sane(d) /\ Tidy(d) /\ Full(d, S) /\ Ample(d, S)
  BY FitContext DEF Fresh, Fit, Full
<1> QED
  BY <1>1, RecoveryOffers, BroadcastFull DEF sendRecoveryMessage

LEMMA onRecoveryRequestFull ==
  ASSUME NEW r, NEW S, NEW d, Fresh(r, d, S), NEW msg
  PROVE  Full(onRecoveryRequest(r, d, msg), S)
  BY sendRecoveryMessageFull DEF onRecoveryRequest, Fresh

-----------------------------------------------------------------------------
(* Opening a height or a view.                                              *)

LEMMA resetFull ==
  ASSUME NEW r \in Nodes, NEW S, NEW d \in Contexts, Full(d, S),
         NEW view \in Views, NEW height \in Nat, view = 0 => d.todo = <<>>
  PROVE  Full(reset(r, d, view, height), S)
<1> DEFINE d1 == reset(r, d, view, height)
<1>1. /\ d1 \in Contexts
      /\ d1.BlockIndex = IF view = 0 THEN height ELSE d.BlockIndex
      /\ d1.PreparationPayloads = NoPayloads
      /\ d1.cache = d.cache /\ d1.todo = d.todo /\ d1.out = d.out
  BY resetFacts
<1>2. d1.proposal = Nil /\ d1.panicked = d.panicked
  BY DEF reset, Contexts
<1> HIDE DEF d1
<1>3. ~RequestSentOrReceived(d1)
  BY <1>1, NodeFacts DEF RequestSentOrReceived, NoPayloads
<1>4. RangeOf(TransactionHashes(d1)) = {}
  BY <1>2 DEF TransactionHashes, RangeOf
<1>5. \A item \in RangeOf(d1.todo) :
        OffersItem(item, d1.BlockIndex, S \cup d1.out) /\ Found(d1, item)
  <2>1. CASE view = 0
    BY <1>1, <2>1 DEF RangeOf
  <2>2. CASE view # 0
    BY <1>1, <2>2 DEF Full, Ample, Supplied, Clear, Found
  <2> QED
    BY <2>1, <2>2
<1>6. Supplied(d1, S \cup d1.out)
  BY <1>1, <1>2, <1>3, <1>4, <1>5 DEF Full, Ample, Supplied
<1>7. Full(d1, S)
  BY <1>1, <1>6 DEF Full, Ample, Clear
<1> QED
  BY <1>7 DEF d1

LEMMA initializeConsensusFull ==
  ASSUME NEW r \in Nodes, NEW S, NEW d \in Contexts, Full(d, S),
         NEW view \in Views, NEW height \in Nat, view = 0 => d.todo = <<>>
  PROVE  Full(initializeConsensus(r, d, view, height), S)
<1> DEFINE d0 == reset(r, d, view, height)
           d1 == Call(d0, "reset")
           inbox == getHeight(d1, d1.BlockIndex)
           d2 == [d1 EXCEPT !.cache = d1.cache \ inbox]
           Mail(kind) == Replay({m \in inbox : InboxOf(m.type) = kind})
           items == <<Mail("prepare"), Mail("ChangeView"), Mail("PreCommit"),
                      Mail("Commit"), [op |-> "armTimer", view |-> view]>>
           d3 == initializeConsensus(r, d, view, height)
<1>1. Full(d0, S) /\ d0 \in Contexts
  BY resetFull, resetFacts
<1>2. d3 = IF inbox = {} THEN armTimer(r, d1, view) ELSE Push(d2, items)
  BY DEF initializeConsensus
<1> HIDE DEF d0, d3
<1>3. Full(d1, S) /\ d1 \in Contexts
  BY <1>1, Names, ContextFramed, CallEven, EvenFull, CallSame DEF Same
<1> HIDE DEF d1
<1>4. d1.cache \subseteq Restorable /\ \A m \in d1.cache : Offers(m, S \cup d1.out)
  BY <1>3 DEF Contexts, Full, Ample, Supplied
<1>5. inbox \subseteq d1.cache
  BY DEF getHeight
<1> HIDE DEF inbox
<1>6. Full(d2, S) /\ d2 \in Contexts /\ d2.out = d1.out
  <2>1. Adds(d1, d2, S \cup d2.out)
    BY <1>3 DEF Contexts, Adds, RequestSentOrReceived, PrimaryIndex
  <2>2. d2 \in Contexts
    BY <1>3, <1>4, FieldTypes
  <2>3. d2.out = d1.out
    BY <1>3 DEF Contexts
  <2> HIDE DEF d2
  <2> QED
    BY <1>3, <2>1, <2>2, <2>3, AddsAmple DEF Full
<1>7. \A kind : /\ Mail(kind) \in WorkItems /\ Mail(kind).op # "deleteMissing"
                /\ \A h : OffersItem(Mail(kind), h, S \cup d1.out)
  BY <1>4, <1>5 DEF Replay, WorkItems, OffersItem
<1>8. /\ [op |-> "armTimer", view |-> view] \in WorkItems
      /\ [op |-> "armTimer", view |-> view].op # "deleteMissing"
      /\ \A h : OffersItem([op |-> "armTimer", view |-> view], h, S \cup d1.out)
  BY DEF WorkItems, OffersItem
<1> HIDE DEF Mail, d2
<1>9. items \in Seq(WorkItems)
  BY <1>7, <1>8
<1>10. \A item \in RangeOf(items) :
         OffersItem(item, d2.BlockIndex, S \cup d2.out) /\ item.op # "deleteMissing"
  <2>1. RangeOf(items) = {Mail("prepare"), Mail("ChangeView"), Mail("PreCommit"),
                          Mail("Commit"), [op |-> "armTimer", view |-> view]}
    BY FiveRange
  <2> QED
    BY <1>6, <1>7, <1>8, <2>1
<1> HIDE DEF items
<1>11. Full(Push(d2, items), S)
  BY <1>6, <1>9, <1>10, PushFull
<1>12. Full(d3, S)
  BY <1>2, <1>3, <1>11, ContextFramed, armTimerEven, EvenFull
<1> QED
  BY <1>12 DEF d3

LEMMA checkChangeViewFull ==
  ASSUME NEW r \in Nodes, NEW S, NEW d, Fresh(r, d, S), NEW view \in Views
  PROVE  Full(checkChangeView(r, d, view), S)
<1> DEFINE mine == IF WatchOnly(r) THEN Nil ELSE d.ChangeViewPayloads[r]
           agree == mine # Nil /\ mine.newView < view
           d1 == IF agree THEN broadcastChangeView(r, d) ELSE d
<1>1. /\ d.BlockIndex \in Nat /\ d.ViewNumber \in Nat /\ view \in Nat
      /\ Fit(r, d, S) /\ Full(d, S) /\ d \in Contexts
  BY FitContext, FitTypes, ViewFacts DEF Fresh
<1>2. d1 \in Contexts
  <2>1. agree => r \in Validators
    BY NodeFacts
  <2>2. Still(r, d, d1, S)
    BY <1>1, <2>1, StepReflexive, broadcastChangeViewStill
  <2> QED
    BY <2>2, StillFacts
<1>3. Full(d1, S)
  BY <1>1, ContextFramed, broadcastChangeViewEven, EvenFull
<1>4. \/ checkChangeView(r, d, view) = d
      \/ ~(d.ViewNumber >= view)
         /\ checkChangeView(r, d, view) = initializeConsensus(r, d1, view, d.BlockIndex)
  BY DEF checkChangeView
<1> HIDE DEF d1
<1>5. ~(d.ViewNumber >= view) => view # 0
  BY <1>1
<1> QED
  BY <1>1, <1>2, <1>3, <1>4, <1>5, initializeConsensusFull

LEMMA sendChangeViewFull ==
  ASSUME NEW r \in Nodes, NEW S, NEW d, Fresh(r, d, S), NEW e, NEW reason
  PROVE  Full(sendChangeView(r, d, e, reason), S)
<1> DEFINE d1 == changeTimer(d, "changeView")
           d2 == broadcastChangeView(r, d1)
           view == (d.ViewNumber + 1) % ViewSize
<1>1. Fit(r, d, S) /\ Full(d, S) /\ d \in Contexts /\ view \in Views
  BY FitContext, FitTypes, ViewFacts DEF Fresh
<1>2. SUFFICES ASSUME ~WatchOnly(r)
               PROVE  Full(sendChangeView(r, d, e, reason), S)
  BY <1>1 DEF sendChangeView
<1>3. r \in Validators
  BY <1>2, NodeFacts
<1>4. Still(r, d, d1, S) /\ Full(d1, S)
  BY <1>1, Names, changeTimerStill, ContextFramed, changeTimerEven, EvenFull
<1>5. sendChangeView(r, d, e, reason)
        \in {sendRecoveryRequest(r, d1, e), checkChangeView(r, d2, view)}
  BY <1>2 DEF sendChangeView
<1> HIDE DEF d1, view
<1>6. Fit(r, d1, S) /\ d1 \in Contexts
  BY <1>4, StillFacts
<1>7. Still(r, d1, d2, S) /\ Full(d2, S)
  BY <1>3, <1>4, <1>6, broadcastChangeViewStill, ContextFramed, broadcastChangeViewEven, EvenFull
<1> HIDE DEF d2
<1>8. Fresh(r, d2, S)
  BY <1>7, StillFacts DEF Fresh
<1>9. Full(checkChangeView(r, d2, view), S)
  BY <1>1, <1>8, checkChangeViewFull
<1>10. Full(sendRecoveryRequest(r, d1, e), S)
  BY <1>4, <1>6, sendRecoveryRequestFull
<1> QED
  BY <1>5, <1>9, <1>10

-----------------------------------------------------------------------------
(* Preparations.                                                            *)

\* The primary proposes what verifies, and its request is on the network.
LEMMA sendPrepareRequestFull ==
  ASSUME NoTraps, NEW r \in Nodes, NEW S \in SUBSET Payloads, NEW d,
         Fresh(r, d, S), ~RequestSentOrReceived(d), r = PrimaryIndex(d), NEW force,
         NEW e, e.fill \in Drafts, e.refill \in Drafts
  PROVE  Full(sendPrepareRequest(r, d, force, e), S)
<1> DEFINE p == IF CanFill(e.fill, force) THEN e.fill ELSE e.refill
           msg == PrepareRequestMsg(d.BlockIndex, d.ViewNumber, r, p)
           filled == [d EXCEPT
                        !.proposal = p,
                        !.Transactions = d.Transactions \cup RangeOf(TxOf[p]),
                        !.txSubscriptionOn = FALSE,
                        !.PreparationPayloads[r] = msg]
           sent == Broadcast(filled, msg)
           noted == Call(sent, "prepareSent")
           timed == changeTimer(noted, "request")
<1>1. /\ Fit(r, d, S) /\ Full(d, S) /\ d \in Contexts
      /\ d.BlockIndex \in Nat /\ d.ViewNumber \in Views
      /\ r \in Validators /\ p \in Drafts /\ p \in Proposals
  BY FitContext, FitTypes, NodeFacts, RunningFacts DEF Fresh
<1>2. sendPrepareRequest(r, d, force, e)
        \in {waitForTransactions(d, "subscribe"), checkPrepare(r, timed, e)}
  BY DEF sendPrepareRequest
<1>3. Full(waitForTransactions(d, "subscribe"), S)
  BY <1>1, ContextFramed, waitForTransactionsEven, EvenFull
<1> HIDE DEF p
<1>4. /\ msg \in PrepareRequests /\ msg.type = "PrepareRequest" /\ msg.from = r
      /\ msg.height = d.BlockIndex /\ msg.view = d.ViewNumber /\ msg.proposal = p
  BY <1>1 DEF PrepareRequestMsg, PrepareRequests
<1>5. p \notin Invalid /\ p # Nil
  BY <1>1, NilAssumption DEF NoTraps
<1>6. Fit(r, sent, S)
  BY <1>1, ProposeStep DEF Step
<1>7. sent \in Contexts
  BY <1>6, FitContext
<1> HIDE DEF msg
<1>8. /\ sent.BlockIndex = d.BlockIndex
      /\ sent.ViewNumber = d.ViewNumber
      /\ sent.PreparationPayloads[r] = msg
      /\ sent.proposal = p
      /\ sent.Transactions = d.Transactions \cup RangeOf(TxOf[p])
      /\ sent.panicked = d.panicked
      /\ sent.cache = d.cache /\ sent.todo = d.todo /\ sent.out = d.out \cup {msg}
  BY <1>1 DEF Contexts, Slots, Broadcast
<1> HIDE DEF sent
<1> DEFINE A == S \cup sent.out
<1>9. /\ Extends(S \cup d.out, A) /\ msg \in A
      /\ \A m \in A : m = msg \/ m \in S \cup d.out
  BY <1>8 DEF Extends
<1> HIDE DEF A
<1>10. r \in PreparedIn(A, d.BlockIndex, d.ViewNumber)
  BY <1>1, <1>4, <1>9 DEF PreparedIn, Preparations
<1>11. \A m \in A : Offers(m, A)
  <2>1. Offers(msg, A)
    BY <1>4, <1>5, <1>10 DEF Offers, Brings, Proposer, Traps
  <2> QED
    BY <1>1, <1>9, <2>1, OffersGrows DEF Full, Ample
<1>12. Supplied(sent, A)
  <2>1. PrimaryIndex(sent) = r
    BY <1>8 DEF PrimaryIndex
  <2>2. RangeOf(TransactionHashes(sent)) \subseteq sent.Transactions
    BY <1>5, <1>8 DEF TransactionHashes
  <2>3. Supplied(d, A) /\ Clear(d)
    BY <1>1, <1>9, OffersGrows DEF Full, Ample
  <2>4. \A item \in RangeOf(sent.todo) : Found(sent, item)
    BY <1>8, <2>3 DEF Clear, Found
  <2> QED
    BY <1>4, <1>5, <1>8, <1>10, <2>1, <2>2, <2>3, <2>4 DEF Supplied
<1>13. Full(sent, S)
  BY <1>1, <1>8, <1>11, <1>12 DEF Full, Ample, Clear, A
<1>14. Full(noted, S) /\ Framed(noted)
  BY <1>7, <1>13, ContextFramed, CallEven, EvenFull, CallQuiet, QuietFacts
<1> HIDE DEF noted
<1>15. Full(timed, S) /\ Framed(timed)
  BY <1>14, changeTimerEven, EvenFull, changeTimerQuiet, QuietFacts
<1> HIDE DEF timed
<1>16. Full(checkPrepare(r, timed, e), S)
  BY <1>1, <1>15, checkPrepareEven, EvenFull
<1> QED
  BY <1>2, <1>3, <1>16

\* A backup answers in its own slot.
LEMMA sendPrepareResponseEven ==
  ASSUME NEW r \in Validators, NEW S, NEW d, Fit(r, d, S), RequestSentOrReceived(d),
         NoAmnesia => r # PrimaryIndex(d)
  PROVE  Even(d, sendPrepareResponse(r, d))
<1> DEFINE request == d.PreparationPayloads[PrimaryIndex(d)]
           msg == PrepareResponseMsg(d.BlockIndex, d.ViewNumber, r, request.proposal)
           x == [d.PreparationPayloads EXCEPT ![r] = msg]
           d1 == sendPrepareResponse(r, d)
<1>1. /\ d \in Contexts /\ d.BlockIndex \in Nat /\ d.ViewNumber \in Views
      /\ request.proposal \in Proposals
      /\ PrimaryIndex(d) \in Validators /\ DOMAIN d.PreparationPayloads = Validators
  <2>1. d \in Contexts /\ Sane(d) /\ Tidy(d)
    BY FitContext DEF Fit
  <2> QED
    BY <2>1, NodeFacts DEF Sane, Contexts, Slots, Tidy
<1>2. msg \in PrepareResponses /\ Brings(msg) = {}
  BY <1>1, NothingOffers DEF PrepareResponseMsg, PrepareResponses
<1>3. d1 = Broadcast([d EXCEPT !.PreparationPayloads = x], msg)
  BY DEF sendPrepareResponse
<1> HIDE DEF msg, d1
<1>4. msg # Nil
  BY <1>2, NilAssumption DEF Payloads, Restorable
<1>5. /\ x[PrimaryIndex(d)] # Nil
      /\ r # PrimaryIndex(d) => x[PrimaryIndex(d)] = request
  BY <1>1, <1>4 DEF RequestSentOrReceived
<1> HIDE DEF x
<1>6. /\ d1.BlockIndex = d.BlockIndex /\ d1.ViewNumber = d.ViewNumber
      /\ d1.proposal = d.proposal /\ d1.panicked = d.panicked
      /\ d1.PreparationPayloads = x
      /\ d1.Transactions = d.Transactions
      /\ d1.MissingTransactions = d.MissingTransactions
      /\ d1.cache = d.cache /\ d1.todo = d.todo /\ d1.out = d.out \cup {msg}
  BY <1>1, <1>3 DEF Broadcast, Contexts
<1>7. PrimaryIndex(d1) = PrimaryIndex(d)
  BY <1>6 DEF PrimaryIndex
<1>8. RequestSentOrReceived(d1)
  BY <1>5, <1>6, <1>7 DEF RequestSentOrReceived
<1>9. Even(d, d1)
  BY <1>2, <1>5, <1>6, <1>8 DEF Even
<1> QED
  BY <1>9 DEF d1

\* Before the request is there the primary's slot is empty.
LEMMA updateExistingPayloadsEven ==
  ASSUME NEW d \in Contexts, ~RequestSentOrReceived(d), NEW msg
  PROVE  Even(d, updateExistingPayloads(d, msg))
<1> DEFINE x == [i \in Validators |->
                    IF /\ d.PreparationPayloads[i] # Nil
                       /\ d.PreparationPayloads[i].type = "PrepareResponse"
                       /\ d.PreparationPayloads[i].proposal # msg.proposal
                    THEN Nil
                    ELSE d.PreparationPayloads[i]]
           d0 == [d EXCEPT !.PreparationPayloads = x]
           d1 == updateExistingPayloads(d, msg)
<1>1. d1 \in {verifyPreCommitPayloadsAgainstPreBlock(d0),
              verifyCommitPayloadsAgainstHeader(d0)}
  BY DEF updateExistingPayloads
<1>2. Framed(d0)
  BY ContextFramed, FieldQuiet, QuietFacts
<1>3. x[PrimaryIndex(d)] = Nil /\ d.PreparationPayloads[PrimaryIndex(d)] = Nil
  BY NodeFacts DEF RequestSentOrReceived
<1> HIDE DEF x, d1
<1>4. Even(d, d0)
  BY <1>3 DEF Even, Contexts, RequestSentOrReceived, PrimaryIndex
<1> HIDE DEF d0
<1>5. Even(d, d1)
  BY <1>1, <1>2, <1>4, verifyPreCommitsEven, verifyCommitsEven, EvenTransitive
<1> QED
  BY <1>5 DEF d1

\* The transactions of an accepted request that the node lacks are listed.
LEMMA acceptPrepareRequestFull ==
  ASSUME NEW r \in Nodes, NEW S \in SUBSET Payloads, NEW d, Fresh(r, d, S),
         ~RequestSentOrReceived(d), NEW msg \in PrepareRequests,
         msg.from = PrimaryIndex(d), msg.view = d.ViewNumber, msg.height = d.BlockIndex,
         msg.proposal \notin Rejected, Offers(msg, S \cup d.out), NEW e
  PROVE  Full(acceptPrepareRequest(d, msg, e), S)
<1> DEFINE d1 == [d EXCEPT !.proposal = msg.proposal]
           d2 == processMissingTx(d1, e)
           d3 == updateExistingPayloads(d2, msg)
           d4 == [d3 EXCEPT !.PreparationPayloads[msg.from] = msg]
<1>1. /\ msg.proposal \in Proposals /\ msg.from \in Validators
      /\ msg.type = "PrepareRequest"
      /\ Fit(r, d, S) /\ Full(d, S) /\ d \in Contexts
  BY FitContext DEF PrepareRequests, Fresh
<1>2. /\ Fit(r, d1, S) /\ ~RequestSentOrReceived(d1) /\ d1.proposal = msg.proposal
      /\ PrimaryIndex(d1) = PrimaryIndex(d)
  BY <1>1, ProposalStep DEF Step
<1>3. d1 \in Contexts
  BY <1>2, FitContext
<1>4. /\ d1.BlockIndex = d.BlockIndex /\ d1.ViewNumber = d.ViewNumber
      /\ d1.Transactions = d.Transactions
      /\ d1.MissingTransactions = d.MissingTransactions
      /\ d1.panicked = d.panicked
      /\ d1.cache = d.cache /\ d1.todo = d.todo /\ d1.out = d.out
  BY <1>1 DEF Contexts
<1>5. acceptPrepareRequest(d, msg, e) = d4
  BY DEF acceptPrepareRequest
<1> HIDE DEF d1, d4
<1>6. /\ RangeOf(TransactionHashes(d1)) \ d2.Transactions
            \subseteq RangeOf(d2.MissingTransactions)
      /\ d2.panicked = d1.panicked
      /\ Alike(d1, d2) /\ Still(r, d1, d2, S)
  BY <1>2, <1>3, MissingTxFacts, processMissingTxStill
<1> HIDE DEF d2
<1>7. /\ Fit(r, d2, S) /\ d2 \in Contexts /\ ~RequestSentOrReceived(d2)
      /\ d2.proposal = msg.proposal /\ PrimaryIndex(d2) = PrimaryIndex(d)
  BY <1>2, <1>6, StillFacts
<1>8. /\ Fit(r, d3, S) /\ PrimaryIndex(d3) = PrimaryIndex(d)
  BY <1>7, updateExistingPayloadsStep DEF Step
<1>9. Even(d2, d3)
  BY <1>7, updateExistingPayloadsEven
<1> HIDE DEF d3
<1>10. d3 \in Contexts
  BY <1>8, FitContext
<1>11. /\ d4.BlockIndex = d.BlockIndex /\ d4.ViewNumber = d.ViewNumber
       /\ d4.PreparationPayloads[msg.from] = msg
       /\ d4.proposal = msg.proposal /\ d4.panicked = d.panicked
       /\ d4.Transactions = d2.Transactions
       /\ d4.MissingTransactions = d2.MissingTransactions
       /\ d4.cache = d.cache /\ d4.todo = d.todo /\ d4.out = d3.out
  BY <1>1, <1>4, <1>6, <1>7, <1>9, <1>10 DEF d4, Contexts, Slots, Even, Alike
<1>12. d.out \subseteq d3.out /\ \A m \in d3.out : m \in d.out \/ Brings(m) = {}
  BY <1>4, <1>6, <1>9 DEF Even, Alike
<1> HIDE DEF d4
<1> DEFINE A == S \cup d4.out
<1>13. /\ Extends(S \cup d.out, A)
       /\ \A m \in A : m \in S \cup d.out \/ Brings(m) = {}
  BY <1>11, <1>12 DEF Extends
<1> HIDE DEF A
<1>14. \A m \in A : Offers(m, A)
  BY <1>1, <1>13, OffersGrows DEF Full, Ample, Offers
<1>15. Supplied(d4, A)
  <2>1. Offers(msg, A) /\ Supplied(d, A) /\ Clear(d)
    BY <1>1, <1>13, OffersGrows DEF Full, Ample
  <2>2. PrimaryIndex(d4) = PrimaryIndex(d) /\ TransactionHashes(d4) = TransactionHashes(d1)
    BY <1>2, <1>11 DEF PrimaryIndex, TransactionHashes
  <2>3. d4.proposal \notin Invalid
    BY <1>1, <1>11, <2>1 DEF Offers, Brings, Traps
  <2>4. PrimaryIndex(d4) \in Correct =>
            PrimaryIndex(d4) \in PreparedIn(A, d4.BlockIndex, d4.ViewNumber)
    BY <1>1, <1>11, <2>1, <2>2 DEF Offers, Brings, Proposer
  <2>5. \A item \in RangeOf(d4.todo) : Found(d4, item)
    BY <1>11, <2>1 DEF Clear, Found
  <2>6. RangeOf(TransactionHashes(d4)) \ d4.Transactions \subseteq RangeOf(d4.MissingTransactions)
    BY <1>6, <1>11, <2>2
  <2>7. d4.PreparationPayloads[PrimaryIndex(d4)].type = "PrepareRequest"
    BY <1>1, <1>11, <2>2
  <2> QED
    BY <1>11, <2>1, <2>3, <2>4, <2>5, <2>6, <2>7 DEF Supplied
<1>16. Full(d4, S)
  BY <1>1, <1>11, <1>14, <1>15 DEF Full, Ample, Clear, A
<1> QED
  BY <1>5, <1>16

\* The block of an accepted request verifies: the view goes on.
LEMMA respondFull ==
  ASSUME NEW r \in Nodes, NEW S \in SUBSET Payloads, NEW d, Fresh(r, d, S),
         RequestSentOrReceived(d),
         NoAmnesia /\ ~WatchOnly(r) => r # PrimaryIndex(d), NEW e
  PROVE  Full(respond(r, d, e), S)
<1>1. Fit(r, d, S) /\ Full(d, S) /\ Framed(d) /\ BlockVerified(d)
  BY FitContext, ContextFramed DEF Fresh, Full, Ample, Supplied, BlockVerified
<1>2. ASSUME ~WatchOnly(r)
      PROVE  Full(checkPrepare(r, sendPrepareResponse(r, d), e), S)
  <2> DEFINE d1 == sendPrepareResponse(r, d)
  <2>1. r \in Validators
    BY <1>2, NodeFacts
  <2>2. Even(d, d1) /\ Framed(d1)
    BY <1>1, <1>2, <2>1, sendPrepareResponseEven, sendPrepareResponseQuiet, QuietFacts
  <2> HIDE DEF d1
  <2>3. Full(checkPrepare(r, d1, e), S)
    BY <1>1, <2>1, <2>2, checkPrepareEven, EvenFull
  <2> QED
    BY <2>3 DEF d1
<1> QED
  BY <1>1, <1>2 DEF respond

\* A validator that keeps its context does not accept a request of its own.
LEMMA onPrepareRequestFull ==
  ASSUME NEW r \in Running, NEW S \in SUBSET Payloads, NEW d, Fresh(r, d, S),
         NEW msg \in PrepareRequests, msg.height = d.BlockIndex,
         Offers(msg, S \cup d.out), NEW e
  PROVE  Full(onPrepareRequest(r, d, msg, e), S)
<1>0. r \in Nodes
  BY RunningFacts
<1>1. SUFFICES ASSUME ~ignoresRequest(d, msg)
               PROVE  Full(onPrepareRequest(r, d, msg, e), S)
  BY DEF onPrepareRequest, Fresh
<1>2. /\ ~RequestSentOrReceived(d) /\ msg.from = PrimaryIndex(d) /\ msg.view = d.ViewNumber
      /\ Fit(r, d, S) /\ Full(d, S) /\ d \in Contexts
  BY <1>1, FitContext DEF ignoresRequest, Fresh
<1>3. Full(sendChangeView(r, d, e, "CVBlockRejectedByPolicy"), S)
  BY <1>0, sendChangeViewFull
<1>4. ASSUME NoAmnesia, ~WatchOnly(r)
      PROVE  r # PrimaryIndex(d)
  <2>1. SUFFICES ASSUME r = PrimaryIndex(d)
                 PROVE  FALSE
    OBVIOUS
  <2>2. r \in Correct
    <3>1. r \in Validators
      BY <1>0, <1>4, NodeFacts
    <3> QED
      BY <1>4, <3>1 DEF NoAmnesia, WatchOnly
  <2>3. msg.type = "PrepareRequest"
    BY DEF PrepareRequests
  <2>4. r \in PreparedIn(S \cup d.out, d.BlockIndex, d.ViewNumber)
    BY <1>2, <2>1, <2>2, <2>3 DEF Offers, Brings, Proposer
  <2>5. PICK m \in S \cup d.out :
            /\ m.type \in Preparations /\ m.from = r
            /\ m.height = d.BlockIndex /\ m.view = d.ViewNumber
    BY <2>4 DEF PreparedIn
  <2>6. m \in Prepared(r, S \cup d.out)
    BY <2>5 DEF Prepared, Preparations
  <2>7. Consistent(r, d, S \cup d.out)
    BY <1>2, <2>2 DEF Fit
  <2>8. d.BlockIndex \in Nat /\ d.ViewNumber \in Nat
    BY <1>2, FitTypes
  <2>9. \/ m.height < d.BlockIndex
        \/ m.height = d.BlockIndex /\ m.view < d.ViewNumber
        \/ RequestSentOrReceived(d)
    BY <2>6, <2>7, Zenon DEF Consistent
  <2> QED
    BY <1>2, <2>5, <2>8, <2>9
<1>5. ASSUME msg.proposal \notin Rejected
      PROVE  Full(respond(r, acceptPrepareRequest(extendTimer(r, d, "extend2"), msg, e), e), S)
  <2> DEFINE d1 == extendTimer(r, d, "extend2")
             d2 == acceptPrepareRequest(d1, msg, e)
  <2>1. Still(r, d, d1, S) /\ Even(d, d1)
    BY <1>2, Names, extendTimerStill, ContextFramed, extendTimerEven
  <2> HIDE DEF d1
  <2>2. /\ Fit(r, d1, S) /\ Full(d1, S) /\ d1 \in Contexts
        /\ ~RequestSentOrReceived(d1) /\ msg.from = PrimaryIndex(d1)
        /\ msg.view = d1.ViewNumber /\ msg.height = d1.BlockIndex
    BY <1>2, <2>1, StillFacts, EvenFull
  <2>3. Offers(msg, S \cup d1.out)
    <3>1. Extends(S \cup d.out, S \cup d1.out)
      BY <2>1 DEF Extends, Even
    <3> QED
      BY <3>1, OffersGrows
  <2>4. Fit(r, d2, S) /\ RequestSentOrReceived(d2)
    BY <1>0, <2>2, acceptPrepareRequestStep DEF Step
  <2>5. Full(d2, S)
    BY <1>0, <1>5, <2>2, <2>3, acceptPrepareRequestFull DEF Fresh
  <2>6. PrimaryIndex(d2) = PrimaryIndex(d)
    BY <1>2, <2>2, ContextFramed, acceptPrepareRequestQuiet, QuietFacts DEF PrimaryIndex
  <2> HIDE DEF d2
  <2>7. Full(respond(r, d2, e), S)
    BY <1>0, <1>4, <2>4, <2>5, <2>6, respondFull DEF Fresh
  <2> QED
    BY <2>7 DEF d1, d2
<1> QED
  BY <1>1, <1>3, <1>5 DEF onPrepareRequest

\* As long as no validator forgets what it has sent, the primary's slot holds
\* its request and the assertion on its type does not fail.
LEMMA onPrepareResponseFull ==
  ASSUME NEW r \in Nodes, NEW S \in SUBSET Payloads, NEW d, Fresh(r, d, S),
         NEW msg \in PrepareResponses, NEW e
  PROVE  Full(onPrepareResponse(r, d, msg, e), S)
<1> DEFINE request == d.PreparationPayloads[PrimaryIndex(d)]
           x == [d.PreparationPayloads EXCEPT ![msg.from] = msg]
           d1 == [d EXCEPT !.PreparationPayloads = x]
           d2 == IF IsPrimary(r, d) /\ ~recovering(d) THEN Call(d1, "prepareResponse") ELSE d1
           d3 == extendTimer(r, d2, "extend2")
<1>1. Fit(r, d, S) /\ Full(d, S) /\ d \in Contexts
  BY FitContext DEF Fresh
<1>2. SUFFICES ASSUME ~ignoresResponse(r, d, msg)
               PROVE  Full(onPrepareResponse(r, d, msg, e), S)
  BY <1>1 DEF onPrepareResponse
<1>3. /\ msg.from # PrimaryIndex(d) /\ msg.from \in Validators
      /\ msg.type = "PrepareResponse"
  BY <1>2 DEF ignoresResponse, PrepareResponses
<1>4. \/ onPrepareResponse(r, d, msg, e)
            \in {d, d3, IF WatchOnly(r) THEN d3 ELSE checkPrepare(r, d3, e)}
      \/ /\ request # Nil /\ request.type # "PrepareRequest"
         /\ onPrepareResponse(r, d, msg, e) = panic(d1)
  BY DEF onPrepareResponse
<1>5. d1 \in Contexts
  BY <1>1, <1>3, PreparationStep, FitContext DEF Step
<1>6. x[PrimaryIndex(d)] = d.PreparationPayloads[PrimaryIndex(d)]
  BY <1>1, <1>3, NodeFacts DEF Contexts, Slots
<1> HIDE DEF x
<1>7. Even(d, d1)
  BY <1>1, <1>6 DEF Even, Contexts, RequestSentOrReceived, PrimaryIndex
<1> HIDE DEF d1
<1>8. Full(d1, S) /\ Framed(d1)
  BY <1>1, <1>5, <1>7, EvenFull, ContextFramed
<1>9. ASSUME request # Nil, request.type # "PrepareRequest"
      PROVE  Full(panic(d1), S)
  <2>1. ~NoAmnesia
    BY <1>1, <1>9 DEF Full, Ample, Supplied, RequestSentOrReceived
  <2> QED
    BY <1>5, <1>8, <2>1, panicFull
<1>10. Full(d2, S) /\ Framed(d2)
  BY <1>8, CallEven, EvenFull, CallQuiet, QuietFacts
<1> HIDE DEF d2
<1>11. Full(d3, S) /\ Framed(d3)
  BY <1>10, extendTimerEven, EvenFull, extendTimerQuiet, QuietFacts
<1> HIDE DEF d3
<1>12. ASSUME ~WatchOnly(r)
       PROVE  Full(checkPrepare(r, d3, e), S)
  BY <1>11, <1>12, NodeFacts, checkPrepareEven, EvenFull
<1> QED
  BY <1>1, <1>4, <1>9, <1>11, <1>12

-----------------------------------------------------------------------------
(* The entry of the list that OnTransaction is going to delete.             *)

LEMMA FirstIndexFound ==
  ASSUME NEW A, NEW s \in Seq(A), NEW x \in RangeOf(s)
  PROVE  FirstIndex(s, x) \in DOMAIN s /\ s[FirstIndex(s, x)] = x
<1> DEFINE T == {i \in DOMAIN s : s[i] = x}
<1>1. DOMAIN s = 1 .. Len(s) /\ Len(s) \in Nat
  OBVIOUS
<1>2. T # {} /\ T \in SUBSET Nat
  BY <1>1 DEF RangeOf
<1>3. PICK i \in T : \A y \in T : i <= y
  BY <1>2, LeastNatural
<1>4. i \in DOMAIN s /\ s[i] = x /\ \A j \in 1 .. i - 1 : s[j] # x
  BY <1>1, <1>3
<1> QED
  BY <1>4 DEF FirstIndex

\* The block of a stored request verifies, so that a new transaction never makes
\* the node ask for another view, which would clear the list.
LEMMA addTransactionEven ==
  ASSUME NEW r \in Nodes, NEW S \in SUBSET Payloads, NEW d, Fit(r, d, S),
         RequestSentOrReceived(d), d.proposal \notin Invalid, NEW tx \in Tx, NEW e
  PROVE  Even([d EXCEPT !.Transactions = d.Transactions \cup {tx}],
              addTransaction(r, d, tx, e))
<1> DEFINE known == d.Transactions \cup {tx}
           d1 == [d EXCEPT !.Transactions = known]
           d2 == verifyPreCommitPayloadsAgainstPreBlock(d1)
           d3 == extendTimer(r, d2, "extend2")
           d4 == sendPrepareResponse(r, d3)
<1>1. d \in Contexts /\ known \in SUBSET Tx
  BY FitContext, FitTypes
<1> HIDE DEF known
<1>2. Still(r, d, d1, S)
  BY <1>1, FieldStill
<1>3. /\ Fit(r, d1, S) /\ RequestSentOrReceived(d1) /\ Framed(d1)
      /\ d1.proposal \notin Invalid
  BY <1>2, StillFacts, FitContext, ContextFramed
<1>4. \/ addTransaction(r, d, tx, e) = d1
      \/ /\ addTransaction(r, d, tx, e) = checkPrepare(r, d4, e)
         /\ ~IsPrimary(r, d1) /\ ~WatchOnly(r)
  BY <1>3 DEF addTransaction, BlockVerified, known
<1> HIDE DEF d1
<1>5. SUFFICES ASSUME ~IsPrimary(r, d1), ~WatchOnly(r)
               PROVE  Even(d1, checkPrepare(r, d4, e))
  BY <1>4, EvenReflexive DEF d1, known
<1>6. r \in Validators /\ r # PrimaryIndex(d1)
  BY <1>5, NodeFacts DEF IsPrimary
<1>7. Fit(r, d2, S) /\ Even(d1, d2)
  BY <1>3, verifyPreCommitsStep, verifyPreCommitsEven DEF Step
<1> HIDE DEF d2
<1>8. Still(r, d2, d3, S) /\ Even(d2, d3)
  BY <1>7, Names, FitContext, ContextFramed, extendTimerStill, extendTimerEven
<1> HIDE DEF d3
<1>9. /\ Fit(r, d3, S) /\ RequestSentOrReceived(d3) /\ PrimaryIndex(d3) = PrimaryIndex(d1)
      /\ Even(d1, d3)
  <2>1. Even(d1, d3) /\ Fit(r, d3, S)
    BY <1>7, <1>8, EvenTransitive, StillFacts
  <2> QED
    BY <1>3, <2>1 DEF Even, PrimaryIndex
<1>10. Fit(r, d4, S) /\ Even(d3, d4)
  BY <1>6, <1>9, sendPrepareResponseStep, sendPrepareResponseEven DEF Step
<1> HIDE DEF d4
<1>11. Even(d4, checkPrepare(r, d4, e))
  BY <1>6, <1>10, FitContext, ContextFramed, checkPrepareEven
<1> QED
  BY <1>9, <1>10, <1>11, EvenTransitive

\* The transaction is added at once, its entry in the list is deleted last.
LEMMA onTransactionAmple ==
  ASSUME NEW r \in Nodes, NEW S \in SUBSET Payloads, NEW d, Fresh(r, d, S),
         d.todo = <<>>, NEW tx \in Tx, NEW e
  PROVE  LET d1 == onTransaction(r, d, tx, e)
         IN  Ample(d1, S) /\ Alone(d1)
<1> DEFINE item == [op |-> "deleteMissing", index |-> FirstIndex(d.MissingTransactions, tx)]
           d1 == Push(d, <<item>>)
           d2 == [d1 EXCEPT !.Transactions = d1.Transactions \cup {tx}]
           d3 == addTransaction(r, d1, tx, e)
<1>1. Fit(r, d, S) /\ Ample(d, S) /\ d \in Contexts
  BY FitContext DEF Fresh, Full
<1>2. SUFFICES ASSUME RequestSentOrReceived(d), tx \in RangeOf(d.MissingTransactions)
               PROVE  Ample(d3, S) /\ Alone(d3)
  BY <1>1 DEF onTransaction, Alone
<1>3. d.MissingTransactions \in Seq(Tx)
  BY <1>1 DEF Contexts
<1>4. /\ item \in WorkItems
      /\ item.index \in DOMAIN d.MissingTransactions
      /\ d.MissingTransactions[item.index] = tx
  BY <1>2, <1>3, FirstIndexType, FirstIndexFound DEF WorkItems
<1>5. \A A, h : GenuineItem(item, A) /\ OffersItem(item, h, A)
  BY DEF GenuineItem, OffersItem
<1> HIDE DEF item
<1>6. <<item>> \in Seq(WorkItems) /\ RangeOf(<<item>>) = {item}
  BY <1>4 DEF RangeOf
<1>7. Still(r, d, d1, S)
  BY <1>1, <1>5, <1>6, PushStill
<1>8. /\ d2.BlockIndex = d.BlockIndex /\ d2.ViewNumber = d.ViewNumber
      /\ d2.proposal = d.proposal /\ d2.panicked = d.panicked
      /\ d2.PreparationPayloads = d.PreparationPayloads
      /\ d2.Transactions = d.Transactions \cup {tx}
      /\ d2.MissingTransactions = d.MissingTransactions
      /\ d2.cache = d.cache /\ d2.todo = <<item>> /\ d2.out = d.out
  BY <1>1 DEF Push, Contexts
<1> HIDE DEF d1
<1>9. /\ Fit(r, d1, S) /\ RequestSentOrReceived(d1) /\ d1.proposal = d.proposal
  BY <1>2, <1>7, StillFacts
<1>10. d.proposal \notin Invalid
  BY <1>1, <1>2 DEF Ample, Supplied
<1>11. Even(d2, d3)
  BY <1>9, <1>10, addTransactionEven
<1> HIDE DEF d2, d3
<1>12. /\ PrimaryIndex(d2) = PrimaryIndex(d) /\ TransactionHashes(d2) = TransactionHashes(d)
       /\ RequestSentOrReceived(d2) = RequestSentOrReceived(d)
  BY <1>8 DEF PrimaryIndex, TransactionHashes, RequestSentOrReceived
<1>13. \A i \in RangeOf(d2.todo) : OffersItem(i, d2.BlockIndex, S \cup d2.out) /\ Found(d2, i)
  BY <1>4, <1>5, <1>6, <1>8 DEF Found
<1>14. Ample(d2, S)
  BY <1>1, <1>8, <1>12, <1>13 DEF Ample, Supplied
<1>15. Ample(d3, S) /\ d3.todo = <<item>>
  BY <1>8, <1>11, <1>14, EvenAmple DEF Even
<1> QED
  BY <1>15 DEF Alone

-----------------------------------------------------------------------------
(* View changes, recovery, dispatch and timeouts.                           *)

LEMMA onChangeViewFull ==
  ASSUME NEW r \in Nodes, NEW S, NEW d, Fresh(r, d, S), NEW msg \in ChangeViews
  PROVE  Full(onChangeView(r, d, msg), S)
<1> DEFINE x == [d.ChangeViewPayloads EXCEPT ![msg.from] = msg]
           d1 == [d EXCEPT !.ChangeViewPayloads = x]
<1>1. Fit(r, d, S) /\ Full(d, S) /\ d \in Contexts
  BY FitContext DEF Fresh
<1>2. d.ChangeViewPayloads \in Slots(ChangeViews) /\ msg.newView \in Views
  BY <1>1, FitTypes DEF ChangeViews
<1>3. x \in Slots(ChangeViews)
  BY <1>2 DEF Slots, ChangeViews
<1>4. d1 = [d EXCEPT !.ChangeViewPayloads[msg.from] = msg]
  OBVIOUS
<1> HIDE DEF x
<1>5. Still(r, d, d1, S) /\ Full(d1, S)
  BY <1>1, <1>3, FieldStill, ContextFramed, FieldEven, EvenFull
<1> HIDE DEF d1
<1>6. Full(onRecoveryRequest(r, d, msg), S) /\ Full(sendRecoveryMessage(r, d), S)
  BY onRecoveryRequestFull, sendRecoveryMessageFull
<1>7. Full(checkChangeView(r, d1, msg.newView), S)
  BY <1>2, <1>5, StillFacts, checkChangeViewFull DEF Fresh
<1> QED
  BY <1>1, <1>4, <1>6, <1>7 DEF onChangeView

\* The request rebuilt from a recovery message is the one it brings.
LEMMA RecoveredOffers ==
  ASSUME NEW msg \in RecoveryMessages, NEW A, Offers(msg, A)
  PROVE  \A m \in GetPrepareRequest(msg, GetPrimaryIndex(msg.height, msg.view))
                    \cup GetPrepareResponses(msg)
                    \cup GetChangeViews(msg) \cup GetPreCommits(msg) \cup GetCommits(msg) :
            Offers(m, A)
<1> DEFINE primary == GetPrimaryIndex(msg.height, msg.view)
<1>1. msg.type = "RecoveryMessage"
  BY DEF RecoveryMessages
<1>2. msg.prepareRequest # Nil =>
        /\ msg.prepareRequest \notin Traps
        /\ primary \in Correct => primary \in PreparedIn(A, msg.height, msg.view)
  BY <1>1 DEF Offers, Brings, Proposer
<1> HIDE DEF primary
<1>3. ASSUME NEW m \in GetPrepareRequest(msg, primary)
      PROVE  Offers(m, A)
  <2>1. /\ msg.prepareRequest # Nil
        /\ m.type = "PrepareRequest" /\ m.from = primary /\ m.proposal = msg.prepareRequest
        /\ m.height = msg.height /\ m.view = msg.view
    BY <1>3 DEF GetPrepareRequest, PrepareRequestMsg
  <2> QED
    BY <1>2, <2>1 DEF Offers, Brings, Proposer
<1>4. \A m \in GetPrepareResponses(msg) \cup GetChangeViews(msg)
                \cup GetPreCommits(msg) \cup GetCommits(msg) :
        m.type \notin {"PrepareRequest", "RecoveryMessage"}
  BY DEF GetPrepareResponses, PrepareResponseMsg, GetChangeViews, ChangeViewMsg,
         GetPreCommits, PreCommitMsg, GetCommits, CommitMsg
<1> QED
  BY <1>3, <1>4, NothingOffers DEF primary

LEMMA ReplayOffers ==
  ASSUME NEW A, NEW B, \A m \in B : Offers(m, A), NEW h
  PROVE  OffersItem(Replay(B), h, A) /\ Replay(B).op # "deleteMissing"
  BY DEF OffersItem, Replay

LEMMA onRecoveryMessageFull ==
  ASSUME NEW r, NEW S, NEW d \in Contexts, Full(d, S), NEW msg \in RecoveryMessages,
         msg.height = d.BlockIndex, Offers(msg, S \cup d.out)
  PROVE  Full(onRecoveryMessage(r, d, msg), S)
<1> DEFINE first == [op |-> "preparations", msg |-> msg]
           second == [op |-> "commits", msg |-> msg]
           stages == <<first, second>>
           votes == Replay(GetChangeViews(msg))
           Fine(item) == OffersItem(item, d.BlockIndex, S \cup d.out)
                            /\ item.op # "deleteMissing"
<1>1. first \in WorkItems /\ second \in WorkItems
  BY DEF WorkItems
<1>2. Fine(first) /\ Fine(second)
  BY DEF OffersItem
<1>3. 0 \in Validators
  BY NAssumption DEF Validators
<1>4. votes \in WorkItems
  BY <1>3, RecoveredType, ReplayType
<1>5. Fine(votes)
  BY RecoveredOffers, ReplayOffers
<1>6. onRecoveryMessage(r, d, msg) \in {d, Push(d, stages), Push(d, <<votes>> \o stages)}
  BY DEF onRecoveryMessage
<1> HIDE DEF first, second, votes
<1>7. stages \in Seq(WorkItems) /\ RangeOf(stages) = {first, second}
  BY <1>1 DEF RangeOf
<1>8. <<votes>> \in Seq(WorkItems) /\ RangeOf(<<votes>>) = {votes}
  BY <1>4 DEF RangeOf
<1> HIDE DEF stages
<1>9. /\ <<votes>> \o stages \in Seq(WorkItems)
      /\ \A item \in RangeOf(<<votes>> \o stages) : item \in {votes, first, second}
  BY <1>7, <1>8, ConcatRange
<1>10. Full(Push(d, stages), S)
  BY <1>2, <1>7, PushFull
<1>11. Full(Push(d, <<votes>> \o stages), S)
  BY <1>2, <1>5, <1>9, PushFull
<1> QED
  BY <1>6, <1>10, <1>11

LEMMA recoverPreparationsFull ==
  ASSUME NEW r, NEW S, NEW d \in Contexts, Full(d, S), NEW msg \in RecoveryMessages,
         msg.height = d.BlockIndex, Offers(msg, S \cup d.out)
  PROVE  Full(recoverPreparations(r, d, msg), S)
<1> DEFINE request == IF RequestSentOrReceived(d)
                      THEN {}
                      ELSE GetPrepareRequest(msg, PrimaryIndex(d))
           first == Replay(request)
           second == Replay(GetPrepareResponses(msg))
           items == <<first, second>>
           Fine(item) == OffersItem(item, d.BlockIndex, S \cup d.out)
                            /\ item.op # "deleteMissing"
<1>1. SUFFICES ASSUME msg.view = d.ViewNumber
               PROVE  Full(recoverPreparations(r, d, msg), S)
  BY DEF recoverPreparations
<1>2. /\ PrimaryIndex(d) \in Validators
      /\ PrimaryIndex(d) = GetPrimaryIndex(msg.height, msg.view)
  BY <1>1, NodeFacts DEF PrimaryIndex
<1>3. request \in SUBSET Restorable /\ GetPrepareResponses(msg) \in SUBSET Restorable
  BY <1>2, RecoveredType
<1>4. recoverPreparations(r, d, msg) \in {d, Push(d, items)}
  BY DEF recoverPreparations
<1>5. /\ \A m \in request : Offers(m, S \cup d.out)
      /\ \A m \in GetPrepareResponses(msg) : Offers(m, S \cup d.out)
  BY <1>2, RecoveredOffers
<1> HIDE DEF request
<1>6. first \in WorkItems /\ second \in WorkItems
  BY <1>3, ReplayType
<1>7. Fine(first) /\ Fine(second)
  BY <1>5, ReplayOffers
<1> HIDE DEF first, second
<1>8. items \in Seq(WorkItems) /\ RangeOf(items) = {first, second}
  BY <1>6 DEF RangeOf
<1>9. Full(Push(d, items), S)
  BY <1>7, <1>8, PushFull
<1> QED
  BY <1>4, <1>9

LEMMA recoverCommitsFull ==
  ASSUME NEW S, NEW d \in Contexts, Full(d, S), NEW msg \in RecoveryMessages
  PROVE  Full(recoverCommits(d, msg), S)
<1> DEFINE first == Replay(GetPreCommits(msg))
           second == Replay(GetCommits(msg))
           items == <<first, second>>
           Fine(item) == OffersItem(item, d.BlockIndex, S \cup d.out)
                            /\ item.op # "deleteMissing"
<1>1. 0 \in Validators
  BY NAssumption DEF Validators
<1>2. GetPreCommits(msg) \in SUBSET Restorable /\ GetCommits(msg) \in SUBSET Restorable
  BY <1>1, RecoveredType
<1>3. recoverCommits(d, msg) \in {d, Push(d, items)}
  BY DEF recoverCommits
<1>4. \A m \in GetPreCommits(msg) \cup GetCommits(msg) : \A A : Offers(m, A)
  BY NothingOffers DEF GetPreCommits, PreCommitMsg, GetCommits, CommitMsg
<1>5. first \in WorkItems /\ second \in WorkItems
  BY <1>2, ReplayType
<1>6. Fine(first) /\ Fine(second)
  BY <1>4, ReplayOffers
<1> HIDE DEF first, second
<1>7. items \in Seq(WorkItems) /\ RangeOf(items) = {first, second}
  BY <1>5 DEF RangeOf
<1>8. Full(Push(d, items), S)
  BY <1>6, <1>7, PushFull
<1> QED
  BY <1>3, <1>8

LEMMA dispatchFull ==
  ASSUME NEW r \in Running, NEW S \in SUBSET Payloads, NEW d, Fresh(r, d, S),
         NEW msg \in Payloads, msg.height = d.BlockIndex, Offers(msg, S \cup d.out), NEW e
  PROVE  Full(dispatch(r, d, msg, e), S)
<1>0. /\ r \in Nodes /\ Fit(r, d, S) /\ Full(d, S) /\ d \in Contexts /\ Framed(d)
      /\ msg.from \in Validators
  BY RunningFacts, FitContext, ContextFramed, PayloadTypes DEF Fresh
<1>1. CASE msg.type = "ChangeView"
  <2>1. dispatch(r, d, msg, e) = onChangeView(r, d, msg)
    BY <1>1 DEF dispatch
  <2> QED
    BY <1>0, <1>1, <2>1, PayloadTypes, onChangeViewFull
<1>2. CASE msg.type = "PrepareRequest"
  <2>1. dispatch(r, d, msg, e) = onPrepareRequest(r, d, msg, e)
    BY <1>2 DEF dispatch
  <2> QED
    BY <1>2, <2>1, PayloadTypes, onPrepareRequestFull
<1>3. CASE msg.type = "PrepareResponse"
  <2>1. dispatch(r, d, msg, e) = onPrepareResponse(r, d, msg, e)
    BY <1>3 DEF dispatch
  <2> QED
    BY <1>0, <1>3, <2>1, PayloadTypes, onPrepareResponseFull
<1>4. CASE msg.type = "Commit"
  <2>1. dispatch(r, d, msg, e) = onCommit(r, d, msg, e)
    BY <1>4 DEF dispatch
  <2> QED
    BY <1>0, <1>4, <2>1, onCommitEven, EvenFull
<1>5. CASE msg.type = "PreCommit"
  <2>1. dispatch(r, d, msg, e)
            = IF isAntiMEVExtensionEnabled(d) THEN onPreCommit(r, d, msg, e) ELSE d
    BY <1>5 DEF dispatch
  <2> QED
    BY <1>0, <1>5, <2>1, onPreCommitEven, EvenFull
<1>6. CASE msg.type = "RecoveryRequest"
  <2>1. dispatch(r, d, msg, e) = onRecoveryRequest(r, d, msg)
    BY <1>6 DEF dispatch
  <2> QED
    BY <2>1, onRecoveryRequestFull
<1>7. CASE msg.type \notin {"PrepareRequest", "PrepareResponse", "PreCommit", "Commit",
                            "ChangeView", "RecoveryRequest"}
  <2>1. dispatch(r, d, msg, e) = onRecoveryMessage(r, d, msg)
    BY <1>7 DEF dispatch
  <2>2. msg \in RecoveryMessages
    BY <1>7, PayloadTypes
  <2> QED
    BY <1>0, <2>1, <2>2, onRecoveryMessageFull
<1> QED
  BY <1>1, <1>2, <1>3, <1>4, <1>5, <1>6, <1>7

LEMMA OnReceiveFull ==
  ASSUME NEW r \in Running, NEW S \in SUBSET Payloads, NEW d, Fresh(r, d, S),
         NEW msg \in Payloads, Offers(msg, S \cup d.out), NEW e
  PROVE  Full(OnReceive(r, d, msg, e), S)
<1> DEFINE x == [d.LastSeenMessage EXCEPT ![msg.from] =
                    IF d.LastSeenMessage[msg.from] < msg.view
                    THEN msg.view
                    ELSE d.LastSeenMessage[msg.from]]
           seen == [d EXCEPT !.LastSeenMessage = x]
<1>0. Fit(r, d, S) /\ Full(d, S) /\ d \in Contexts
  BY FitContext DEF Fresh
<1>1. d.LastSeenMessage \in [Validators -> Views \cup {-1}] /\ d.BlockIndex \in Nat
  BY <1>0, FitTypes
<1>2. msg.view \in Views /\ msg.from \in Validators /\ msg.height \in Nat
  BY PayloadTypes
<1>3. x \in [Validators -> Views \cup {-1}]
  BY <1>1, <1>2
<1>4. seen = [d EXCEPT !.LastSeenMessage[msg.from] =
                IF d.LastSeenMessage[msg.from] < msg.view
                THEN msg.view
                ELSE d.LastSeenMessage[msg.from]]
  OBVIOUS
<1> HIDE DEF x
<1>5. Still(r, d, seen, S) /\ Even(d, seen) /\ seen.out = d.out
  BY <1>0, <1>3, FieldStill, ContextFramed, FieldEven DEF Contexts
<1> HIDE DEF seen
<1>6. /\ Fresh(r, seen, S) /\ Full(seen, S) /\ seen.out = d.out
      /\ seen.BlockIndex = d.BlockIndex
  BY <1>0, <1>5, StillFacts, EvenFull DEF Even, Fresh
<1>7. Full(addMessage(d, msg), S)
  BY <1>0, addMessageFull
<1>8. ASSUME msg.height = d.BlockIndex
      PROVE  Full(dispatch(r, seen, msg, e), S)
  BY <1>6, <1>8, dispatchFull
<1>9. ~(msg.height < d.BlockIndex) /\ ~(msg.height > d.BlockIndex) => msg.height = d.BlockIndex
  BY <1>1, <1>2
<1> QED
  BY <1>0, <1>4, <1>6, <1>7, <1>8, <1>9 DEF OnReceive, isForeignOrOld

LEMMA onTimeoutFull ==
  ASSUME NoTraps, NEW r \in Nodes, NEW S \in SUBSET Payloads, NEW d, Fresh(r, d, S),
         NEW height, NEW view, NEW force, NEW e, e.fill \in Drafts, e.refill \in Drafts
  PROVE  Full(onTimeout(r, d, height, view, force, e), S)
<1>0. Fit(r, d, S) /\ Full(d, S) /\ d \in Contexts /\ Framed(d)
  BY FitContext, ContextFramed DEF Fresh
<1>1. SUFFICES ASSUME ~WatchOnly(r)
               PROVE  Full(onTimeout(r, d, height, view, force, e), S)
  BY <1>0 DEF onTimeout
<1>2. ASSUME IsPrimary(r, d), ~RequestSentOrReceived(d)
      PROVE  Full(sendPrepareRequest(r, d, d.ViewNumber # 0 \/ d.txSubscriptionOn \/ force, e), S)
  BY <1>2, sendPrepareRequestFull DEF IsPrimary
<1>3. Full(changeTimer(sendRecoveryMessage(r, d), "resend"), S)
  <2> DEFINE d1 == sendRecoveryMessage(r, d)
  <2>1. Still(r, d, d1, S) /\ Full(d1, S)
    BY <1>0, <1>1, NodeFacts, sendRecoveryMessageStill, sendRecoveryMessageFull
  <2> HIDE DEF d1
  <2>2. Full(changeTimer(d1, "resend"), S)
    BY <2>1, StillFacts, ContextFramed, changeTimerEven, EvenFull
  <2> QED
    BY <2>2 DEF d1
<1>4. Full([changeTimer(d, "forced") EXCEPT !.txSubscriptionOn = FALSE], S)
  <2> DEFINE d1 == changeTimer(d, "forced")
  <2>1. Full(d1, S) /\ Framed(d1)
    BY <1>0, changeTimerEven, EvenFull, changeTimerQuiet, QuietFacts
  <2> HIDE DEF d1
  <2>2. Full([d1 EXCEPT !.txSubscriptionOn = FALSE], S)
    BY <2>1, FieldEven, EvenFull
  <2> QED
    BY <2>2 DEF d1
<1>5. Full(waitForTransactions(d, "subscribeBackup"), S)
  BY <1>0, waitForTransactionsEven, EvenFull
<1>6. Full(sendChangeView(r, d, e, "CVTimeout"), S)
  BY sendChangeViewFull
<1> QED
  BY <1>0, <1>2, <1>3, <1>4, <1>5, <1>6 DEF onTimeout

-----------------------------------------------------------------------------
(* The network.                                                             *)

\* The inductive invariant.
NInv == PInv /\ RInv /\ Stocked

\* Between two steps every node is in order, and one without work left also
\* between the entries of its stack.
LEMMA StateStocked ==
  ASSUME NInv, NEW r \in Running
  PROVE  /\ Fit(r, ctx[r], msgs) /\ Ample(ctx[r], msgs) /\ Alone(ctx[r])
         /\ ctx[r] \in Contexts /\ ctx[r].out = {}
         /\ msgs \in SUBSET Payloads
         /\ r \in Nodes
         /\ ctx[r].todo = <<>> => Full(ctx[r], msgs) /\ Fresh(r, ctx[r], msgs)
<1>1. /\ Fit(r, ctx[r], msgs) /\ ctx[r] \in Contexts /\ ctx[r].out = {}
      /\ msgs \in SUBSET Payloads /\ r \in Nodes
  BY StateFit DEF NInv
<1>2. Ample(ctx[r], msgs) /\ Alone(ctx[r])
  <2>1. msgs \cup ctx[r].out = msgs
    BY <1>1
  <2> QED
    BY <2>1 DEF Ample, NInv, Stocked
<1>3. ctx[r].todo = <<>> => Clear(ctx[r])
  BY DEF Clear, RangeOf
<1> QED
  BY <1>1, <1>2, <1>3 DEF Full, Fresh

LEMMA FullAlone ==
  ASSUME NEW d, NEW S, Full(d, S)
  PROVE  Ample(d, S) /\ Alone(d)
  BY DEF Full, Clear, Alone, RangeOf

\* What a node in order broadcasts joins the network, but for the recovery
\* messages that are lost: no one relies on those.
LEMMA BecomesStocked ==
  ASSUME NInv, NEW r \in Running, NEW d \in Contexts, Ample(d, msgs), Alone(d),
         Becomes(r, d)
  PROVE  Stocked'
<1> DEFINE d1 == [[d EXCEPT !.out = {}] EXCEPT !.calls = <<>>]
<1>1. ctx \in [Running -> Contexts]
  BY DEF NInv, PInv, IInv, TypeOK
<1>2. ctx' = [ctx EXCEPT ![r] = d1]
  BY DEF Becomes
<1>3. PICK lost \in SUBSET RecoveriesOf(d.out) : msgs' = msgs \cup (d.out \ lost)
  BY DEF Becomes, Send
<1>4. Extends(msgs, msgs') /\ Extends(msgs \cup d.out, msgs')
  BY <1>3 DEF Extends, RecoveriesOf
<1>5. \A m \in msgs' : Offers(m, msgs')
  BY <1>3, <1>4, OffersGrows DEF Ample
<1>6. Supplied(d, msgs')
  BY <1>4, OffersGrows DEF Ample
<1>7. /\ d1.BlockIndex = d.BlockIndex /\ d1.ViewNumber = d.ViewNumber
      /\ d1.proposal = d.proposal /\ d1.panicked = d.panicked
      /\ d1.PreparationPayloads = d.PreparationPayloads
      /\ d1.Transactions = d.Transactions
      /\ d1.MissingTransactions = d.MissingTransactions
      /\ d1.cache = d.cache /\ d1.todo = d.todo
  BY DEF Contexts
<1> HIDE DEF d1
<1>8. Supplied(d1, msgs') /\ Alone(d1)
  <2>1. /\ PrimaryIndex(d1) = PrimaryIndex(d)
        /\ TransactionHashes(d1) = TransactionHashes(d)
        /\ RequestSentOrReceived(d1) = RequestSentOrReceived(d)
    BY <1>7 DEF PrimaryIndex, TransactionHashes, RequestSentOrReceived
  <2> QED
    BY <1>6, <1>7, <2>1 DEF Supplied, Found, Alone
<1>9. \A s \in Running : Supplied(ctx[s], msgs') /\ Alone(ctx[s])
  BY <1>4, OffersGrows DEF NInv, Stocked
<1>10. \A s \in Running : Supplied(ctx'[s], msgs') /\ Alone(ctx'[s])
  BY <1>1, <1>2, <1>8, <1>9
<1> QED
  BY <1>5, <1>10 DEF Stocked, Running

LEMMA NewContextSupplied ==
  ASSUME NEW A
  PROVE  Supplied(NewContext, A) /\ Alone(NewContext)
<1>1. /\ NewContext \in Contexts
      /\ NewContext.cache = {} /\ NewContext.todo = <<>>
      /\ NewContext.PreparationPayloads = NoPayloads
      /\ NewContext.proposal = Nil /\ NewContext.panicked = FALSE
  BY NewContextSane DEF Sane, NewContext
<1>2. ~RequestSentOrReceived(NewContext)
  BY <1>1, NodeFacts DEF RequestSentOrReceived, NoPayloads
<1>3. RangeOf(NewContext.todo) = {}
  BY <1>1 DEF RangeOf
<1>4. RangeOf(TransactionHashes(NewContext)) = {}
  BY <1>1 DEF TransactionHashes, RangeOf
<1> QED
  BY <1>1, <1>2, <1>3, <1>4 DEF Supplied, Alone

LEMMA InitStocked == Init => NInv
<1>1. ASSUME Init PROVE Stocked
  <2>1. msgs = {} /\ \A r \in Running : ctx[r] = NewContext
    BY <1>1 DEF Init
  <2> QED
    BY <2>1, NewContextSupplied DEF Stocked
<1> QED
  BY <1>1, InitPromises, InitAlert DEF NInv

LEMMA StartStocked ==
  ASSUME NoTraps, NInv, NEW r \in Running, Start(r)
  PROVE  Stocked'
<1>1. PICK e \in FillCallbacks :
        LET d == initializeConsensus(r, ctx[r], 0, Len(ledger[r]) + 1)
        IN  Becomes(r, IF IsPrimary(r, d) THEN sendPrepareRequest(r, d, TRUE, e) ELSE d)
  BY DEF Start
<1> DEFINE d == initializeConsensus(r, ctx[r], 0, Len(ledger[r]) + 1)
           d1 == IF IsPrimary(r, d) THEN sendPrepareRequest(r, d, TRUE, e) ELSE d
<1>2. /\ Fit(r, ctx[r], msgs) /\ Full(ctx[r], msgs) /\ ctx[r] \in Contexts
      /\ msgs \in SUBSET Payloads
      /\ r \in Nodes /\ ctx[r].BlockIndex = 0 /\ ctx[r].todo = <<>>
  BY StateStocked DEF Start, Idle
<1>3. Len(ledger[r]) + 1 \in Nat /\ Len(ledger[r]) + 1 > ctx[r].BlockIndex
  BY <1>2 DEF NInv, PInv, IInv, TypeOK
<1>4. Fit(r, d, msgs) /\ ~RequestSentOrReceived(d)
  BY <1>2, <1>3, ViewFacts, initializeConsensusFit
<1>5. Full(d, msgs)
  BY <1>2, <1>3, ViewFacts, initializeConsensusFull
<1>6. Becomes(r, d1)
  BY <1>1
<1>7. /\ e.fill \in Drafts /\ e.refill \in Drafts
      /\ e.fill \in Proposals /\ e.refill \in Proposals
  BY <1>1, RunningFacts DEF FillCallbacks
<1> HIDE DEF d
<1>8. ASSUME IsPrimary(r, d)
      PROVE  /\ Fit(r, sendPrepareRequest(r, d, TRUE, e), msgs)
             /\ Full(sendPrepareRequest(r, d, TRUE, e), msgs)
  <2>1. Fit(r, sendPrepareRequest(r, d, TRUE, e), msgs)
    BY <1>2, <1>4, <1>7, <1>8, sendPrepareRequestStep DEF IsPrimary, Step
  <2>2. Full(sendPrepareRequest(r, d, TRUE, e), msgs)
    BY <1>2, <1>4, <1>5, <1>7, <1>8, sendPrepareRequestFull DEF IsPrimary, Fresh
  <2> QED
    BY <2>1, <2>2
<1>9. d1 \in Contexts /\ Full(d1, msgs)
  BY <1>4, <1>5, <1>8, FitContext
<1> HIDE DEF d1
<1> QED
  BY <1>6, <1>9, FullAlone, BecomesStocked

LEMMA ResetStocked ==
  ASSUME NInv, NEW r \in Running, Reset(r)
  PROVE  Stocked'
<1> DEFINE d == initializeConsensus(r, ctx[r], 0, Len(ledger[r]) + 1)
<1>1. /\ Fit(r, ctx[r], msgs) /\ Full(ctx[r], msgs) /\ ctx[r] \in Contexts
      /\ msgs \in SUBSET Payloads
      /\ r \in Nodes /\ ctx[r].BlockIndex \in Nat /\ ctx[r].todo = <<>>
  BY StateStocked DEF Reset, Ready, Idle, Contexts
<1>2. Len(ledger[r]) + 1 \in Nat /\ Len(ledger[r]) + 1 > ctx[r].BlockIndex
  BY <1>1 DEF NInv, PInv, IInv, TypeOK, Reset
<1>3. Fit(r, d, msgs) /\ Full(d, msgs)
  BY <1>1, <1>2, ViewFacts, initializeConsensusFit, initializeConsensusFull
<1>4. Becomes(r, d)
  BY DEF Reset
<1> HIDE DEF d
<1> QED
  BY <1>3, <1>4, FitContext, FullAlone, BecomesStocked

\* A validator that breaks the protocol brings its own proposal, or one that is
\* on the network.
LEMMA InjectedOffers ==
  ASSUME NoTraps, NEW m \in Injected, Authentic(m)
  PROVE  Offers(m, msgs)
<1>1. m.from \notin Correct /\ Brings(m) \cap Traps = {}
  BY FaultAssumption DEF Correct, NoTraps
<1>2. CASE m.type = "PrepareRequest"
  BY <1>1, <1>2 DEF Offers, Proposer
<1>3. CASE m.type = "RecoveryMessage"
  <2> DEFINE i == GetPrimaryIndex(m.height, m.view)
             x == PrepareRequestMsg(m.height, m.view, i, m.prepareRequest)
  <2>1. ASSUME i \in Correct, m.prepareRequest # Nil
        PROVE  i \in PreparedIn(msgs, m.height, m.view)
    <3>1. i \in Validators /\ x \in msgs
      BY <1>3, <2>1, CorrectFacts DEF Authentic
    <3>2. x.type \in Preparations /\ x.from = i /\ x.height = m.height /\ x.view = m.view
      BY DEF PrepareRequestMsg, Preparations
    <3> HIDE DEF x
    <3> QED
      BY <3>1, <3>2 DEF PreparedIn
  <2>2. Proposer(m) = i /\ (Brings(m) # {} => m.prepareRequest # Nil)
    BY <1>3 DEF Proposer, Brings
  <2> QED
    BY <1>1, <2>1, <2>2 DEF Offers
<1> QED
  BY <1>2, <1>3, NothingOffers

LEMMA DeliverStocked ==
  ASSUME NoTraps, NInv, NEW r \in Running, NEW m \in msgs \cup Injected, Deliver(r, m)
  PROVE  Stocked'
<1>1. /\ Fit(r, ctx[r], msgs) /\ Fresh(r, ctx[r], msgs)
      /\ ctx[r].out = {} /\ msgs \in SUBSET Payloads /\ r \in Nodes
  BY StateStocked DEF Deliver, Ready, Idle
<1>2. m \in Payloads
  BY <1>1, RunningFacts
<1>3. PICK e \in Callbacks : Becomes(r, OnReceive(r, ctx[r], m, e))
  BY DEF Deliver
<1>4. msgs \cup ctx[r].out = msgs
  BY <1>1
<1>5. Genuine(m, msgs \cup ctx[r].out) /\ Offers(m, msgs \cup ctx[r].out)
  <2>1. Genuine(m, msgs)
    BY DeliveredGenuine DEF NInv
  <2>2. Offers(m, msgs)
    BY InjectedOffers DEF Deliver, NInv, Stocked
  <2> QED
    BY <1>4, <2>1, <2>2
<1>6. OnReceive(r, ctx[r], m, e) \in Contexts /\ Full(OnReceive(r, ctx[r], m, e), msgs)
  BY <1>1, <1>2, <1>5, OnReceiveStep, OnReceiveFull, FitContext DEF Step
<1> QED
  BY <1>3, <1>6, FullAlone, BecomesStocked

LEMMA OnTransactionStocked ==
  ASSUME NInv, NEW r \in Running, NEW tx \in Tx, OnTransaction(r, tx)
  PROVE  Stocked'
<1>1. /\ Fit(r, ctx[r], msgs) /\ Fresh(r, ctx[r], msgs) /\ ctx[r].todo = <<>>
      /\ msgs \in SUBSET Payloads /\ r \in Nodes
  BY StateStocked DEF OnTransaction, Ready, Idle
<1>2. PICK e \in Callbacks : Becomes(r, onTransaction(r, ctx[r], tx, e))
  BY DEF OnTransaction
<1>3. /\ onTransaction(r, ctx[r], tx, e) \in Contexts
      /\ Ample(onTransaction(r, ctx[r], tx, e), msgs)
      /\ Alone(onTransaction(r, ctx[r], tx, e))
  BY <1>1, onTransactionStep, onTransactionAmple, FitContext DEF Step
<1> QED
  BY <1>2, <1>3, BecomesStocked

LEMMA OnTimeoutStocked ==
  ASSUME NoTraps, NInv, NEW r \in Running, OnTimeout(r) \/ OnNewTransaction(r)
  PROVE  Stocked'
<1> DEFINE stopped == [ctx[r].timer EXCEPT !.armed = FALSE]
           d == [ctx[r] EXCEPT !.timer = stopped]
<1>1. /\ Fit(r, ctx[r], msgs) /\ Full(ctx[r], msgs) /\ Fresh(r, ctx[r], msgs)
      /\ msgs \in SUBSET Payloads /\ r \in Nodes /\ ctx[r] \in Contexts
  BY StateStocked DEF OnTimeout, OnNewTransaction, Ready, Idle
<1>2. \A e \in FillCallbacks : /\ e.fill \in Drafts /\ e.refill \in Drafts
                               /\ e.fill \in Proposals /\ e.refill \in Proposals
  BY RunningFacts DEF FillCallbacks
<1>3. stopped \in [height : Nat, view : Views, armed : BOOLEAN]
  BY <1>1 DEF Contexts
<1> HIDE DEF stopped
<1>4. Fresh(r, d, msgs)
  <2>1. Fit(r, d, msgs)
    BY <1>1, <1>3, FieldStill, StillFacts
  <2>2. Full(d, msgs)
    BY <1>1, ContextFramed, FieldEven, EvenFull
  <2> QED
    BY <2>1, <2>2 DEF Fresh
<1> HIDE DEF d
<1>5. ASSUME NEW d1, Fresh(r, d1, msgs), NEW height, NEW view, NEW force, NEW e \in FillCallbacks,
             Becomes(r, onTimeout(r, d1, height, view, force, e))
      PROVE  Stocked'
  <2>1. /\ Fit(r, d1, msgs)
        /\ e.fill \in Drafts /\ e.refill \in Drafts
        /\ e.fill \in Proposals /\ e.refill \in Proposals
    BY <1>2, <1>5 DEF Fresh
  <2>2. onTimeout(r, d1, height, view, force, e) \in Contexts
    BY <1>1, <2>1, onTimeoutStep, FitContext DEF Step
  <2>3. Full(onTimeout(r, d1, height, view, force, e), msgs)
    BY <1>1, <1>5, <2>1, onTimeoutFull
  <2> QED
    BY <1>5, <2>2, <2>3, FullAlone, BecomesStocked
<1>6. CASE OnTimeout(r)
  <2>1. PICK e \in FillCallbacks :
            Becomes(r, onTimeout(r, d, ctx[r].timer.height, ctx[r].timer.view, FALSE, e))
    BY <1>6 DEF OnTimeout, d, stopped
  <2> QED
    BY <1>4, <1>5, <2>1
<1>7. CASE OnNewTransaction(r)
  <2>1. PICK e \in FillCallbacks :
            Becomes(r, onTimeout(r, ctx[r], ctx[r].timer.height, ctx[r].timer.view, TRUE, e))
    BY <1>7 DEF OnNewTransaction
  <2> QED
    BY <1>1, <1>5, <2>1
<1> QED
  BY <1>6, <1>7

\* An entry of the list is deleted when there is nothing else left to do.
LEMMA PopStocked ==
  ASSUME NInv, NEW r \in Running, ctx[r].todo # <<>>
  PROVE  /\ Fresh(r, Pop(ctx[r]), msgs) /\ Pop(ctx[r]) \in Contexts
         /\ Pop(ctx[r]).out = {}
         /\ Head(ctx[r].todo) \in WorkItems
         /\ GenuineItem(Head(ctx[r].todo), msgs)
         /\ OffersItem(Head(ctx[r].todo), Pop(ctx[r]).BlockIndex, msgs)
         /\ Found(Pop(ctx[r]), Head(ctx[r].todo))
<1> DEFINE s == ctx[r].todo
           d == Pop(ctx[r])
<1>1. /\ Fit(r, ctx[r], msgs) /\ Ample(ctx[r], msgs) /\ Alone(ctx[r])
      /\ ctx[r] \in Contexts /\ ctx[r].out = {}
  BY StateStocked
<1>2. s \in Seq(WorkItems) /\ s # <<>>
  BY <1>1 DEF Contexts
<1>3. Head(s) = s[1] /\ 1 \in DOMAIN s /\ Tail(s) \in Seq(WorkItems) /\ Head(s) \in WorkItems
  BY <1>2
<1>4. \A i \in DOMAIN Tail(s) : i + 1 \in DOMAIN s /\ Tail(s)[i] = s[i + 1] /\ Len(s) # 1
  <2>1. \A i \in DOMAIN Tail(s) : i + 1 \in DOMAIN s /\ Tail(s)[i] = s[i + 1]
    BY <1>2
  <2>2. Len(Tail(s)) = Len(s) - 1 /\ Len(s) \in Nat /\ DOMAIN Tail(s) = 1 .. Len(Tail(s))
    BY <1>2, <1>3
  <2> QED
    BY <2>1, <2>2
<1>5. d = [ctx[r] EXCEPT !.todo = Tail(s)]
  BY DEF Pop
<1>6. \A i \in DOMAIN Tail(s) : Tail(s)[i].op # "deleteMissing"
  BY <1>1, <1>4 DEF Alone
<1> HIDE DEF s
<1>7. Head(s) \in RangeOf(s) /\ RangeOf(Tail(s)) \subseteq RangeOf(s)
  BY <1>3, <1>4 DEF RangeOf
<1>8. Still(r, ctx[r], [ctx[r] EXCEPT !.todo = Tail(s)], msgs)
  BY <1>1, <1>3, <1>7, TodoStill DEF s
<1>9. Fit(r, d, msgs) /\ d \in Contexts
  BY <1>5, <1>8, StillFacts
<1>10. /\ d.BlockIndex = ctx[r].BlockIndex /\ d.ViewNumber = ctx[r].ViewNumber
       /\ d.proposal = ctx[r].proposal /\ d.panicked = ctx[r].panicked
       /\ d.PreparationPayloads = ctx[r].PreparationPayloads
       /\ d.Transactions = ctx[r].Transactions
       /\ d.MissingTransactions = ctx[r].MissingTransactions
       /\ d.cache = ctx[r].cache /\ d.todo = Tail(s) /\ d.out = ctx[r].out
  BY <1>1, <1>5 DEF Contexts
<1> HIDE DEF d
<1>11. Adds(ctx[r], d, msgs \cup d.out)
  BY <1>7, <1>10 DEF Adds, RequestSentOrReceived, PrimaryIndex, s
<1>12. Clear(d)
  BY <1>6, <1>10 DEF Clear, RangeOf
<1>13. Full(d, msgs)
  BY <1>1, <1>11, <1>12, AddsAmple DEF Full
<1>14. GenuineItem(Head(s), msgs)
  BY <1>7 DEF NInv, PInv, PromisesKept, HoldsGenuine, s
<1>15. OffersItem(Head(s), d.BlockIndex, msgs) /\ Found(d, Head(s))
  BY <1>7, <1>10 DEF NInv, Stocked, Supplied, Found, s
<1> QED
  BY <1>1, <1>3, <1>9, <1>10, <1>13, <1>14, <1>15 DEF Fresh, s, d

LEMMA ContinueStocked ==
  ASSUME NInv, NEW r \in Running, Continue(r)
  PROVE  Stocked'
<1> DEFINE item == Head(ctx[r].todo)
           d == Pop(ctx[r])
<1>1. ctx[r].todo # <<>>
  BY DEF Continue, ContinueReplay, ContinueArmTimer, ContinuePreparations,
         ContinueCommits, ContinueDeleteMissing, Pending
<1>2. msgs \in SUBSET Payloads /\ r \in Nodes
  BY StateStocked
<1>3. /\ Fresh(r, d, msgs) /\ d \in Contexts /\ d.out = {}
      /\ item \in WorkItems /\ GenuineItem(item, msgs)
      /\ OffersItem(item, d.BlockIndex, msgs) /\ Found(d, item)
  BY <1>1, PopStocked
<1>4. Fit(r, d, msgs) /\ Full(d, msgs) /\ msgs \cup d.out = msgs
  BY <1>3 DEF Fresh
<1> HIDE DEF d
<1>5. ASSUME NEW d1, Fit(r, d1, msgs), Full(d1, msgs), Becomes(r, d1)
      PROVE  Stocked'
  BY <1>5, FitContext, FullAlone, BecomesStocked
<1>6. CASE ContinueReplay(r)
  <2>1. item.op = "replay"
    BY <1>6 DEF ContinueReplay, Pending
  <2>2. /\ item.payloads \subseteq Payloads
        /\ \A m \in item.payloads : Genuine(m, msgs) /\ Offers(m, msgs)
    BY <1>3, <2>1, WorkItemTypes DEF Payloads, GenuineItem, OffersItem
  <2>3. CASE Becomes(r, d)
    BY <1>4, <1>5, <2>3
  <2>4. ASSUME NEW m \in item.payloads, NEW e \in Callbacks,
               LET rest == [item EXCEPT !.payloads = item.payloads \ {m}]
                   d1 == Push(d, <<rest>>)
               IN  Becomes(r, IF Beyond(m) THEN d1 ELSE OnReceive(r, d1, m, e))
        PROVE  Stocked'
    <3> DEFINE rest == [item EXCEPT !.payloads = item.payloads \ {m}]
               d1 == Push(d, <<rest>>)
               d2 == IF Beyond(m) THEN d1 ELSE OnReceive(r, d1, m, e)
    <3>1. rest \in WorkItems
      BY <1>3, <2>1, WorkItemTypes
    <3>2. /\ GenuineItem(rest, msgs) /\ OffersItem(rest, d.BlockIndex, msgs)
          /\ rest.op # "deleteMissing"
      <4>1. rest.op = item.op /\ rest.payloads \subseteq item.payloads
        BY <1>3, <2>1 DEF WorkItems
      <4> HIDE DEF rest
      <4> QED
        BY <2>1, <2>2, <4>1 DEF GenuineItem, OffersItem
    <3>3. Becomes(r, d2)
      BY <2>4
    <3> HIDE DEF rest
    <3>4. <<rest>> \in Seq(WorkItems) /\ RangeOf(<<rest>>) = {rest}
      BY <3>1 DEF RangeOf
    <3>5. \A i \in RangeOf(<<rest>>) :
            /\ GenuineItem(i, msgs \cup d.out)
            /\ OffersItem(i, d.BlockIndex, msgs \cup d.out) /\ i.op # "deleteMissing"
      BY <1>4, <3>2, <3>4
    <3>6. Still(r, d, d1, msgs) /\ Full(d1, msgs)
      BY <1>3, <1>4, <3>4, <3>5, PushStill, PushFull
    <3>7. Fit(r, d1, msgs)
      BY <3>6, StillFacts
    <3>8. msgs \cup d1.out = msgs
      BY <1>3, <1>4 DEF Push, Contexts
    <3> HIDE DEF d1
    <3>9. m \in Payloads /\ Genuine(m, msgs \cup d1.out) /\ Offers(m, msgs \cup d1.out)
      BY <2>2, <3>8
    <3>10. /\ Fit(r, OnReceive(r, d1, m, e), msgs)
           /\ Full(OnReceive(r, d1, m, e), msgs)
      BY <1>2, <3>6, <3>7, <3>9, OnReceiveStep, OnReceiveFull DEF Step, Fresh
    <3>11. Fit(r, d2, msgs) /\ Full(d2, msgs)
      BY <3>6, <3>7, <3>10
    <3> HIDE DEF d2
    <3> QED
      BY <1>5, <3>3, <3>11
  <2> QED
    BY <1>6, <2>3, <2>4 DEF ContinueReplay, d
<1>7. CASE ContinueArmTimer(r)
  <2>1. Fit(r, armTimer(r, d, item.view), msgs) /\ Full(armTimer(r, d, item.view), msgs)
    BY <1>3, <1>4, armTimerStill, StillFacts, ContextFramed, armTimerEven, EvenFull
  <2> QED
    BY <1>5, <1>7, <2>1 DEF ContinueArmTimer, d
<1>8. ASSUME item.op \in {"preparations", "commits"}
      PROVE  item.msg \in RecoveryMessages /\ Genuine(item.msg, msgs \cup d.out)
  BY <1>3, <1>4, <1>8, WorkItemTypes DEF GenuineItem
<1>9. CASE ContinuePreparations(r)
  <2> DEFINE d1 == recoverPreparations(r, d, item.msg)
  <2>1. item.op = "preparations"
    BY <1>9 DEF ContinuePreparations, Pending
  <2>2. /\ item.msg \in RecoveryMessages /\ Genuine(item.msg, msgs \cup d.out)
        /\ item.msg.height = d.BlockIndex /\ Offers(item.msg, msgs \cup d.out)
    BY <1>3, <1>4, <1>8, <2>1 DEF OffersItem
  <2>3. Fit(r, d1, msgs)
    BY <1>4, <2>2, recoverPreparationsStill, StillFacts
  <2>4. Full(d1, msgs)
    BY <1>3, <1>4, <2>2, recoverPreparationsFull
  <2> QED
    BY <1>5, <1>9, <2>3, <2>4 DEF ContinuePreparations, d
<1>10. CASE ContinueCommits(r)
  <2> DEFINE d1 == recoverCommits(d, item.msg)
  <2>1. item.msg \in RecoveryMessages /\ Genuine(item.msg, msgs \cup d.out)
    BY <1>8, <1>10 DEF ContinueCommits, Pending
  <2>2. Fit(r, d1, msgs)
    BY <1>4, <2>1, recoverCommitsStill, StillFacts
  <2>3. Full(d1, msgs)
    BY <1>3, <1>4, <2>1, recoverCommitsFull
  <2> QED
    BY <1>5, <1>10, <2>2, <2>3 DEF ContinueCommits, d
<1>11. CASE ContinueDeleteMissing(r)
  <2> DEFINE d1 == deleteMissing(d, item.index)
  <2>1. item.op = "deleteMissing" /\ item.index \in Nat
    BY <1>3, <1>11, WorkItemTypes DEF ContinueDeleteMissing, Pending
  <2>2. /\ item.index \in DOMAIN d.MissingTransactions
        /\ d.MissingTransactions[item.index] \in d.Transactions
    BY <1>3, <2>1 DEF Found
  <2>3. Fit(r, d1, msgs) /\ Full(d1, msgs)
    BY <1>3, <1>4, <2>1, <2>2, deleteMissingStill, StillFacts, deleteMissingFull
  <2> QED
    BY <1>5, <1>11, <2>3 DEF ContinueDeleteMissing, d
<1> QED
  BY <1>6, <1>7, <1>9, <1>10, <1>11 DEF Continue

LEMMA EnvironmentStocked ==
  ASSUME NInv, NEW r \in Running, SyncBlock(r) \/ Crash(r)
  PROVE  Stocked'
<1>1. msgs' = msgs /\ ctx \in [Running -> Contexts]
  BY DEF SyncBlock, Crash, NInv, PInv, IInv, TypeOK
<1>2. \A s \in Running : ctx'[s] \in {ctx[s], NewContext}
  BY <1>1 DEF SyncBlock, Crash
<1>3. \A s \in Running : Supplied(ctx'[s], msgs) /\ Alone(ctx'[s])
  BY <1>2, NewContextSupplied DEF NInv, Stocked
<1> QED
  BY <1>1, <1>3 DEF NInv, Stocked, Running

LEMMA NextStocked ==
  ASSUME NoTraps, NInv, [Next]_vars
  PROVE  NInv'
<1>1. PInv' /\ RInv'
  BY NextPromises, NextAlert DEF NInv
<1>2. CASE UNCHANGED vars
  <2>1. ctx' = ctx /\ msgs' = msgs
    BY <1>2 DEF vars
  <2> QED
    BY <1>1, <2>1 DEF NInv, Stocked, Running
<1>3. CASE Next
  <2>1. PICK r \in Running :
            \/ Start(r)
            \/ Reset(r)
            \/ \E m \in msgs \cup Injected : Deliver(r, m)
            \/ \E tx \in Tx : OnTransaction(r, tx)
            \/ OnTimeout(r)
            \/ OnNewTransaction(r)
            \/ Continue(r)
            \/ SyncBlock(r)
            \/ Crash(r)
    BY <1>3 DEF Next
  <2>2. Stocked'
    BY <2>1, StartStocked, ResetStocked, DeliverStocked, OnTransactionStocked,
       OnTimeoutStocked, ContinueStocked, EnvironmentStocked
  <2> QED
    BY <1>1, <2>2 DEF NInv
<1> QED
  BY <1>2, <1>3

\* In a network in which nobody proposes a block that passes
\* VerifyPrepareRequest and fails Verify(Pre)Block, a transaction of the stored
\* proposal that a backup lacks is one that OnTransaction accepts: however the
\* deliveries of transactions, the recovery requests that append to the list
\* again and the changes of view that clear it interleave.
THEOREM MissingStaysListed ==
  ASSUME NoTraps
  PROVE  Spec => []MissingListed
<1>1. NInv /\ [Next]_vars => NInv'
  BY NextStocked
<1>2. NInv => MissingListed
  BY DEF NInv, Stocked, Supplied, MissingListed
<1> QED
  BY <1>1, <1>2, InitStocked, PTL DEF Spec

\* If besides no validator that takes part loses its context, no handler panics:
\* the primary's slot never holds a PrepareResponse when another arrives
\* (onPrepareResponse), and the index that OnTransaction has found is one of
\* the list when it comes to delete the entry.
THEOREM NoHandlerPanics ==
  ASSUME NoTraps, NoAmnesia
  PROVE  Spec => []NoPanic
<1>1. NInv /\ [Next]_vars => NInv'
  BY NextStocked
<1>2. NInv => NoPanic
  BY DEF NInv, Stocked, Supplied, NoPanic
<1> QED
  BY <1>1, <1>2, InitStocked, PTL DEF Spec
=============================================================================
