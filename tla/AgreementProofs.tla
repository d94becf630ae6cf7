--------------------------- MODULE AgreementProofs ---------------------------
(***************************************************************************)
(* In a network of correct validators, which may be slow or stop, while    *)
(* payloads are lost, delayed, duplicated and reordered, no two ledgers    *)
(* disagree, and the ledgers implement the abstract chain.  With a faulty  *)
(* validator this takes more than the library: see CommitsVerified.        *)
(***************************************************************************)
EXTENDS PromiseProofs

\* A node in order at any point of a handler (see Certified).
Sound(r, d, S) == Orderly(S \cup d.out) /\ Grounded(r, d, S \cup d.out)

Trusty(r, d, S) == Fit(r, d, S) /\ Sound(r, d, S)

-----------------------------------------------------------------------------
(* Quorums.                                                                 *)

LEMMA QuorumFacts ==
  /\ M \in Nat /\ M > 0 /\ M + M > N
  /\ IsFiniteSet(Validators) /\ Cardinality(Validators) = N
  /\ \A P \in SUBSET Validators :
        IsFiniteSet(P) /\ Cardinality(P) \in Nat
<1>1. N \in Nat \ {0}
  BY NAssumption
<1>2. M \in Nat /\ M > 0 /\ M + M > N
  BY <1>1 DEF M, F
<1>3. IsFiniteSet(Validators) /\ Cardinality(Validators) = N
  BY <1>1, FS_Interval DEF Validators
<1>4. \A P \in SUBSET Validators : IsFiniteSet(P) /\ Cardinality(P) \in Nat
  BY <1>3, FS_Subset, FS_CardinalityType
<1> QED
  BY <1>2, <1>3, <1>4

\* Two sets of M validators have one in common.
LEMMA QuorumsMeet ==
  ASSUME NEW P \in SUBSET Validators, NEW Q \in SUBSET Validators,
         Cardinality(P) >= M, Cardinality(Q) >= M
  PROVE  \E i \in Validators : i \in P /\ i \in Q
<1>1. /\ IsFiniteSet(P) /\ IsFiniteSet(Q)
      /\ Cardinality(P) \in Nat /\ Cardinality(Q) \in Nat
      /\ N \in Nat /\ M \in Nat /\ M + M > N
  BY QuorumFacts, NAssumption
<1>2. SUFFICES ASSUME P \cap Q = {} PROVE FALSE
  OBVIOUS
<1>3. Cardinality(P \cup Q) = Cardinality(P) + Cardinality(Q)
  BY <1>1, <1>2, FS_Union, FS_EmptySet
<1>4. Cardinality(P \cup Q) <= N
  BY QuorumFacts, FS_Subset
<1> QED
  BY <1>1, <1>3, <1>4

\* A larger set of validators has no fewer members.
LEMMA QuorumGrows ==
  ASSUME NEW P, NEW Q \in SUBSET Validators, P \subseteq Q
  PROVE  /\ Cardinality(P) \in Nat /\ Cardinality(Q) \in Nat
         /\ Cardinality(P) <= Cardinality(Q)
  BY QuorumFacts, FS_Subset

-----------------------------------------------------------------------------
(* What is on the network only grows, and a lost recovery message is none   *)
(* of what the invariant counts.                                            *)

\* B has every payload of A but recovery messages, and may have more.
Extends(A, B) == \A m \in A : m.type # "RecoveryMessage" => m \in B

LEMMA EvidenceGrows ==
  ASSUME NEW A, NEW B, Extends(A, B)
  PROVE  /\ \A h, v : PreparedIn(A, h, v) \subseteq PreparedIn(B, h, v)
         /\ \A h, v : CommittedBy(A, h, v) \subseteq CommittedBy(B, h, v)
         /\ \A h, v, p : Proposed(A, h, v, p) => Proposed(B, h, v, p)
         /\ \A h, v : Reached(A, h, v) => Reached(B, h, v)
         /\ \A i, h, v : Carried(A, i, h, v) => Carried(B, i, h, v)
<1>1. \A m \in A : m.type \in Preparations \cup {"Commit"} => m \in B
  BY DEF Extends, Preparations
<1> HIDE DEF Preparations
<1>2. \A h, v : PreparedIn(A, h, v) \subseteq PreparedIn(B, h, v)
  BY <1>1 DEF PreparedIn
<1>3. \A h, v : CommittedBy(A, h, v) \subseteq CommittedBy(B, h, v)
  BY <1>1 DEF CommittedBy
<1>4. \A h, v, p : Proposed(A, h, v, p) => Proposed(B, h, v, p)
  BY <1>1 DEF Proposed
<1>5. \A h, v : Reached(A, h, v) => Reached(B, h, v)
  BY <1>1 DEF Reached
<1> QED
  BY <1>2, <1>3, <1>4, <1>5 DEF Carried

LEMMA DecidedGrows ==
  ASSUME NEW A, NEW B, Extends(A, B), NEW h, NEW v
  PROVE  /\ Decided(A, h, v) => Decided(B, h, v)
         /\ Cardinality(PreparedIn(A, h, v)) >= M => Cardinality(PreparedIn(B, h, v)) >= M
<1>1. /\ PreparedIn(A, h, v) \subseteq PreparedIn(B, h, v)
      /\ CommittedBy(A, h, v) \subseteq CommittedBy(B, h, v)
      /\ Reached(A, h, v) => Reached(B, h, v)
  BY EvidenceGrows
<1>2. PreparedIn(B, h, v) \in SUBSET Validators /\ CommittedBy(B, h, v) \in SUBSET Validators
  BY DEF PreparedIn, CommittedBy
<1>3. /\ Cardinality(PreparedIn(A, h, v)) \in Nat
      /\ Cardinality(PreparedIn(B, h, v)) \in Nat
      /\ Cardinality(PreparedIn(A, h, v)) <= Cardinality(PreparedIn(B, h, v))
  BY <1>1, <1>2, QuorumGrows
<1>4. /\ Cardinality(CommittedBy(A, h, v)) \in Nat
      /\ Cardinality(CommittedBy(B, h, v)) \in Nat
      /\ Cardinality(CommittedBy(A, h, v)) <= Cardinality(CommittedBy(B, h, v))
  BY <1>1, <1>2, QuorumGrows
<1>5. M \in Nat
  BY QuorumFacts
<1> QED
  BY <1>1, <1>3, <1>4, <1>5 DEF Decided

LEMMA SincereGrows ==
  ASSUME NEW A, NEW B, Extends(A, B)
  PROVE  /\ \A m : Sincere(m, A) => Sincere(m, B)
         /\ \A item, h : SincereItem(item, h, A) => SincereItem(item, h, B)
<1>1. ASSUME NEW m, Sincere(m, A) PROVE Sincere(m, B)
  BY <1>1, EvidenceGrows DEF Sincere
<1> QED
  BY <1>1 DEF SincereItem

\* Only the evidence, the cache and the work left matter to what grounds a node.
LEMMA GroundedGrows ==
  ASSUME NEW r, NEW d, NEW A, NEW B, Extends(A, B), Grounded(r, d, A)
  PROVE  Grounded(r, d, B)
<1>1. /\ \A h, v : PreparedIn(A, h, v) \subseteq PreparedIn(B, h, v)
      /\ \A h, v, p : Proposed(A, h, v, p) => Proposed(B, h, v, p)
      /\ \A i, h, v : Carried(A, i, h, v) => Carried(B, i, h, v)
  BY EvidenceGrows
<1>2. \A h, v : Decided(A, h, v) => Decided(B, h, v)
  BY DecidedGrows
<1>3. \A m \in d.cache : Sincere(m, B)
  BY SincereGrows DEF Grounded
<1>4. \A item \in RangeOf(d.todo) : SincereItem(item, d.BlockIndex, B)
  BY SincereGrows DEF Grounded
<1> QED
  BY <1>1, <1>2, <1>3, <1>4 DEF Grounded


LEMMA OrderlyLoses ==
  ASSUME NEW A, NEW B, Extends(A, B), B \subseteq A, Orderly(A)
  PROVE  Orderly(B)
<1>1. \A m \in B : Sincere(m, B)
  BY SincereGrows DEF Orderly
<1>2. \A m \in B : m.type \in {"PreCommit", "Commit"} =>
        Cardinality(PreparedIn(B, m.height, m.view)) >= M
  BY DecidedGrows DEF Orderly
<1> QED
  BY <1>1, <1>2 DEF Orderly

LEMMA OrderlyGrows ==
  ASSUME NEW A, NEW B, A \subseteq B, Orderly(A),
         \A m \in B \ A : Sincere(m, B),
         \A m \in B \ A : m.type \in {"PreCommit", "Commit"} =>
            Cardinality(PreparedIn(B, m.height, m.view)) >= M,
         \A c, m \in B :
            /\ c \notin A \/ m \notin A
            /\ c.type = "Commit" /\ m.type \in Preparations
            /\ m.from = c.from /\ m.height = c.height
            => m.view <= c.view
  PROVE  Orderly(B)
<1>1. Extends(A, B)
  BY DEF Extends
<1>2. \A m \in B : Sincere(m, B)
  BY <1>1, SincereGrows DEF Orderly
<1>3. \A m \in B : m.type \in {"PreCommit", "Commit"} =>
        Cardinality(PreparedIn(B, m.height, m.view)) >= M
  BY <1>1, DecidedGrows DEF Orderly
<1>4. \A c, m \in B :
        /\ c.type = "Commit" /\ m.type \in Preparations
        /\ m.from = c.from /\ m.height = c.height
        => m.view <= c.view
  BY DEF Orderly
<1> QED
  BY <1>2, <1>3, <1>4 DEF Orderly

-----------------------------------------------------------------------------
(* Calls that store nothing in the slots and sign nothing.                  *)

\* The fields that the evidence is about are the same.
Alike(d, d1) ==
    /\ d1.BlockIndex = d.BlockIndex
    /\ d1.ViewNumber = d.ViewNumber
    /\ d1.PreparationPayloads = d.PreparationPayloads
    /\ d1.CommitPayloads = d.CommitPayloads
    /\ d1.proposal = d.proposal
    /\ d1.blockProcessed = d.blockProcessed
    /\ d1.cache = d.cache
    /\ d1.todo = d.todo
    /\ d1.out = d.out

\* Besides, what does not mislead may be cached, left to replay, or broadcast.
Plain(d, d1, A) ==
    /\ d1.BlockIndex = d.BlockIndex
    /\ d1.ViewNumber = d.ViewNumber
    /\ d1.PreparationPayloads = d.PreparationPayloads
    /\ d1.CommitPayloads = d.CommitPayloads
    /\ d1.proposal = d.proposal
    /\ d1.blockProcessed = d.blockProcessed
    /\ \A m \in d1.cache : m \in d.cache \/ Sincere(m, A)
    /\ \A item \in RangeOf(d1.todo) :
        item \in RangeOf(d.todo) \/ SincereItem(item, d.BlockIndex, A)
    /\ d.out \subseteq d1.out
    /\ \A m \in d1.out \ d.out : m.type \notin Signing /\ Sincere(m, A)

LEMMA PlainSound ==
  ASSUME NEW r, NEW S, NEW d, Sound(r, d, S), NEW d1, Plain(d, d1, S \cup d.out)
  PROVE  Sound(r, d1, S)
<1> DEFINE A == S \cup d.out
           B == S \cup d1.out
<1>1. A \subseteq B /\ \A m \in B \ A : m.type \notin Signing /\ Sincere(m, A)
  BY DEF Plain
<1>2. Extends(A, B) /\ Orderly(A) /\ Grounded(r, d, B)
  BY <1>1, GroundedGrows DEF Extends, Sound
<1>3. /\ \A m : Sincere(m, A) => Sincere(m, B)
      /\ \A item, h : SincereItem(item, h, A) => SincereItem(item, h, B)
  BY <1>2, SincereGrows
<1> HIDE DEF B
<1>4. Orderly(B)
  BY <1>1, <1>2, <1>3, OrderlyGrows DEF Signing, Preparations
<1>5. RequestSentOrReceived(d1) = RequestSentOrReceived(d)
  BY DEF Plain, RequestSentOrReceived, PrimaryIndex
<1>6. \A m \in d1.cache : Sincere(m, B)
  BY <1>2, <1>3 DEF Plain, Grounded
<1>7. \A item \in RangeOf(d1.todo) : SincereItem(item, d1.BlockIndex, B)
  BY <1>2, <1>3 DEF Plain, Grounded
<1>8. Grounded(r, d1, B)
  BY <1>2, <1>5, <1>6, <1>7 DEF Plain, Grounded
<1> QED
  BY <1>4, <1>8 DEF Sound, B

LEMMA AlikeSound ==
  ASSUME NEW r, NEW S, NEW d, Sound(r, d, S), NEW d1, Alike(d, d1)
  PROVE  Sound(r, d1, S)
<1>1. Plain(d, d1, S \cup d.out)
  BY DEF Alike, Plain
<1> QED
  BY <1>1, PlainSound

\* The calls that only touch other fields.
LEMMA FieldAlike ==
  ASSUME NEW d \in Contexts
  PROVE  /\ \A x : Alike(d, [d EXCEPT !.ChangeViewPayloads = x])
         /\ \A x : Alike(d, [d EXCEPT !.PreCommitPayloads = x])
         /\ \A x : Alike(d, [d EXCEPT !.LastSeenMessage = x])
         /\ \A x : Alike(d, [d EXCEPT !.Transactions = x])
         /\ \A x : Alike(d, [d EXCEPT !.MissingTransactions = x])
         /\ \A x : Alike(d, [d EXCEPT !.preBlockProcessed = x])
         /\ \A x : Alike(d, [d EXCEPT !.txSubscriptionOn = x])
         /\ \A x : Alike(d, [d EXCEPT !.timer = x])
         /\ \A x : Alike(d, [d EXCEPT !.panicked = x])
         /\ \A x : Alike(d, [d EXCEPT !.calls = x])
  BY DEF Contexts, Alike

LEMMA AlikeTransitive ==
  ASSUME NEW d, NEW d1, NEW d2, Alike(d, d1), Alike(d1, d2)
  PROVE  Alike(d, d2)
  BY DEF Alike

LEMMA CallAlike ==
  ASSUME NEW d \in Contexts, NEW op
  PROVE  Alike(d, Call(d, op)) /\ Alike(d, changeTimer(d, op))
  BY DEF Contexts, Alike, Call, changeTimer

LEMMA extendTimerAlike ==
  ASSUME NEW d \in Contexts, NEW r, NEW op
  PROVE  Alike(d, extendTimer(r, d, op))
  BY CallAlike DEF extendTimer, Alike

LEMMA waitForTransactionsAlike ==
  ASSUME NEW d \in Contexts, NEW op
  PROVE  Alike(d, waitForTransactions(d, op))
  BY DEF Contexts, Alike, Call, changeTimer, waitForTransactions

LEMMA armTimerAlike ==
  ASSUME NEW d \in Contexts, NEW r, NEW view
  PROVE  Alike(d, armTimer(r, d, view))
  BY CallAlike DEF armTimer, Alike

LEMMA processMissingTxAlike ==
  ASSUME NEW d \in Contexts, NEW e
  PROVE  Alike(d, processMissingTx(d, e))
  BY DEF Contexts, Alike, processMissingTx

LEMMA verifyPreCommitsAlike ==
  ASSUME NEW d \in Contexts
  PROVE  Alike(d, verifyPreCommitPayloadsAgainstPreBlock(d))
  BY FieldAlike DEF verifyPreCommitPayloadsAgainstPreBlock, Alike

LEMMA panicSound ==
  ASSUME NEW r, NEW S, NEW d \in Contexts, Sound(r, d, S)
  PROVE  Sound(r, panic(d), S)
<1>1. RangeOf(panic(d).todo) = {}
  BY DEF panic, RangeOf, Contexts
<1>2. Plain(d, panic(d), S \cup d.out)
  BY <1>1 DEF Plain, panic, Contexts
<1> QED
  BY <1>2, PlainSound

LEMMA deleteMissingSound ==
  ASSUME NEW r, NEW S, NEW d \in Contexts, Sound(r, d, S), NEW i
  PROVE  Sound(r, deleteMissing(d, i), S)
<1>1. deleteMissing(d, i) \in {d, panic(d)}
        \/ \E x : deleteMissing(d, i) = [d EXCEPT !.MissingTransactions = x]
  BY DEF deleteMissing
<1> QED
  BY <1>1, panicSound, FieldAlike, AlikeSound

-----------------------------------------------------------------------------
(* Recovery messages, the cache and the stack of work.                      *)

LEMMA BroadcastSound ==
  ASSUME NEW r, NEW S, NEW d \in Contexts, Sound(r, d, S), NEW m,
         m.type \notin Signing, Sincere(m, S \cup d.out)
  PROVE  Sound(r, Broadcast(d, m), S)
<1>1. Plain(d, Broadcast(d, m), S \cup d.out)
  BY DEF Plain, Broadcast, Contexts
<1> QED
  BY <1>1, PlainSound

LEMMA sendRecoveryRequestSound ==
  ASSUME NEW r, NEW S, NEW d \in Contexts, Sound(r, d, S), NEW e
  PROVE  Sound(r, sendRecoveryRequest(r, d, e), S)
<1> DEFINE d1 == IF RequestSentOrReceived(d) /\ ~hasAllTransactions(d)
                 THEN processMissingTx(d, e)
                 ELSE d
           msg == RecoveryRequestMsg(d1.BlockIndex, d1.ViewNumber, r)
<1>1. d1 \in Contexts /\ Alike(d, d1)
  BY processMissingTxAlike, processMissingTxSame DEF Alike, Same
<1> HIDE DEF d1
<1>2. Sound(r, d1, S)
  BY <1>1, AlikeSound
<1>3. msg.type = "RecoveryRequest"
  BY DEF RecoveryRequestMsg
<1> HIDE DEF msg
<1>4. Sound(r, Broadcast(d1, msg), S)
  BY <1>1, <1>2, <1>3, BroadcastSound DEF Signing, Sincere, Preparations
<1> QED
  BY <1>4 DEF sendRecoveryRequest, d1, msg

LEMMA broadcastChangeViewSound ==
  ASSUME NEW r, NEW S, NEW d \in Contexts, Sound(r, d, S)
  PROVE  Sound(r, broadcastChangeView(r, d), S)
<1> DEFINE m == makeChangeView(r, d)
<1>1. m.type = "ChangeView"
  BY DEF makeChangeView, ChangeViewMsg
<1>2. Sincere(m, S \cup d.out)
  BY <1>1 DEF Sincere, Preparations
<1> HIDE DEF m
<1>3. Plain(d, broadcastChangeView(r, d), S \cup d.out)
  BY <1>1, <1>2 DEF Contexts, Plain, broadcastChangeView, Broadcast, m, Signing
<1> QED
  BY <1>3, PlainSound

\* The commit of an earlier view, too, is carried by one who has committed.
LEMMA CarriedLater ==
  ASSUME NEW A \in SUBSET Payloads, NEW i, NEW h, NEW v \in Nat, NEW w \in Nat, v <= w,
         Carried(A, i, h, v), Reached(A, h, w)
  PROVE  Carried(A, i, h, w)
<1>1. \A m \in A : m.view \in Nat
  BY PayloadTypes, ViewFacts
<1>2. i \in CommittedBy(A, h, w)
  BY <1>1 DEF Carried, CommittedBy
<1> QED
  BY <1>2 DEF Carried

\* A recovery message says no more than its sender holds.
LEMMA RecoverySincere ==
  ASSUME NEW r \in Validators, NEW S \in SUBSET Payloads, NEW d, Trusty(r, d, S)
  PROVE  Sincere(makeRecoveryMessage(r, d), S \cup d.out)
<1> DEFINE msg == makeRecoveryMessage(r, d)
           A == S \cup d.out
           preparations == PayloadsOf(d.PreparationPayloads)
           requests == {m \in preparations : m.type = "PrepareRequest"}
<1>1. d \in Contexts /\ Sane(d) /\ Tidy(d) /\ Grounded(r, d, A)
  BY FitContext DEF Trusty, Fit, Sound
<1>2. /\ d.CommitPayloads \in Slots(Commits)
      /\ d.BlockIndex \in Nat /\ d.ViewNumber \in Nat
      /\ A \in SUBSET Payloads
  BY <1>1, ViewFacts DEF Contexts
<1>3. /\ msg.type = "RecoveryMessage"
      /\ msg.height = d.BlockIndex /\ msg.view = d.ViewNumber
      /\ msg.prepareRequest
            = IF requests = {} THEN Nil ELSE (CHOOSE m \in requests : TRUE).proposal
      /\ msg.preparationPayloads = {m.from : m \in preparations \ requests}
      /\ msg.commitPayloads
            = IF CommitSent(r, d)
              THEN {[from |-> m.from, sign |-> m.sign] : m \in PayloadsOf(d.CommitPayloads)}
              ELSE {}
  BY DEF makeRecoveryMessage
<1> HIDE DEF msg, A
<1>4. ASSUME msg.prepareRequest # Nil
      PROVE  Proposed(A, msg.height, msg.view, msg.prepareRequest)
  <2>1. PICK m \in requests : msg.prepareRequest = m.proposal
    BY <1>3, <1>4
  <2>2. PICK i \in Validators : d.PreparationPayloads[i] # Nil /\ m = d.PreparationPayloads[i]
    BY DEF PayloadsOf
  <2>3. i = PrimaryIndex(d)
    BY <1>1, <2>2 DEF Sane
  <2>4. RequestSentOrReceived(d) /\ m.proposal = d.proposal
    BY <1>1, <2>2, <2>3 DEF RequestSentOrReceived, Tidy
  <2> QED
    BY <1>1, <1>3, <2>1, <2>4 DEF Grounded
<1>5. msg.preparationPayloads \subseteq PreparedIn(A, msg.height, msg.view)
  <2>1. ASSUME NEW m \in preparations
        PROVE  m.from \in PreparedIn(A, msg.height, msg.view)
    <3>1. PICK i \in Validators : d.PreparationPayloads[i] # Nil /\ m = d.PreparationPayloads[i]
      BY DEF PayloadsOf
    <3> QED
      BY <1>1, <1>3, <3>1 DEF Grounded
  <2> QED
    BY <1>3, <2>1
<1>6. ASSUME NEW c \in msg.commitPayloads
      PROVE  Carried(A, c.from, msg.height, msg.view)
  <2>1. CommitSent(r, d)
    BY <1>3, <1>6
  <2>2. d.CommitPayloads[r] # Nil
    BY <2>1 DEF CommitSent
  <2>3. Reached(A, d.BlockIndex, d.ViewNumber)
    BY <1>1, <2>2 DEF Grounded, Carried
  <2>4. PICK m \in PayloadsOf(d.CommitPayloads) : c.from = m.from
    BY <1>3, <1>6, <2>1
  <2>5. PICK i \in Validators : d.CommitPayloads[i] # Nil /\ m = d.CommitPayloads[i]
    BY DEF PayloadsOf
  <2>6. /\ m.from = i /\ m.view <= d.ViewNumber
        /\ Carried(A, i, d.BlockIndex, m.view)
    BY <1>1, <2>5 DEF Sane, Grounded
  <2>7. m.view \in Nat
    BY <1>2, <2>5, ViewFacts DEF Slots, Commits
  <2>8. Carried(A, i, d.BlockIndex, d.ViewNumber)
    BY <1>2, <2>3, <2>6, <2>7, CarriedLater
  <2> QED
    BY <1>3, <2>4, <2>6, <2>8
<1> QED
  BY <1>3, <1>4, <1>5, <1>6 DEF Sincere, Preparations, msg, A

LEMMA sendRecoveryMessageSound ==
  ASSUME NEW r \in Validators, NEW S \in SUBSET Payloads, NEW d, Trusty(r, d, S)
  PROVE  Sound(r, sendRecoveryMessage(r, d), S)
<1>1. d \in Contexts /\ Sound(r, d, S)
  BY FitContext DEF Trusty
<1>2. makeRecoveryMessage(r, d).type \notin Signing
  BY DEF makeRecoveryMessage, Signing
<1> QED
  BY <1>1, <1>2, RecoverySincere, BroadcastSound DEF sendRecoveryMessage

LEMMA onRecoveryRequestSound ==
  ASSUME NEW r \in Nodes, NEW S \in SUBSET Payloads, NEW d, Trusty(r, d, S), NEW msg
  PROVE  Sound(r, onRecoveryRequest(r, d, msg), S)
  BY NodeFacts, sendRecoveryMessageSound DEF onRecoveryRequest, Trusty

LEMMA addMessageSound ==
  ASSUME NEW r, NEW S, NEW d \in Contexts, Sound(r, d, S), NEW m,
         Sincere(m, S \cup d.out)
  PROVE  Sound(r, addMessage(d, m), S)
<1> DEFINE d1 == [d EXCEPT !.cache = {x \in d.cache : ~SameSlot(x, m)} \cup {m}]
<1>1. Plain(d, d1, S \cup d.out)
  BY DEF Plain, Contexts
<1>2. Sound(r, d1, S)
  BY <1>1, PlainSound
<1> QED
  BY <1>2 DEF addMessage

LEMMA PushSound ==
  ASSUME NEW r, NEW S, NEW d \in Contexts, Sound(r, d, S), NEW s \in Seq(WorkItems),
         \A item \in RangeOf(s) : SincereItem(item, d.BlockIndex, S \cup d.out)
  PROVE  Sound(r, Push(d, s), S)
<1>1. d.todo \in Seq(WorkItems)
  BY DEF Contexts
<1>2. \A item \in RangeOf(s \o d.todo) : item \in RangeOf(s) \/ item \in RangeOf(d.todo)
  BY <1>1, ConcatRange
<1>3. Plain(d, Push(d, s), S \cup d.out)
  BY <1>2 DEF Plain, Contexts, Push
<1> QED
  BY <1>3, PlainSound

-----------------------------------------------------------------------------
(* Commits.                                                                 *)

\* The block takes M commits that are given the view of the node, and one of
\* them is of that view.
LEMMA checkCommitSound ==
  ASSUME NEW r, NEW S, NEW d \in Contexts, Sound(r, d, S), NEW e
  PROVE  Sound(r, checkCommit(d, e), S)
<1> DEFINE voters == {i \in Validators :
                        /\ d.CommitPayloads[i] # Nil
                        /\ d.CommitPayloads[i].view = d.ViewNumber}
           d1 == [d EXCEPT !.blockProcessed = TRUE]
           A == S \cup d.out
<1>1. SUFFICES ASSUME Cardinality(voters) >= M
               PROVE  Sound(r, d1, S)
  BY DEF checkCommit
<1>2. Orderly(A) /\ Grounded(r, d, A)
  BY DEF Sound
<1>3. \A i \in voters : Carried(A, i, d.BlockIndex, d.ViewNumber)
  BY <1>2 DEF Grounded
<1>4. voters # {}
  BY <1>1, QuorumFacts, FS_EmptySet
<1>5. /\ Reached(A, d.BlockIndex, d.ViewNumber)
      /\ voters \subseteq CommittedBy(A, d.BlockIndex, d.ViewNumber)
  BY <1>3, <1>4 DEF Carried
<1>6. CommittedBy(A, d.BlockIndex, d.ViewNumber) \in SUBSET Validators
  BY DEF CommittedBy
<1> HIDE DEF voters, A
<1>7. Decided(A, d.BlockIndex, d.ViewNumber)
  <2> DEFINE all == CommittedBy(A, d.BlockIndex, d.ViewNumber)
  <2>1. /\ Cardinality(voters) \in Nat /\ Cardinality(all) \in Nat
        /\ Cardinality(voters) <= Cardinality(all)
    BY <1>5, <1>6, QuorumGrows
  <2>2. M \in Nat
    BY QuorumFacts
  <2> QED
    BY <1>1, <1>5, <2>1, <2>2 DEF Decided
<1>8. /\ d1.BlockIndex = d.BlockIndex
      /\ d1.ViewNumber = d.ViewNumber
      /\ d1.PreparationPayloads = d.PreparationPayloads
      /\ d1.CommitPayloads = d.CommitPayloads
      /\ d1.proposal = d.proposal
      /\ d1.cache = d.cache /\ d1.todo = d.todo /\ d1.out = d.out
  BY DEF Contexts
<1> HIDE DEF d1
<1>9. RequestSentOrReceived(d1) = RequestSentOrReceived(d)
  BY <1>8 DEF RequestSentOrReceived, PrimaryIndex
<1>10. Grounded(r, d1, A)
  BY <1>2, <1>7, <1>8, <1>9 DEF Grounded
<1> QED
  BY <1>2, <1>8, <1>10 DEF Sound, A

\* Slots may be cleared.
LEMMA FewerSound ==
  ASSUME NEW r, NEW S, NEW d \in Contexts, Sound(r, d, S), NEW d1,
         d1.BlockIndex = d.BlockIndex,
         d1.ViewNumber = d.ViewNumber,
         \A i \in Validators :
            /\ d1.PreparationPayloads[i] \in {Nil, d.PreparationPayloads[i]}
            /\ d1.CommitPayloads[i] \in {Nil, d.CommitPayloads[i]},
         d1.proposal = d.proposal,
         d1.blockProcessed = d.blockProcessed,
         d1.cache = d.cache, d1.todo = d.todo, d1.out = d.out
  PROVE  Sound(r, d1, S)
<1> DEFINE A == S \cup d.out
<1>1. Orderly(A) /\ Grounded(r, d, A)
  BY DEF Sound
<1>2. PrimaryIndex(d1) = PrimaryIndex(d) /\ PrimaryIndex(d) \in Validators
  BY NodeFacts DEF PrimaryIndex
<1>3. RequestSentOrReceived(d1) => RequestSentOrReceived(d)
  BY <1>2 DEF RequestSentOrReceived
<1> HIDE DEF A
<1>4. Grounded(r, d1, A)
  <2>1. ASSUME NEW i \in Validators
        PROVE  /\ d1.PreparationPayloads[i] # Nil =>
                    /\ d1.PreparationPayloads[i].from = i
                    /\ d1.PreparationPayloads[i].view = d1.ViewNumber
                    /\ i \in PreparedIn(A, d1.BlockIndex, d1.ViewNumber)
               /\ d1.CommitPayloads[i] # Nil =>
                    /\ d1.CommitPayloads[i].view <= d1.ViewNumber
                    /\ Carried(A, i, d1.BlockIndex, d1.CommitPayloads[i].view)
    <3>1. d1.PreparationPayloads[i] # Nil =>
            d1.PreparationPayloads[i] = d.PreparationPayloads[i]
      OBVIOUS
    <3>2. d1.CommitPayloads[i] # Nil => d1.CommitPayloads[i] = d.CommitPayloads[i]
      OBVIOUS
    <3> QED
      BY <1>1, <3>1, <3>2 DEF Grounded
  <2>2. r \in Validators /\ d1.CommitPayloads[r] # Nil =>
            d1.CommitPayloads[r].view = d1.ViewNumber
    BY <1>1 DEF Grounded
  <2> QED
    BY <1>1, <1>3, <2>1, <2>2 DEF Grounded
<1> QED
  BY <1>1, <1>4 DEF Sound, A

LEMMA verifyCommitsSound ==
  ASSUME NEW r, NEW S, NEW d \in Contexts, Sound(r, d, S)
  PROVE  Sound(r, verifyCommitPayloadsAgainstHeader(d), S)
<1> DEFINE d1 == verifyCommitPayloadsAgainstHeader(d)
<1>1. /\ d1.BlockIndex = d.BlockIndex
      /\ d1.ViewNumber = d.ViewNumber
      /\ d1.PreparationPayloads = d.PreparationPayloads
      /\ d1.proposal = d.proposal
      /\ d1.blockProcessed = d.blockProcessed
      /\ d1.cache = d.cache /\ d1.todo = d.todo /\ d1.out = d.out
      /\ \A i \in Validators : d1.CommitPayloads[i] \in {Nil, d.CommitPayloads[i]}
  BY DEF verifyCommitPayloadsAgainstHeader, Contexts
<1> QED
  BY <1>1, FewerSound

LEMMA SameGrounded ==
  ASSUME NEW r, NEW d, NEW d1, NEW A, Grounded(r, d, A),
         d1.BlockIndex = d.BlockIndex,
         d1.ViewNumber = d.ViewNumber,
         d1.PreparationPayloads = d.PreparationPayloads,
         d1.CommitPayloads = d.CommitPayloads,
         d1.proposal = d.proposal,
         d1.blockProcessed = d.blockProcessed,
         d1.cache = d.cache, d1.todo = d.todo
  PROVE  Grounded(r, d1, A)
<1>1. RequestSentOrReceived(d1) = RequestSentOrReceived(d)
  BY DEF RequestSentOrReceived, PrimaryIndex
<1> QED
  BY <1>1 DEF Grounded

LEMMA sendPreCommitSound ==
  ASSUME Faultless, NEW r \in Validators, NEW S \in SUBSET Payloads, NEW d, Trusty(r, d, S),
         RequestSentOrReceived(d),
         Cardinality(PreparedIn(S \cup d.out, d.BlockIndex, d.ViewNumber)) >= M
  PROVE  Sound(r, sendPreCommit(r, d), S)
<1> DEFINE m == makePreCommit(r, d)
           A == S \cup d.out
           d1 == sendPreCommit(r, d)
           B == S \cup d1.out
<1>1. /\ d \in Contexts /\ Sane(d) /\ Locked(r, d, A) /\ Orderly(A) /\ Grounded(r, d, A)
      /\ MakePreHeader(d) # Nil
  BY FitContext, HeaderFacts DEF Trusty, Fit, Sound, Faultless
<1>2. m = PreCommitMsg(d.BlockIndex, d.ViewNumber, r, MakePreHeader(d))
  BY <1>1 DEF makePreCommit, Locked
<1>3. m.type = "PreCommit" /\ m.height = d.BlockIndex /\ m.view = d.ViewNumber
  BY <1>2 DEF PreCommitMsg
<1>4. /\ d1.BlockIndex = d.BlockIndex
      /\ d1.ViewNumber = d.ViewNumber
      /\ d1.PreparationPayloads = d.PreparationPayloads
      /\ d1.CommitPayloads = d.CommitPayloads
      /\ d1.proposal = d.proposal
      /\ d1.blockProcessed = d.blockProcessed
      /\ d1.cache = d.cache /\ d1.todo = d.todo
      /\ d1.out \in {d.out, d.out \cup {m}}
  BY <1>1 DEF sendPreCommit, Broadcast, Contexts
<1> HIDE DEF m, d1
<1>5. A \subseteq B /\ \A k \in B \ A : k = m
  BY <1>4
<1>6. Extends(A, B)
  BY <1>5 DEF Extends
<1>7. Cardinality(PreparedIn(B, d.BlockIndex, d.ViewNumber)) >= M
  BY <1>6, DecidedGrows
<1>8. Orderly(B)
  <2>1. \A k \in B \ A : Sincere(k, B)
    BY <1>3, <1>5 DEF Sincere, Preparations
  <2>2. \A k \in B \ A : Cardinality(PreparedIn(B, k.height, k.view)) >= M
    BY <1>3, <1>5, <1>7
  <2>3. \A k \in B : k \notin A => k.type = "PreCommit"
    BY <1>3, <1>5
  <2> HIDE DEF B
  <2> QED
    BY <1>1, <1>5, <2>1, <2>2, <2>3, OrderlyGrows DEF Preparations
<1>9. Grounded(r, d1, B)
  BY <1>1, <1>4, <1>6, GroundedGrows, SameGrounded
<1> QED
  BY <1>8, <1>9 DEF Sound, d1

\* A validator commits in the view it has prepared in, and prepares in none after.
LEMMA sendCommitSound ==
  ASSUME Faultless, NEW r \in Validators, NEW S \in SUBSET Payloads, NEW d, Trusty(r, d, S),
         HeaderReady(d),
         Cardinality(PreparedIn(S \cup d.out, d.BlockIndex, d.ViewNumber)) >= M
  PROVE  Sound(r, sendCommit(r, d), S)
<1> DEFINE m == makeCommit(r, d)
           x == [d.CommitPayloads EXCEPT ![r] = m]
           A == S \cup d.out
           d1 == sendCommit(r, d)
           B == S \cup d1.out
<1>1. /\ d \in Contexts /\ Sane(d) /\ Consistent(r, d, A) /\ Orderly(A) /\ Grounded(r, d, A)
      /\ MakeHeader(d) # Nil /\ MakeHeader(d) \in Headers
  BY FitContext, HeaderFacts DEF Trusty, Fit, Sound, Faultless, HeaderReady
<1>2. /\ d.CommitPayloads \in Slots(Commits)
      /\ d.BlockIndex \in Nat /\ d.ViewNumber \in Views /\ d.ViewNumber \in Nat
  BY <1>1, ViewFacts DEF Contexts
<1>3. m \in Commits /\ m.from = r /\ m.height = d.BlockIndex /\ m.view = d.ViewNumber
  <2>1. CASE d.CommitPayloads[r] # Nil
    BY <1>1, <1>2, <2>1 DEF makeCommit, Slots, Sane, Grounded
  <2>2. CASE d.CommitPayloads[r] = Nil
    BY <1>1, <1>2, <2>2 DEF makeCommit, CommitMsg, Commits
  <2> QED
    BY <2>1, <2>2
<1>4. m # Nil /\ m.type = "Commit"
  BY <1>3, PayloadNotNil DEF Commits, Payloads, Restorable
<1>5. /\ d1.BlockIndex = d.BlockIndex
      /\ d1.ViewNumber = d.ViewNumber
      /\ d1.PreparationPayloads = d.PreparationPayloads
      /\ d1.CommitPayloads = x
      /\ d1.proposal = d.proposal
      /\ d1.blockProcessed = d.blockProcessed
      /\ d1.cache = d.cache /\ d1.todo = d.todo
      /\ d1.out = d.out \cup {m}
  BY <1>1, <1>4 DEF sendCommit, Broadcast, Contexts
<1> HIDE DEF m, d1
<1>6. \A i \in Validators : x[i] = IF i = r THEN m ELSE d.CommitPayloads[i]
  BY <1>2 DEF Slots
<1> HIDE DEF x
<1>7. B = A \cup {m} /\ Extends(A, B)
  BY <1>5 DEF Extends
<1> HIDE DEF B
<1>8. Carried(B, r, d.BlockIndex, d.ViewNumber)
  BY <1>2, <1>3, <1>4, <1>7 DEF Carried, Reached, CommittedBy
<1>9. Sincere(m, B)
  BY <1>3, <1>4, <1>8 DEF Sincere, Preparations
<1>10. Cardinality(PreparedIn(B, d.BlockIndex, d.ViewNumber)) >= M
  BY <1>7, DecidedGrows
<1>11. ASSUME NEW k \in A, k.type \in Preparations, k.from = r, k.height = d.BlockIndex
       PROVE  k.view <= d.ViewNumber
  <2>1. k \in Prepared(r, A)
    BY <1>11 DEF Prepared, Preparations
  <2> HIDE DEF A
  <2>2. k.view < d.ViewNumber \/ k.view = d.ViewNumber
    <3>1. \/ k.height < d.BlockIndex
          \/ k.height = d.BlockIndex /\ k.view < d.ViewNumber
          \/ k.height = d.BlockIndex /\ k.view = d.ViewNumber
      BY <1>1, <2>1 DEF Consistent
    <3> QED
      BY <1>2, <1>11, <3>1
  <2>3. k.view \in Nat
    BY <1>1, <1>11, PayloadTypes, ViewFacts DEF Contexts, A
  <2> QED
    BY <1>2, <2>2, <2>3
<1>12. Orderly(B)
  <2>1. A \subseteq B /\ \A k \in B : k \in A \/ k = m
    BY <1>7
  <2>2. \A c, k \in B :
          /\ c \notin A \/ k \notin A
          /\ c.type = "Commit" /\ k.type \in Preparations
          /\ k.from = c.from /\ k.height = c.height
          => k.view <= c.view
    BY <1>3, <1>4, <1>11, <2>1 DEF Preparations
  <2> QED
    BY <1>1, <1>3, <1>9, <1>10, <2>1, <2>2, OrderlyGrows
<1>13. Grounded(r, d, B)
  BY <1>1, <1>7, GroundedGrows
<1>14. RequestSentOrReceived(d1) = RequestSentOrReceived(d)
  BY <1>5 DEF RequestSentOrReceived, PrimaryIndex
<1>15. ASSUME NEW i \in Validators, d1.CommitPayloads[i] # Nil
       PROVE  /\ d1.CommitPayloads[i].view <= d1.ViewNumber
              /\ Carried(B, i, d1.BlockIndex, d1.CommitPayloads[i].view)
  BY <1>2, <1>3, <1>5, <1>6, <1>8, <1>13, <1>15 DEF Grounded
<1>16. d1.CommitPayloads[r].view = d1.ViewNumber
  BY <1>3, <1>5, <1>6
<1>17. Grounded(r, d1, B)
  BY <1>5, <1>13, <1>14, <1>15, <1>16 DEF Grounded
<1> QED
  BY <1>12, <1>17 DEF Sound, B, d1

LEMMA checkPreCommitSound ==
  ASSUME Faultless, NEW r \in Nodes, NEW S \in SUBSET Payloads, NEW d, Trusty(r, d, S),
         RequestSentOrReceived(d), isAntiMEVExtensionEnabled(d), NEW e
  PROVE  Sound(r, checkPreCommit(r, d, e), S)
<1> DEFINE processed == [d EXCEPT !.preBlockProcessed = TRUE]
           verified == verifyCommitPayloadsAgainstHeader(processed)
           sent == sendCommit(r, verified)
           timed == changeTimer(sent, "commit")
<1>1. Fit(r, d, S) /\ Sound(r, d, S) /\ d \in Contexts
  BY FitContext DEF Trusty
<1>2. /\ Fit(r, processed, S) /\ HeaderReady(processed)
      /\ isAntiMEVExtensionEnabled(processed)
      /\ processed.PreCommitPayloads = d.PreCommitPayloads
      /\ processed \in Contexts
      /\ Good(r, processed, Due(r, S))
  BY <1>1, preBlockProcessedStep, FitContext DEF Step
<1>3. Alike(d, processed)
  BY <1>1, FieldAlike
<1>4. checkPreCommit(r, d, e)
        \in {d, processed, IF PreCommitSent(r, d) THEN checkCommit(timed, e) ELSE d}
  BY DEF checkPreCommit
<1> HIDE DEF processed
<1>5. Sound(r, processed, S)
  BY <1>1, <1>3, AlikeSound
<1>6. /\ Fit(r, verified, S) /\ HeaderReady(verified)
      /\ verified.PreCommitPayloads = d.PreCommitPayloads
      /\ verified.BlockIndex = d.BlockIndex /\ verified.ViewNumber = d.ViewNumber
      /\ verified.out = d.out
      /\ \A i \in Validators :
            LET m == verified.CommitPayloads[i]
            IN  m # Nil /\ m.view = verified.ViewNumber => m.sign = MakePreHeader(verified)
  <2>1. /\ HeaderReady(verified)
        /\ \A i \in Validators :
              LET m == verified.CommitPayloads[i]
              IN  m # Nil /\ m.view = verified.ViewNumber => m.sign = MakePreHeader(verified)
    BY <1>2, verifyCommitsGood, Zenon
  <2>2. Step(r, processed, verified, S)
    BY <1>2, verifyCommitsStep
  <2>3. /\ verified.PreCommitPayloads = processed.PreCommitPayloads
        /\ verified.BlockIndex = processed.BlockIndex
        /\ verified.ViewNumber = processed.ViewNumber
        /\ verified.out = processed.out
    BY <1>2 DEF verifyCommitPayloadsAgainstHeader, Contexts
  <2> HIDE DEF verified
  <2> QED
    BY <1>2, <1>3, <2>1, <2>2, <2>3 DEF Step, Alike
<1>7. Sound(r, verified, S)
  BY <1>2, <1>5, verifyCommitsSound
<1> HIDE DEF verified
<1>8. ASSUME PreCommitSent(r, d)
      PROVE  Sound(r, checkCommit(timed, e), S)
  <2>1. r \in Validators /\ r \in Correct /\ d.PreCommitPayloads[r] # Nil
    BY <1>8, NodeFacts DEF PreCommitSent, Faultless
  <2> DEFINE own == d.PreCommitPayloads[r]
             A == S \cup d.out
  <2>2. /\ own = PreCommitMsg(d.BlockIndex, d.ViewNumber, r, MakePreHeader(d))
        /\ own \in A
    BY <1>1, <2>1 DEF Fit, Locked
  <2>3. own.type = "PreCommit" /\ own.height = d.BlockIndex /\ own.view = d.ViewNumber
    BY <2>2 DEF PreCommitMsg
  <2>4. Cardinality(PreparedIn(A, d.BlockIndex, d.ViewNumber)) >= M
    BY <1>1, <2>2, <2>3 DEF Sound, Orderly
  <2>5. Sound(r, sent, S)
    BY <1>6, <1>7, <2>1, <2>4, sendCommitSound DEF Trusty
  <2>6. Step(r, verified, sent, S)
    BY <1>6, <2>1, sendCommitStep
  <2> HIDE DEF sent
  <2>7. sent \in Contexts
    BY <2>6, FitContext DEF Step
  <2>8. Sound(r, timed, S) /\ timed \in Contexts
    BY <2>5, <2>7, Names, CallAlike, AlikeSound, changeTimerSame DEF Same
  <2> QED
    BY <2>8, checkCommitSound
<1> QED
  BY <1>1, <1>4, <1>5, <1>8

\* The M preparations that a (pre)commit takes come from M validators.
LEMMA PreparationQuorum ==
  ASSUME NEW r, NEW S, NEW d \in Contexts, Grounded(r, d, S)
  PROVE  LET counted == {m \in PayloadsOf(d.PreparationPayloads) : m.view = d.ViewNumber}
         IN  ~(Cardinality(counted) < M)
                => Cardinality(PreparedIn(S, d.BlockIndex, d.ViewNumber)) >= M
<1> DEFINE counted == {m \in PayloadsOf(d.PreparationPayloads) : m.view = d.ViewNumber}
           all == PreparedIn(S, d.BlockIndex, d.ViewNumber)
           f == [m \in counted |-> m.from]
<1>1. \A m \in counted :
        /\ m.from \in all
        /\ m.from \in Validators
        /\ m = d.PreparationPayloads[m.from]
  BY DEF PayloadsOf, Grounded
<1>2. f \in [counted -> all]
  BY <1>1
<1>3. \A m1, m2 \in counted : f[m1] = f[m2] => m1 = m2
  BY <1>1
<1>4. f \in Injection(counted, all)
  BY <1>2, <1>3 DEF Injection, IsInjective
<1>5. all \in SUBSET Validators
  BY DEF PreparedIn
<1> HIDE DEF f, counted, all
<1>6. IsFiniteSet(all) /\ Cardinality(all) \in Nat
  BY <1>5, QuorumFacts
<1>7. IsFiniteSet(counted) /\ Cardinality(counted) <= Cardinality(all)
  BY <1>4, <1>6, FS_Injection
<1>8. Cardinality(counted) \in Nat /\ M \in Nat
  BY <1>7, FS_CardinalityType, QuorumFacts
<1>9. ~(Cardinality(counted) < M) => Cardinality(all) >= M
  BY <1>6, <1>7, <1>8
<1> QED
  BY <1>9 DEF counted, all

LEMMA checkPrepareSound ==
  ASSUME Faultless, NEW r \in Validators, NEW S \in SUBSET Payloads, NEW d0,
         Trusty(r, d0, S), NEW e
  PROVE  Sound(r, checkPrepare(r, d0, e), S)
<1> DEFINE d == Call(d0, "checkPrepare")
<1>1. d0 \in Contexts /\ Sound(r, d0, S) /\ Fit(r, d0, S)
  BY FitContext DEF Trusty
<1>2. Sound(r, d, S)
  BY <1>1, CallAlike, AlikeSound
<1>3. Still(r, d0, d, S)
  BY <1>1, Names, CallStill
<1> HIDE DEF d
<1> DEFINE preparations == PayloadsOf(d.PreparationPayloads)
           counted == {m \in preparations : m.view = d.ViewNumber}
           hasRequest == \E m \in preparations : m.type = "PrepareRequest"
           A == S \cup d.out
<1>4. d \in Contexts /\ Sane(d) /\ Fit(r, d, S) /\ r \in Nodes
  BY <1>3, StillFacts, FitContext DEF Nodes
<1>5. SUFFICES ASSUME hasRequest, ~(Cardinality(counted) < M), checkPrepare(r, d0, e) # d
               PROVE  Sound(r, checkPrepare(r, d0, e), S)
  BY <1>2 DEF checkPrepare, d
<1>6. RequestSentOrReceived(d)
  BY <1>4, <1>5 DEF Sane, RequestSentOrReceived, PayloadsOf
<1>7. Cardinality(PreparedIn(A, d.BlockIndex, d.ViewNumber)) >= M
  BY <1>2, <1>4, <1>5, PreparationQuorum DEF Sound
<1>8. CASE isAntiMEVExtensionEnabled(d)
  <2> DEFINE sent == sendPreCommit(r, d)
             timed == changeTimer(sent, "commit")
  <2>1. Step(r, d, sent, S) /\ Same(d, sent)
    BY <1>4, <1>6, <1>8, sendPreCommitStep
  <2>2. checkPrepare(r, d0, e) = checkPreCommit(r, timed, e)
    BY <1>5, <1>8 DEF checkPrepare, d
  <2>3. Sound(r, sent, S)
    BY <1>2, <1>4, <1>6, <1>7, sendPreCommitSound DEF Trusty
  <2> HIDE DEF sent
  <2>4. RequestSentOrReceived(sent) /\ isAntiMEVExtensionEnabled(sent)
    BY <1>6, <1>8, <2>1, SameFacts
  <2>5. Still(r, sent, timed, S) /\ sent \in Contexts
    BY <2>1, Names, changeTimerStill, FitContext DEF Step
  <2>6. Sound(r, timed, S)
    BY <2>3, <2>5, CallAlike, AlikeSound
  <2> HIDE DEF timed
  <2>7. /\ Fit(r, timed, S)
        /\ RequestSentOrReceived(timed) /\ isAntiMEVExtensionEnabled(timed)
    BY <2>4, <2>5, StillFacts
  <2> QED
    BY <1>4, <2>2, <2>6, <2>7, checkPreCommitSound DEF Trusty
<1>9. CASE ~isAntiMEVExtensionEnabled(d)
  <2> DEFINE sent == sendCommit(r, d)
             timed == changeTimer(sent, "commit")
  <2>1. HeaderReady(d)
    BY <1>6, <1>9 DEF HeaderReady
  <2>2. Step(r, d, sent, S)
    BY <1>4, <1>9, <2>1, sendCommitStep
  <2>3. checkPrepare(r, d0, e) = checkCommit(timed, e)
    BY <1>5, <1>9 DEF checkPrepare, d
  <2>4. Sound(r, sent, S)
    BY <1>2, <1>4, <1>7, <2>1, sendCommitSound DEF Trusty
  <2> HIDE DEF sent
  <2>5. sent \in Contexts
    BY <2>2, FitContext DEF Step
  <2>6. Sound(r, timed, S) /\ timed \in Contexts
    BY <2>4, <2>5, Names, CallAlike, AlikeSound, changeTimerSame DEF Same
  <2> QED
    BY <2>3, <2>6, checkCommitSound
<1> QED
  BY <1>8, <1>9

-----------------------------------------------------------------------------
(* Opening a height or a view.                                              *)

\* The commits that a change of view keeps are of an earlier view, and none of
\* them is the node's own.
LEMMA resetSound ==
  ASSUME Faultless, NEW r \in Nodes, NEW S \in SUBSET Payloads, NEW d, Trusty(r, d, S),
         NEW view \in Views, NEW height \in Nat,
         view = 0 => height > d.BlockIndex /\ d.todo = <<>>,
         view # 0 => view > d.ViewNumber /\ Unlocked(r, d) /\ ~d.blockProcessed
  PROVE  Sound(r, reset(r, d, view, height), S)
<1> DEFINE d1 == reset(r, d, view, height)
           A == S \cup d.out
<1>1. /\ d \in Contexts /\ Grounded(r, d, A) /\ Orderly(A)
      /\ d.ViewNumber \in Nat /\ view \in Nat
      /\ d.CommitPayloads \in Slots(Commits)
  <2>1. d \in Contexts
    BY FitContext DEF Trusty
  <2> QED
    BY <2>1, ViewFacts DEF Contexts, Trusty, Sound
<1>2. /\ d1 \in Contexts
      /\ d1.BlockIndex = IF view = 0 THEN height ELSE d.BlockIndex
      /\ d1.ViewNumber = view
      /\ d1.PreparationPayloads = NoPayloads
      /\ d1.CommitPayloads = IF view = 0 THEN NoPayloads ELSE d.CommitPayloads
      /\ d1.blockProcessed = (view # 0 /\ d.blockProcessed)
      /\ d1.cache = d.cache /\ d1.todo = d.todo /\ d1.out = d.out
  BY <1>1, resetFacts
<1> HIDE DEF d1, A
<1>3. ~RequestSentOrReceived(d1)
  BY <1>2, NodeFacts DEF RequestSentOrReceived, NoPayloads
<1>4. ASSUME NEW i \in Validators, d1.CommitPayloads[i] # Nil
      PROVE  /\ d1.CommitPayloads[i].view <= d1.ViewNumber
             /\ Carried(A, i, d1.BlockIndex, d1.CommitPayloads[i].view)
  <2>1. view # 0 /\ d1.CommitPayloads[i] = d.CommitPayloads[i]
    BY <1>2, <1>4 DEF NoPayloads
  <2>2. /\ d.CommitPayloads[i].view <= d.ViewNumber
        /\ Carried(A, i, d.BlockIndex, d.CommitPayloads[i].view)
    BY <1>1, <1>4, <2>1 DEF Grounded
  <2>3. d.CommitPayloads[i].view \in Nat
    BY <1>1, <1>4, <2>1, ViewFacts DEF Slots, Commits
  <2> QED
    BY <1>1, <1>2, <2>1, <2>2, <2>3
<1>5. r \in Validators => d1.CommitPayloads[r] = Nil
  BY <1>2 DEF Faultless, Unlocked, NoPayloads
<1>6. \A i \in Validators : d1.PreparationPayloads[i] = Nil
  BY <1>2 DEF NoPayloads
<1>7. \A item \in RangeOf(d1.todo) : SincereItem(item, d1.BlockIndex, A)
  <2>1. CASE view = 0
    BY <1>2, <2>1 DEF RangeOf
  <2>2. CASE view # 0
    BY <1>1, <1>2, <2>2 DEF Grounded
  <2> QED
    BY <2>1, <2>2
<1>8. /\ ~d1.blockProcessed
      /\ \A m \in d1.cache : Sincere(m, A)
  BY <1>1, <1>2 DEF Grounded
<1>9. Grounded(r, d1, A)
  BY <1>3, <1>4, <1>5, <1>6, <1>7, <1>8 DEF Grounded
<1> QED
  BY <1>1, <1>2, <1>9 DEF Sound, A, d1

LEMMA initializeConsensusSound ==
  ASSUME Faultless, NEW r \in Nodes, NEW S \in SUBSET Payloads, NEW d, Trusty(r, d, S),
         NEW view \in Views, NEW height \in Nat,
         view = 0 => height > d.BlockIndex /\ d.todo = <<>>,
         view # 0 => /\ view > d.ViewNumber
                     /\ Unlocked(r, d) /\ Loose(r, d, Due(r, S)) /\ ~d.blockProcessed
  PROVE  Sound(r, initializeConsensus(r, d, view, height), S)
<1> DEFINE d0 == reset(r, d, view, height)
           d1 == Call(d0, "reset")
           inbox == getHeight(d1, d1.BlockIndex)
           d2 == [d1 EXCEPT !.cache = d1.cache \ inbox]
           Mail(kind) == Replay({m \in inbox : InboxOf(m.type) = kind})
           items == <<Mail("prepare"), Mail("ChangeView"), Mail("PreCommit"),
                      Mail("Commit"), [op |-> "armTimer", view |-> view]>>
           d3 == initializeConsensus(r, d, view, height)
<1>0. Sound(r, d0, S) /\ d0 \in Contexts
  <2>1. d \in Contexts
    BY FitContext DEF Trusty
  <2>2. Sound(r, d0, S)
    BY resetSound
  <2> QED
    BY <2>1, <2>2, resetFacts
<1>2. d3 = IF inbox = {} THEN armTimer(r, d1, view) ELSE Push(d2, items)
  BY DEF initializeConsensus
<1> HIDE DEF d0, d3
<1>3. Sound(r, d1, S) /\ d1 \in Contexts
  BY <1>0, Names, CallAlike, AlikeSound, CallSame DEF Same
<1> HIDE DEF d1
<1>4. d1.cache \subseteq Restorable /\ \A m \in d1.cache : Sincere(m, S \cup d1.out)
  BY <1>3 DEF Contexts, Sound, Grounded
<1>5. inbox \subseteq d1.cache
  BY DEF getHeight
<1> HIDE DEF inbox
<1>6. Sound(r, d2, S) /\ d2 \in Contexts /\ d2.out = d1.out
  <2>1. Plain(d1, d2, S \cup d1.out)
    BY <1>3 DEF Plain, Contexts
  <2>2. d2 \in Contexts
    BY <1>3, <1>4, FieldTypes
  <2>3. d2.out = d1.out
    BY <1>3 DEF Contexts
  <2> QED
    BY <1>3, <2>1, <2>2, <2>3, PlainSound
<1>7. \A kind : /\ Mail(kind) \in WorkItems
                /\ \A h : SincereItem(Mail(kind), h, S \cup d2.out)
  BY <1>4, <1>5, <1>6 DEF Replay, WorkItems, SincereItem
<1>8. /\ [op |-> "armTimer", view |-> view] \in WorkItems
      /\ \A h : SincereItem([op |-> "armTimer", view |-> view], h, S \cup d2.out)
  BY DEF WorkItems, SincereItem
<1> HIDE DEF Mail, d2
<1>9. items \in Seq(WorkItems)
  BY <1>7, <1>8
<1>10. \A item \in RangeOf(items) : SincereItem(item, d2.BlockIndex, S \cup d2.out)
  <2>1. RangeOf(items) = {Mail("prepare"), Mail("ChangeView"), Mail("PreCommit"),
                          Mail("Commit"), [op |-> "armTimer", view |-> view]}
    BY FiveRange
  <2> QED
    BY <1>7, <1>8, <2>1
<1> HIDE DEF items
<1>11. Sound(r, Push(d2, items), S)
  BY <1>6, <1>9, <1>10, PushSound
<1>12. Sound(r, d3, S)
  BY <1>2, <1>3, <1>11, armTimerAlike, AlikeSound
<1> QED
  BY <1>12 DEF d3

LEMMA checkChangeViewSound ==
  ASSUME Faultless, NEW r \in Nodes, NEW S \in SUBSET Payloads, NEW d, Trusty(r, d, S),
         Unlocked(r, d), Loose(r, d, Due(r, S)), ~d.blockProcessed, NEW view \in Views
  PROVE  Sound(r, checkChangeView(r, d, view), S)
<1> DEFINE mine == IF WatchOnly(r) THEN Nil ELSE d.ChangeViewPayloads[r]
           agree == mine # Nil /\ mine.newView < view
           d1 == IF agree THEN broadcastChangeView(r, d) ELSE d
<1>1. /\ d.BlockIndex \in Nat /\ d.ViewNumber \in Nat /\ view \in Nat
      /\ Fit(r, d, S) /\ Sound(r, d, S) /\ d \in Contexts
  BY FitContext, FitTypes, ViewFacts DEF Trusty
<1>2. Still(r, d, d1, S)
  BY <1>1, NodeFacts, StepReflexive, broadcastChangeViewStill
<1>3. Sound(r, d1, S)
  BY <1>1, broadcastChangeViewSound
<1>4. \/ checkChangeView(r, d, view) = d
      \/ ~(d.ViewNumber >= view)
         /\ checkChangeView(r, d, view) = initializeConsensus(r, d1, view, d.BlockIndex)
  BY DEF checkChangeView
<1> HIDE DEF d1
<1>5. /\ Trusty(r, d1, S) /\ Unlocked(r, d1) /\ Loose(r, d1, Due(r, S))
      /\ ~d1.blockProcessed /\ d1.ViewNumber = d.ViewNumber
  BY <1>1, <1>2, <1>3, StillFacts DEF Trusty
<1>6. CASE ~(d.ViewNumber >= view)
           /\ checkChangeView(r, d, view) = initializeConsensus(r, d1, view, d.BlockIndex)
  <2>1. view # 0 /\ view > d1.ViewNumber
    BY <1>1, <1>5, <1>6
  <2> QED
    BY <1>1, <1>5, <1>6, <2>1, initializeConsensusSound
<1> QED
  BY <1>1, <1>4, <1>6

LEMMA sendChangeViewSound ==
  ASSUME Faultless, NEW r \in Nodes, NEW S \in SUBSET Payloads, NEW d, Trusty(r, d, S),
         Unlocked(r, d), Loose(r, d, Due(r, S)), ~d.blockProcessed, NEW e, NEW reason
  PROVE  Sound(r, sendChangeView(r, d, e, reason), S)
<1> DEFINE d1 == changeTimer(d, "changeView")
           d2 == broadcastChangeView(r, d1)
           view == (d.ViewNumber + 1) % ViewSize
<1>1. Fit(r, d, S) /\ Sound(r, d, S) /\ d \in Contexts /\ view \in Views
  BY FitContext, FitTypes, ViewFacts DEF Trusty
<1>2. SUFFICES ASSUME ~WatchOnly(r)
               PROVE  Sound(r, sendChangeView(r, d, e, reason), S)
  BY <1>1 DEF sendChangeView
<1>3. r \in Validators
  BY <1>2, NodeFacts
<1>4. Still(r, d, d1, S) /\ Sound(r, d1, S)
  BY <1>1, Names, changeTimerStill, CallAlike, AlikeSound
<1>5. sendChangeView(r, d, e, reason)
        \in {sendRecoveryRequest(r, d1, e), checkChangeView(r, d2, view)}
  BY <1>2 DEF sendChangeView
<1> HIDE DEF d1, view
<1>6. /\ Fit(r, d1, S) /\ d1 \in Contexts
      /\ Unlocked(r, d1) /\ Loose(r, d1, Due(r, S)) /\ ~d1.blockProcessed
  BY <1>1, <1>4, StillFacts
<1>7. Still(r, d1, d2, S) /\ Sound(r, d2, S)
  BY <1>3, <1>4, <1>6, broadcastChangeViewStill, broadcastChangeViewSound
<1> HIDE DEF d2
<1>8. Trusty(r, d2, S) /\ Unlocked(r, d2) /\ Loose(r, d2, Due(r, S)) /\ ~d2.blockProcessed
  BY <1>6, <1>7, StillFacts DEF Trusty
<1>9. Sound(r, checkChangeView(r, d2, view), S)
  BY <1>1, <1>8, checkChangeViewSound
<1>10. Sound(r, sendRecoveryRequest(r, d1, e), S)
  BY <1>4, <1>6, sendRecoveryRequestSound
<1> QED
  BY <1>5, <1>9, <1>10

-----------------------------------------------------------------------------
(* Preparations.                                                            *)

LEMMA PreparationSound ==
  ASSUME NEW r, NEW S, NEW d \in Contexts, Sound(r, d, S), NEW i \in Validators,
         NEW m \in PrepareRequests \cup PrepareResponses,
         m.from = i, m.view = d.ViewNumber,
         i \in PreparedIn(S \cup d.out, d.BlockIndex, d.ViewNumber),
         i = PrimaryIndex(d) =>
            Proposed(S \cup d.out, d.BlockIndex, d.ViewNumber, d.proposal)
  PROVE  Sound(r, [d EXCEPT !.PreparationPayloads[i] = m], S)
<1> DEFINE x == [d.PreparationPayloads EXCEPT ![i] = m]
           d1 == [d EXCEPT !.PreparationPayloads = x]
           A == S \cup d.out
<1>1. Grounded(r, d, A) /\ Orderly(A)
  BY DEF Sound
<1>2. \A j \in Validators : x[j] = IF j = i THEN m ELSE d.PreparationPayloads[j]
  BY DEF Contexts, Slots
<1> HIDE DEF x
<1>3. /\ d1.BlockIndex = d.BlockIndex
      /\ d1.ViewNumber = d.ViewNumber
      /\ d1.PreparationPayloads = x
      /\ d1.CommitPayloads = d.CommitPayloads
      /\ d1.proposal = d.proposal
      /\ d1.blockProcessed = d.blockProcessed
      /\ d1.cache = d.cache /\ d1.todo = d.todo /\ d1.out = d.out
  BY DEF Contexts
<1> HIDE DEF d1, A
<1>4. RequestSentOrReceived(d1) => Proposed(A, d1.BlockIndex, d1.ViewNumber, d1.proposal)
  <2>1. PrimaryIndex(d1) = PrimaryIndex(d) /\ PrimaryIndex(d) \in Validators
    BY <1>3, NodeFacts DEF PrimaryIndex
  <2> QED
    BY <1>1, <1>2, <1>3, <2>1 DEF RequestSentOrReceived, Grounded, A
<1>5. ASSUME NEW j \in Validators, d1.PreparationPayloads[j] # Nil
      PROVE  /\ d1.PreparationPayloads[j].from = j
             /\ d1.PreparationPayloads[j].view = d1.ViewNumber
             /\ j \in PreparedIn(A, d1.BlockIndex, d1.ViewNumber)
  BY <1>1, <1>2, <1>3, <1>5 DEF Grounded, A
<1>6. Grounded(r, d1, A)
  BY <1>1, <1>3, <1>4, <1>5 DEF Grounded
<1>7. Sound(r, d1, S)
  BY <1>1, <1>3, <1>6 DEF Sound, A
<1> QED
  BY <1>7 DEF d1, x

LEMMA ProposalSound ==
  ASSUME NEW r, NEW S, NEW d \in Contexts, Sound(r, d, S), ~RequestSentOrReceived(d), NEW p
  PROVE  Sound(r, [d EXCEPT !.proposal = p], S)
<1> DEFINE d1 == [d EXCEPT !.proposal = p]
           A == S \cup d.out
<1>1. Grounded(r, d, A) /\ Orderly(A)
  BY DEF Sound
<1>2. /\ d1.BlockIndex = d.BlockIndex
      /\ d1.ViewNumber = d.ViewNumber
      /\ d1.PreparationPayloads = d.PreparationPayloads
      /\ d1.CommitPayloads = d.CommitPayloads
      /\ d1.blockProcessed = d.blockProcessed
      /\ d1.cache = d.cache /\ d1.todo = d.todo /\ d1.out = d.out
  BY DEF Contexts
<1> HIDE DEF d1
<1>3. ~RequestSentOrReceived(d1)
  BY <1>2 DEF RequestSentOrReceived, PrimaryIndex
<1>4. Grounded(r, d1, A)
  BY <1>1, <1>2, <1>3 DEF Grounded
<1>5. Sound(r, d1, S)
  BY <1>1, <1>2, <1>4 DEF Sound
<1> QED
  BY <1>5 DEF d1

\* A validator that has not committed at its height prepares in its view.
LEMMA PrepareSound ==
  ASSUME Faultless, NEW r \in Validators, NEW S \in SUBSET Payloads, NEW d, Trusty(r, d, S),
         Unlocked(r, d),
         NEW m \in PrepareRequests \cup PrepareResponses,
         m.from = r, m.height = d.BlockIndex, m.view = d.ViewNumber,
         NEW d1,
         d1.BlockIndex = d.BlockIndex,
         d1.ViewNumber = d.ViewNumber,
         d1.PreparationPayloads = [d.PreparationPayloads EXCEPT ![r] = m],
         d1.CommitPayloads = d.CommitPayloads,
         d1.proposal = m.proposal,
         d1.blockProcessed = d.blockProcessed,
         d1.cache = d.cache, d1.todo = d.todo, d1.out = d.out \cup {m},
         RequestSentOrReceived(d) => d1.proposal = d.proposal
  PROVE  Sound(r, d1, S)
<1> DEFINE A == S \cup d.out
           B == S \cup d1.out
<1>1. /\ d \in Contexts /\ Orderly(A) /\ Grounded(r, d, A) /\ d.CommitPayloads[r] = Nil
      /\ Fit(r, d, S) /\ r \in Correct
  BY FitContext DEF Trusty, Sound, Faultless, Unlocked
<1>2. m.type \in Preparations /\ m # Nil
  BY PayloadNotNil DEF PrepareRequests, PrepareResponses, Preparations, Payloads, Restorable
<1>3. \A j \in Validators :
        d1.PreparationPayloads[j] = IF j = r THEN m ELSE d.PreparationPayloads[j]
  BY <1>1 DEF Contexts, Slots
<1>4. B = A \cup {m} /\ Extends(A, B)
  BY DEF Extends
<1>5. ASSUME NEW c \in A, c.type = "Commit", c.from = r
      PROVE  c.height # d.BlockIndex
  <2>1. Signed(A, "Commit", r, c.height, c.sign)
    BY <1>5 DEF Signed
  <2>2. c.height < d.BlockIndex
    BY <1>1, <2>1, OwnCommit
  <2>3. d.BlockIndex \in Nat /\ c.height \in Nat
    BY <1>1, <1>5, PayloadTypes DEF Contexts
  <2> QED
    BY <2>2, <2>3
<1> HIDE DEF A, B
<1>6. /\ r \in PreparedIn(B, d.BlockIndex, d.ViewNumber)
      /\ r = GetPrimaryIndex(d.BlockIndex, d.ViewNumber) =>
            Proposed(B, d.BlockIndex, d.ViewNumber, m.proposal)
  BY <1>2, <1>4 DEF PreparedIn, Proposed
<1>7. Sincere(m, B)
  BY <1>2, <1>6 DEF Sincere, Preparations
<1>8. Orderly(B)
  <2>1. A \subseteq B /\ \A k \in B : k \in A \/ k = m
    BY <1>4
  <2>2. m.type \notin {"PreCommit", "Commit"}
    BY <1>2 DEF Preparations
  <2>3. \A c, k \in B :
          /\ c \notin A \/ k \notin A
          /\ c.type = "Commit" /\ k.type \in Preparations
          /\ k.from = c.from /\ k.height = c.height
          => k.view <= c.view
    BY <1>5, <2>1, <2>2
  <2> QED
    BY <1>1, <1>7, <2>1, <2>2, <2>3, OrderlyGrows
<1>9. Grounded(r, d, B)
  BY <1>1, <1>4, GroundedGrows
<1>10. RequestSentOrReceived(d1) => Proposed(B, d1.BlockIndex, d1.ViewNumber, d1.proposal)
  <2>1. PrimaryIndex(d1) = PrimaryIndex(d) /\ PrimaryIndex(d) \in Validators
    BY <1>1, NodeFacts DEF PrimaryIndex
  <2>2. CASE r = PrimaryIndex(d)
    BY <1>6, <2>2 DEF PrimaryIndex
  <2>3. CASE r # PrimaryIndex(d)
    BY <1>3, <1>9, <2>1, <2>3 DEF RequestSentOrReceived, Grounded
  <2> QED
    BY <2>2, <2>3
<1>11. ASSUME NEW j \in Validators, d1.PreparationPayloads[j] # Nil
       PROVE  /\ d1.PreparationPayloads[j].from = j
              /\ d1.PreparationPayloads[j].view = d1.ViewNumber
              /\ j \in PreparedIn(B, d1.BlockIndex, d1.ViewNumber)
  BY <1>3, <1>6, <1>9, <1>11 DEF Grounded
<1>12. Grounded(r, d1, B)
  BY <1>9, <1>10, <1>11 DEF Grounded
<1> QED
  BY <1>8, <1>12 DEF Sound, B

LEMMA sendPrepareRequestSound ==
  ASSUME Faultless, NEW r \in Nodes, NEW S \in SUBSET Payloads, NEW d, Trusty(r, d, S),
         ~RequestSentOrReceived(d), r = PrimaryIndex(d), NEW force,
         NEW e, e.fill \in Proposals, e.refill \in Proposals
  PROVE  Sound(r, sendPrepareRequest(r, d, force, e), S)
<1> DEFINE p == IF CanFill(e.fill, force) THEN e.fill ELSE e.refill
           msg == PrepareRequestMsg(d.BlockIndex, d.ViewNumber, r, p)
           filled == [d EXCEPT
                        !.proposal = p,
                        !.Transactions = d.Transactions \cup RangeOf(TxOf[p]),
                        !.txSubscriptionOn = FALSE,
                        !.PreparationPayloads[r] = msg]
           sent == Broadcast(filled, msg)
           noted == Call(sent, "prepareSent")
           timed == changeTimer(noted, "request")
<1>1. /\ Fit(r, d, S) /\ Sound(r, d, S) /\ d \in Contexts
      /\ d.BlockIndex \in Nat /\ d.ViewNumber \in Views
      /\ r \in Validators /\ p \in Proposals /\ Unlocked(r, d)
  BY FitContext, FitTypes, NodeFacts, NoRequestUnlocked DEF Trusty
<1>2. sendPrepareRequest(r, d, force, e)
        \in {waitForTransactions(d, "subscribe"), checkPrepare(r, timed, e)}
  BY DEF sendPrepareRequest
<1>3. Sound(r, waitForTransactions(d, "subscribe"), S)
  BY <1>1, waitForTransactionsAlike, AlikeSound
<1> HIDE DEF p
<1>4. /\ msg \in PrepareRequests /\ msg.from = r /\ msg.proposal = p
      /\ msg.height = d.BlockIndex /\ msg.view = d.ViewNumber
  BY <1>1 DEF PrepareRequestMsg, PrepareRequests
<1>5. Fit(r, sent, S)
  BY <1>1, ProposeStep DEF Step
<1> HIDE DEF msg
<1>6. /\ sent.BlockIndex = d.BlockIndex
      /\ sent.ViewNumber = d.ViewNumber
      /\ sent.PreparationPayloads = [d.PreparationPayloads EXCEPT ![r] = msg]
      /\ sent.CommitPayloads = d.CommitPayloads
      /\ sent.proposal = p
      /\ sent.blockProcessed = d.blockProcessed
      /\ sent.cache = d.cache /\ sent.todo = d.todo /\ sent.out = d.out \cup {msg}
  BY <1>1 DEF Contexts, Broadcast
<1> HIDE DEF sent
<1>7. Sound(r, sent, S)
  BY <1>1, <1>4, <1>6, PrepareSound
<1>8. sent \in Contexts
  BY <1>5, FitContext
<1>9. Fit(r, noted, S) /\ Sound(r, noted, S) /\ noted \in Contexts
  BY <1>5, <1>7, <1>8, Names, CallStill, StillFacts, CallAlike, AlikeSound
<1> HIDE DEF noted
<1>10. Fit(r, timed, S) /\ Sound(r, timed, S)
  BY <1>9, Names, changeTimerStill, StillFacts, CallAlike, AlikeSound
<1> HIDE DEF timed
<1>11. Sound(r, checkPrepare(r, timed, e), S)
  BY <1>1, <1>10, checkPrepareSound DEF Trusty
<1> QED
  BY <1>2, <1>3, <1>11

LEMMA sendPrepareResponseSound ==
  ASSUME Faultless, NEW r \in Validators, NEW S \in SUBSET Payloads, NEW d, Trusty(r, d, S),
         RequestSentOrReceived(d), Unlocked(r, d)
  PROVE  Sound(r, sendPrepareResponse(r, d), S)
<1> DEFINE request == d.PreparationPayloads[PrimaryIndex(d)]
           msg == PrepareResponseMsg(d.BlockIndex, d.ViewNumber, r, request.proposal)
           d1 == sendPrepareResponse(r, d)
<1>1. /\ d \in Contexts /\ d.BlockIndex \in Nat /\ d.ViewNumber \in Views
      /\ d.proposal \in Proposals /\ request.proposal = d.proposal
  <2>1. d \in Contexts /\ Sane(d) /\ Tidy(d)
    BY FitContext DEF Fit, Trusty
  <2> QED
    BY <2>1 DEF Sane, Contexts, Tidy
<1>2. /\ msg \in PrepareResponses /\ msg.from = r /\ msg.proposal = d.proposal
      /\ msg.height = d.BlockIndex /\ msg.view = d.ViewNumber
  BY <1>1 DEF PrepareResponseMsg, PrepareResponses
<1>3. d1 = Broadcast([d EXCEPT !.PreparationPayloads[r] = msg], msg)
  BY DEF sendPrepareResponse
<1> HIDE DEF msg, d1
<1>4. /\ d1.BlockIndex = d.BlockIndex
      /\ d1.ViewNumber = d.ViewNumber
      /\ d1.PreparationPayloads = [d.PreparationPayloads EXCEPT ![r] = msg]
      /\ d1.CommitPayloads = d.CommitPayloads
      /\ d1.proposal = d.proposal
      /\ d1.blockProcessed = d.blockProcessed
      /\ d1.cache = d.cache /\ d1.todo = d.todo /\ d1.out = d.out \cup {msg}
  BY <1>1, <1>3 DEF Contexts, Broadcast
<1>5. Sound(r, d1, S)
  BY <1>2, <1>4, PrepareSound
<1> QED
  BY <1>5 DEF d1

LEMMA updateExistingPayloadsSound ==
  ASSUME NEW r, NEW S, NEW d \in Contexts, Sound(r, d, S), NEW msg
  PROVE  Sound(r, updateExistingPayloads(d, msg), S)
<1> DEFINE x == [i \in Validators |->
                    IF /\ d.PreparationPayloads[i] # Nil
                       /\ d.PreparationPayloads[i].type = "PrepareResponse"
                       /\ d.PreparationPayloads[i].proposal # msg.proposal
                    THEN Nil
                    ELSE d.PreparationPayloads[i]]
           d1 == [d EXCEPT !.PreparationPayloads = x]
<1>1. d.PreparationPayloads \in Slots(PrepareRequests \cup PrepareResponses)
  BY DEF Contexts
<1>2. /\ x \in Slots(PrepareRequests \cup PrepareResponses)
      /\ \A i \in Validators : x[i] \in {Nil, d.PreparationPayloads[i]}
  BY <1>1 DEF Slots
<1>3. updateExistingPayloads(d, msg)
        = IF isAntiMEVExtensionEnabled(d)
          THEN verifyPreCommitPayloadsAgainstPreBlock(d1)
          ELSE verifyCommitPayloadsAgainstHeader(d1)
  BY DEF updateExistingPayloads
<1> HIDE DEF x
<1>4. d1 \in Contexts
  BY <1>2, FieldTypes
<1>5. /\ d1.PreparationPayloads = x
      /\ d1.BlockIndex = d.BlockIndex
      /\ d1.ViewNumber = d.ViewNumber
      /\ d1.CommitPayloads = d.CommitPayloads
      /\ d1.proposal = d.proposal
      /\ d1.blockProcessed = d.blockProcessed
      /\ d1.cache = d.cache /\ d1.todo = d.todo /\ d1.out = d.out
  BY DEF Contexts
<1> HIDE DEF d1
<1>6. Sound(r, d1, S)
  BY <1>2, <1>5, FewerSound
<1>7. Sound(r, verifyPreCommitPayloadsAgainstPreBlock(d1), S)
  BY <1>4, <1>6, verifyPreCommitsAlike, AlikeSound
<1>8. Sound(r, verifyCommitPayloadsAgainstHeader(d1), S)
  BY <1>4, <1>6, verifyCommitsSound
<1> QED
  BY <1>3, <1>7, <1>8

\* The request that a node accepts has been sent by the primary of its view.
LEMMA acceptPrepareRequestSound ==
  ASSUME NEW r \in Nodes, NEW S \in SUBSET Payloads, NEW d, Trusty(r, d, S),
         ~RequestSentOrReceived(d), NEW msg \in PrepareRequests,
         msg.from = PrimaryIndex(d), msg.view = d.ViewNumber, msg.height = d.BlockIndex,
         Sincere(msg, S \cup d.out), NEW e
  PROVE  Sound(r, acceptPrepareRequest(d, msg, e), S)
<1> DEFINE d1 == [d EXCEPT !.proposal = msg.proposal]
           d2 == processMissingTx(d1, e)
           d3 == updateExistingPayloads(d2, msg)
           d4 == [d3 EXCEPT !.PreparationPayloads[msg.from] = msg]
           A == S \cup d.out
<1>1. /\ msg.proposal \in Proposals /\ msg.from \in Validators
      /\ msg.type = "PrepareRequest"
      /\ Fit(r, d, S) /\ Sound(r, d, S) /\ d \in Contexts
  BY FitContext DEF PrepareRequests, Trusty
<1>2. /\ msg.from \in PreparedIn(A, d.BlockIndex, d.ViewNumber)
      /\ Proposed(A, d.BlockIndex, d.ViewNumber, msg.proposal)
  BY <1>1 DEF Sincere, Preparations, PrimaryIndex
<1>3. /\ Fit(r, d1, S) /\ ~RequestSentOrReceived(d1)
      /\ d1.proposal = msg.proposal /\ PrimaryIndex(d1) = PrimaryIndex(d)
      /\ d1.BlockIndex = d.BlockIndex /\ d1.ViewNumber = d.ViewNumber /\ d1.out = d.out
  <2>1. /\ Step(r, d, d1, S) /\ ~RequestSentOrReceived(d1)
        /\ d1.proposal = msg.proposal /\ PrimaryIndex(d1) = PrimaryIndex(d)
    BY <1>1, ProposalStep
  <2>2. d1.BlockIndex = d.BlockIndex /\ d1.ViewNumber = d.ViewNumber /\ d1.out = d.out
    BY <1>1 DEF Contexts
  <2> QED
    BY <2>1, <2>2 DEF Step
<1>4. Sound(r, d1, S) /\ d1 \in Contexts
  BY <1>1, <1>3, ProposalSound, FitContext
<1>5. acceptPrepareRequest(d, msg, e) = d4
  BY DEF acceptPrepareRequest
<1> HIDE DEF d1, d4, A
<1>6. Still(r, d1, d2, S) /\ Alike(d1, d2)
  BY <1>3, <1>4, processMissingTxStill, processMissingTxAlike
<1> HIDE DEF d2
<1>7. /\ Fit(r, d2, S) /\ d2 \in Contexts /\ ~RequestSentOrReceived(d2)
      /\ d2.proposal = msg.proposal /\ PrimaryIndex(d2) = PrimaryIndex(d)
      /\ d2.BlockIndex = d.BlockIndex /\ d2.ViewNumber = d.ViewNumber /\ d2.out = d.out
      /\ Sound(r, d2, S)
  BY <1>3, <1>4, <1>6, StillFacts, AlikeSound DEF Alike
<1>8. /\ Fit(r, d3, S) /\ d3.proposal = msg.proposal
      /\ PrimaryIndex(d3) = PrimaryIndex(d)
  BY <1>7, updateExistingPayloadsStep DEF Step
<1>9. d3.BlockIndex = d.BlockIndex /\ d3.ViewNumber = d.ViewNumber /\ d3.out = d.out
  BY <1>7 DEF updateExistingPayloads, verifyPreCommitPayloadsAgainstPreBlock,
              verifyCommitPayloadsAgainstHeader, Contexts
<1>10. Sound(r, d3, S)
  BY <1>7, updateExistingPayloadsSound
<1> HIDE DEF d3
<1>11. d3 \in Contexts
  BY <1>8, FitContext
<1>12. Sound(r, d4, S)
  BY <1>1, <1>2, <1>8, <1>9, <1>10, <1>11, PreparationSound DEF A, d4
<1> QED
  BY <1>5, <1>12

LEMMA respondSound ==
  ASSUME Faultless, NEW r \in Nodes, NEW S \in SUBSET Payloads, NEW d, Trusty(r, d, S),
         Unlocked(r, d), Loose(r, d, Due(r, S)), ~d.blockProcessed,
         RequestSentOrReceived(d), NEW e
  PROVE  Sound(r, respond(r, d, e), S)
<1>1. Sound(r, rejectBlock(r, d, e), S)
  BY sendChangeViewSound DEF rejectBlock
<1>2. ASSUME ~WatchOnly(r)
      PROVE  Sound(r, checkPrepare(r, sendPrepareResponse(r, d), e), S)
  <2> DEFINE d1 == sendPrepareResponse(r, d)
  <2>1. r \in Validators
    BY <1>2, NodeFacts
  <2>2. Fit(r, d1, S) /\ Sound(r, d1, S)
    BY <2>1, sendPrepareResponseStep, sendPrepareResponseSound DEF Step, Trusty
  <2> HIDE DEF d1
  <2>3. Sound(r, checkPrepare(r, d1, e), S)
    BY <2>1, <2>2, checkPrepareSound DEF Trusty
  <2> QED
    BY <2>3 DEF d1
<1> QED
  BY <1>1, <1>2 DEF respond, Trusty

LEMMA onPrepareRequestSound ==
  ASSUME Faultless, NEW r \in Nodes, NEW S \in SUBSET Payloads, NEW d, Trusty(r, d, S),
         ~d.blockProcessed, NEW msg \in PrepareRequests, msg.height = d.BlockIndex,
         Sincere(msg, S \cup d.out), NEW e
  PROVE  Sound(r, onPrepareRequest(r, d, msg, e), S)
<1>1. SUFFICES ASSUME ~ignoresRequest(d, msg)
               PROVE  Sound(r, onPrepareRequest(r, d, msg, e), S)
  BY DEF onPrepareRequest, Trusty
<1>2. /\ ~RequestSentOrReceived(d) /\ msg.from = PrimaryIndex(d) /\ msg.view = d.ViewNumber
      /\ Fit(r, d, S) /\ Sound(r, d, S) /\ d \in Contexts
  BY <1>1, FitContext DEF ignoresRequest, Trusty
<1>3. Sound(r, sendChangeView(r, d, e, "CVBlockRejectedByPolicy"), S)
  BY <1>2, NoRequestUnlocked, sendChangeViewSound
<1>4. Sound(r, respond(r, acceptPrepareRequest(extendTimer(r, d, "extend2"), msg, e), e), S)
  <2> DEFINE d1 == extendTimer(r, d, "extend2")
             d2 == acceptPrepareRequest(d1, msg, e)
  <2>1. Still(r, d, d1, S) /\ Alike(d, d1)
    BY <1>2, Names, extendTimerStill, extendTimerAlike
  <2> HIDE DEF d1
  <2>2. /\ Fit(r, d1, S) /\ Sound(r, d1, S)
        /\ ~RequestSentOrReceived(d1) /\ msg.from = PrimaryIndex(d1)
        /\ ~d1.blockProcessed
        /\ d1.ViewNumber = d.ViewNumber /\ d1.BlockIndex = d.BlockIndex /\ d1.out = d.out
    BY <1>2, <2>1, StillFacts, AlikeSound DEF Alike
  <2>3. /\ Fit(r, d2, S) /\ Unlocked(r, d2) /\ Loose(r, d2, Due(r, S))
        /\ RequestSentOrReceived(d2) /\ ~d2.blockProcessed
    BY <2>2, acceptPrepareRequestStep DEF Step
  <2>4. Sound(r, d2, S)
    BY <1>2, <2>2, acceptPrepareRequestSound DEF Trusty
  <2> HIDE DEF d2
  <2>5. Sound(r, respond(r, d2, e), S)
    BY <2>3, <2>4, respondSound DEF Trusty
  <2> QED
    BY <2>5 DEF d1, d2
<1> QED
  BY <1>1, <1>3, <1>4 DEF onPrepareRequest

LEMMA onPrepareResponseSound ==
  ASSUME Faultless, NEW r \in Nodes, NEW S \in SUBSET Payloads, NEW d, Trusty(r, d, S),
         NEW msg \in PrepareResponses, msg.height = d.BlockIndex,
         Sincere(msg, S \cup d.out), NEW e
  PROVE  Sound(r, onPrepareResponse(r, d, msg, e), S)
<1> DEFINE d1 == [d EXCEPT !.PreparationPayloads[msg.from] = msg]
           d2 == IF IsPrimary(r, d) /\ ~recovering(d) THEN Call(d1, "prepareResponse") ELSE d1
           d3 == extendTimer(r, d2, "extend2")
<1>0. Fit(r, d, S) /\ Sound(r, d, S) /\ d \in Contexts
  BY FitContext DEF Trusty
<1>1. SUFFICES ASSUME ~ignoresResponse(r, d, msg)
               PROVE  Sound(r, onPrepareResponse(r, d, msg, e), S)
  BY <1>0 DEF onPrepareResponse
<1>2. /\ msg.from # PrimaryIndex(d) /\ msg.from \in Validators
      /\ msg.type = "PrepareResponse" /\ msg.view = d.ViewNumber
  BY <1>1 DEF ignoresResponse, PrepareResponses
<1>3. onPrepareResponse(r, d, msg, e)
        \in {d, panic(d1), d3, IF WatchOnly(r) THEN d3 ELSE checkPrepare(r, d3, e)}
  BY <1>1 DEF onPrepareResponse
<1>4. msg.from \in PreparedIn(S \cup d.out, d.BlockIndex, d.ViewNumber)
  BY <1>2 DEF Sincere, Preparations
<1>5. Fit(r, d1, S) /\ d1 \in Contexts
  BY <1>0, <1>2, PreparationStep, FitContext DEF Step
<1>6. Sound(r, d1, S)
  BY <1>0, <1>2, <1>4, PreparationSound
<1> HIDE DEF d1
<1>7. Sound(r, panic(d1), S)
  BY <1>5, <1>6, panicSound
<1>8. Fit(r, d2, S) /\ Sound(r, d2, S) /\ d2 \in Contexts
  BY <1>5, <1>6, Names, CallStill, StillFacts, CallAlike, AlikeSound
<1> HIDE DEF d2
<1>9. Fit(r, d3, S) /\ Sound(r, d3, S)
  BY <1>8, Names, extendTimerStill, StillFacts, extendTimerAlike, AlikeSound
<1> HIDE DEF d3
<1>10. ASSUME ~WatchOnly(r)
       PROVE  Sound(r, checkPrepare(r, d3, e), S)
  BY <1>9, <1>10, NodeFacts, checkPrepareSound DEF Trusty
<1> QED
  BY <1>0, <1>3, <1>7, <1>9, <1>10

LEMMA addTransactionSound ==
  ASSUME Faultless, NEW r \in Nodes, NEW S \in SUBSET Payloads, NEW d, Trusty(r, d, S),
         Unlocked(r, d), Loose(r, d, Due(r, S)), ~d.blockProcessed,
         RequestSentOrReceived(d), NEW tx \in Tx, NEW e
  PROVE  Sound(r, addTransaction(r, d, tx, e), S)
<1> DEFINE known == d.Transactions \cup {tx}
           d1 == [d EXCEPT !.Transactions = known]
           d2 == verifyPreCommitPayloadsAgainstPreBlock(d1)
           d3 == extendTimer(r, d2, "extend2")
           d4 == sendPrepareResponse(r, d3)
<1>0. Fit(r, d, S) /\ Sound(r, d, S) /\ d \in Contexts
  BY FitContext DEF Trusty
<1>1. addTransaction(r, d, tx, e)
        \in {d1, rejectBlock(r, d1, e), IF WatchOnly(r) THEN d1 ELSE checkPrepare(r, d4, e)}
  BY DEF addTransaction
<1>2. known \in SUBSET Tx
  BY <1>0 DEF Contexts
<1> HIDE DEF known
<1>3. Still(r, d, d1, S) /\ Sound(r, d1, S)
  BY <1>0, <1>2, FieldStill, FieldAlike, AlikeSound
<1> HIDE DEF d1
<1>4. /\ Fit(r, d1, S) /\ Unlocked(r, d1) /\ Loose(r, d1, Due(r, S))
      /\ ~d1.blockProcessed /\ RequestSentOrReceived(d1) /\ d1 \in Contexts
  BY <1>0, <1>3, StillFacts
<1>5. Sound(r, rejectBlock(r, d1, e), S)
  BY <1>3, <1>4, sendChangeViewSound DEF rejectBlock, Trusty
<1>6. Fit(r, d2, S) /\ RequestSentOrReceived(d2) /\ Unlocked(r, d2) /\ Sound(r, d2, S)
  <2>1. Fit(r, d2, S) /\ Same(d1, d2) /\ Alike(d1, d2)
    BY <1>4, verifyPreCommitsStep, verifyPreCommitsSame, verifyPreCommitsAlike DEF Step
  <2>2. d2.PreCommitPayloads[r] = Nil \/ r \notin Correct
    BY <1>4, CorrectFacts DEF verifyPreCommitPayloadsAgainstPreBlock, Contexts, Unlocked
  <2> HIDE DEF d2
  <2>3. Unlocked(r, d2)
    BY <1>4, <2>1, <2>2 DEF Unlocked, Alike
  <2> QED
    BY <1>3, <1>4, <2>1, <2>3, SameFacts, AlikeSound
<1> HIDE DEF d2
<1>7. Still(r, d2, d3, S) /\ Sound(r, d3, S)
  BY <1>6, FitContext, Names, extendTimerStill, extendTimerAlike, AlikeSound
<1> HIDE DEF d3
<1>8. Fit(r, d3, S) /\ RequestSentOrReceived(d3) /\ Unlocked(r, d3)
  BY <1>6, <1>7, StillFacts
<1>9. ASSUME ~WatchOnly(r)
      PROVE  Sound(r, checkPrepare(r, d4, e), S)
  <2>1. r \in Validators
    BY <1>9, NodeFacts
  <2>2. Fit(r, d4, S) /\ Sound(r, d4, S)
    BY <1>7, <1>8, <2>1, sendPrepareResponseStep, sendPrepareResponseSound DEF Step, Trusty
  <2> HIDE DEF d4
  <2> QED
    BY <2>1, <2>2, checkPrepareSound DEF Trusty
<1> HIDE DEF d4
<1> QED
  BY <1>1, <1>3, <1>5, <1>9

LEMMA onTransactionSound ==
  ASSUME Faultless, NEW r \in Nodes, NEW S \in SUBSET Payloads, NEW d, Trusty(r, d, S),
         NEW tx \in Tx, NEW e
  PROVE  Sound(r, onTransaction(r, d, tx, e), S)
<1> DEFINE item == [op |-> "deleteMissing", index |-> FirstIndex(d.MissingTransactions, tx)]
           d1 == Push(d, <<item>>)
<1>0. Fit(r, d, S) /\ Sound(r, d, S) /\ d \in Contexts
  BY FitContext DEF Trusty
<1>1. SUFFICES ASSUME /\ RequestSentOrReceived(d)
                      /\ ~CommitSent(r, d) /\ ~PreCommitSent(r, d)
                      /\ ~BlockSent(d)
                      /\ tx \in RangeOf(d.MissingTransactions)
               PROVE  Sound(r, addTransaction(r, d1, tx, e), S)
  BY <1>0 DEF onTransaction
<1>2. d.MissingTransactions \in Seq(Tx)
  BY <1>0 DEF Contexts
<1>3. item \in WorkItems
  BY <1>1, <1>2, FirstIndexType DEF WorkItems
<1>4. GenuineItem(item, S \cup d.out) /\ SincereItem(item, d.BlockIndex, S \cup d.out)
  BY DEF GenuineItem, SincereItem
<1> HIDE DEF item
<1>5. <<item>> \in Seq(WorkItems) /\ RangeOf(<<item>>) = {item}
  BY <1>3 DEF RangeOf
<1>6. Still(r, d, d1, S) /\ Sound(r, d1, S)
  BY <1>0, <1>4, <1>5, PushStill, PushSound
<1>7. Unlocked(r, d) /\ Loose(r, d, Due(r, S)) /\ ~d.blockProcessed
  BY <1>0, <1>1, NothingSentUnlocked DEF BlockSent
<1> HIDE DEF d1
<1>8. /\ Fit(r, d1, S) /\ Unlocked(r, d1) /\ Loose(r, d1, Due(r, S))
      /\ ~d1.blockProcessed /\ RequestSentOrReceived(d1)
  BY <1>0, <1>1, <1>6, <1>7, StillFacts
<1> QED
  BY <1>6, <1>8, addTransactionSound DEF Trusty

-----------------------------------------------------------------------------
(* Commits, view changes, recovery and dispatch.                            *)

LEMMA onPreCommitSound ==
  ASSUME Faultless, NEW r \in Nodes, NEW S \in SUBSET Payloads, NEW d, Trusty(r, d, S),
         isAntiMEVExtensionEnabled(d), NEW msg \in PreCommits,
         msg.height = d.BlockIndex, Genuine(msg, S \cup d.out), NEW e
  PROVE  Sound(r, onPreCommit(r, d, msg, e), S)
<1> DEFINE d1 == [d EXCEPT !.PreCommitPayloads[msg.from] = msg]
           d2 == extendTimer(r, d1, "extend4")
           d3 == [d2 EXCEPT !.PreCommitPayloads = d.PreCommitPayloads]
<1>0. Fit(r, d, S) /\ Sound(r, d, S) /\ d \in Contexts
  BY FitContext DEF Trusty
<1>1. SUFFICES ASSUME d.PreCommitPayloads[msg.from] = Nil
               PROVE  Sound(r, onPreCommit(r, d, msg, e), S)
  BY <1>0 DEF onPreCommit
<1>2. onPreCommit(r, d, msg, e)
        \in {d, d1, d2, d3, IF MakePreHeader(d) = Nil THEN d2 ELSE checkPreCommit(r, d2, e)}
  BY DEF onPreCommit
<1>3. Fit(r, d1, S) /\ Same(d, d1) /\ d1 \in Contexts
  BY <1>0, <1>1, PreCommitStored, FitContext DEF Step
<1>4. Sound(r, d1, S)
  BY <1>0, FieldAlike, AlikeSound
<1> HIDE DEF d1
<1>5. Still(r, d1, d2, S) /\ Sound(r, d2, S)
  BY <1>3, <1>4, Names, extendTimerStill, extendTimerAlike, AlikeSound
<1> HIDE DEF d2
<1>6. Fit(r, d2, S) /\ d2 \in Contexts /\ Same(d1, d2)
  BY <1>3, <1>5, StillFacts
<1>7. /\ isAntiMEVExtensionEnabled(d2)
      /\ RequestSentOrReceived(d2) = RequestSentOrReceived(d)
  BY <1>0, <1>3, <1>6, SameTransitive, SameFacts
<1>8. Sound(r, d3, S)
  BY <1>5, <1>6, FieldAlike, AlikeSound
<1> HIDE DEF d3
<1>9. ASSUME MakePreHeader(d) # Nil
      PROVE  Sound(r, checkPreCommit(r, d2, e), S)
  <2>1. RequestSentOrReceived(d2)
    BY <1>7, <1>9 DEF MakePreHeader
  <2> QED
    BY <1>5, <1>6, <1>7, <2>1, checkPreCommitSound DEF Trusty
<1> QED
  BY <1>0, <1>2, <1>4, <1>5, <1>8, <1>9

\* The commit of another validator; the node's own has come to it first.
LEMMA CommitSound ==
  ASSUME Faultless, NEW r \in Nodes, NEW S \in SUBSET Payloads, NEW d, Trusty(r, d, S),
         NEW msg \in Commits, msg.height = d.BlockIndex, msg.view <= d.ViewNumber,
         Sincere(msg, S \cup d.out), d.CommitPayloads[msg.from] = Nil
  PROVE  Sound(r, [d EXCEPT !.CommitPayloads[msg.from] = msg], S)
<1> DEFINE x == [d.CommitPayloads EXCEPT ![msg.from] = msg]
           d1 == [d EXCEPT !.CommitPayloads = x]
           A == S \cup d.out
<1>1. /\ Fit(r, d, S) /\ d \in Contexts /\ Orderly(A) /\ Grounded(r, d, A)
      /\ d.CommitPayloads \in Slots(Commits) /\ d.BlockIndex \in Nat
      /\ msg.type = "Commit" /\ msg.from \in Validators
  <2>1. d \in Contexts
    BY FitContext DEF Trusty
  <2> QED
    BY <2>1 DEF Trusty, Sound, Contexts, Commits
<1>2. \A i \in Validators : x[i] = IF i = msg.from THEN msg ELSE d.CommitPayloads[i]
  BY <1>1 DEF Slots
<1> HIDE DEF x
<1>3. /\ d1.BlockIndex = d.BlockIndex
      /\ d1.ViewNumber = d.ViewNumber
      /\ d1.PreparationPayloads = d.PreparationPayloads
      /\ d1.CommitPayloads = x
      /\ d1.proposal = d.proposal
      /\ d1.blockProcessed = d.blockProcessed
      /\ d1.cache = d.cache /\ d1.todo = d.todo /\ d1.out = d.out
  BY <1>1 DEF Contexts
<1> HIDE DEF d1
<1>4. Carried(A, msg.from, d.BlockIndex, msg.view)
  BY <1>1 DEF Sincere
<1>5. r \in Validators => r # msg.from
  <2>1. SUFFICES ASSUME r \in Validators, r = msg.from
                 PROVE  FALSE
    OBVIOUS
  <2>2. PICK m \in A : m.type = "Commit" /\ m.from = r /\ m.height = d.BlockIndex
    BY <1>4, <2>1 DEF Carried, CommittedBy
  <2>3. Signed(A, "Commit", r, d.BlockIndex, m.sign)
    BY <2>2 DEF Signed
  <2>4. d.BlockIndex < d.BlockIndex \/ d.CommitPayloads[r] # Nil
    BY <1>1, <2>1, <2>3, OwnCommit DEF Faultless
  <2> QED
    BY <1>1, <2>1, <2>4
<1>6. RequestSentOrReceived(d1) = RequestSentOrReceived(d)
  BY <1>3 DEF RequestSentOrReceived, PrimaryIndex
<1> HIDE DEF A
<1>7. ASSUME NEW i \in Validators, d1.CommitPayloads[i] # Nil
      PROVE  /\ d1.CommitPayloads[i].view <= d1.ViewNumber
             /\ Carried(A, i, d1.BlockIndex, d1.CommitPayloads[i].view)
  BY <1>1, <1>2, <1>3, <1>4, <1>7 DEF Grounded
<1>8. r \in Validators /\ d1.CommitPayloads[r] # Nil =>
        d1.CommitPayloads[r].view = d1.ViewNumber
  BY <1>1, <1>2, <1>3, <1>5 DEF Grounded
<1>9. Grounded(r, d1, A)
  BY <1>1, <1>3, <1>6, <1>7, <1>8 DEF Grounded
<1>10. Sound(r, d1, S)
  BY <1>1, <1>3, <1>9 DEF Sound, A
<1> QED
  BY <1>10 DEF d1, x

LEMMA onCommitSound ==
  ASSUME Faultless, NEW r \in Nodes, NEW S \in SUBSET Payloads, NEW d, Trusty(r, d, S),
         NEW msg \in Commits, msg.height = d.BlockIndex, msg.view <= d.ViewNumber,
         Sincere(msg, S \cup d.out), NEW e
  PROVE  Sound(r, onCommit(r, d, msg, e), S)
<1> DEFINE x == [d.CommitPayloads EXCEPT ![msg.from] = msg]
           d1 == [d EXCEPT !.CommitPayloads = x]
           d2 == extendTimer(r, d1, "extend4")
           d3 == [d2 EXCEPT !.CommitPayloads = d.CommitPayloads]
<1>0. /\ Fit(r, d, S) /\ Sound(r, d, S) /\ d \in Contexts
      /\ d.CommitPayloads \in Slots(Commits) /\ msg.from \in Validators
  <2>1. Fit(r, d, S) /\ Sound(r, d, S) /\ d \in Contexts
    BY FitContext DEF Trusty
  <2> QED
    BY <2>1 DEF Contexts, Commits
<1>1. SUFFICES ASSUME d.CommitPayloads[msg.from] = Nil
               PROVE  Sound(r, onCommit(r, d, msg, e), S)
  BY <1>0 DEF onCommit
<1>2. d1 = [d EXCEPT !.CommitPayloads[msg.from] = msg]
  OBVIOUS
<1>3. onCommit(r, d, msg, e) \in {d, d1, d2, d3, checkCommit(d2, e)}
  BY <1>2 DEF onCommit
<1>4. x \in Slots(Commits)
  BY <1>0 DEF Slots
<1>5. Sound(r, d1, S)
  BY <1>1, <1>2, CommitSound
<1>6. d1 \in Contexts
  BY <1>0, <1>4, FieldTypes
<1>7. Sound(r, d2, S) /\ d2 \in Contexts
  BY <1>5, <1>6, extendTimerAlike, AlikeSound, Names, extendTimerSame DEF Same
<1>8. Sound(r, d3, S)
  <2>1. d2 \in {d1, Call(d1, "extend4")}
    BY DEF extendTimer
  <2>2. Alike(d, d3)
    BY <1>0, <2>1 DEF Contexts, Alike, Call
  <2> QED
    BY <1>0, <2>2, AlikeSound
<1> HIDE DEF d1, d2, d3
<1>9. Sound(r, checkCommit(d2, e), S)
  BY <1>7, checkCommitSound
<1> QED
  BY <1>0, <1>3, <1>5, <1>7, <1>8, <1>9

LEMMA onChangeViewSound ==
  ASSUME Faultless, NEW r \in Nodes, NEW S \in SUBSET Payloads, NEW d, Trusty(r, d, S),
         ~d.blockProcessed, NEW msg \in ChangeViews
  PROVE  Sound(r, onChangeView(r, d, msg), S)
<1> DEFINE x == [d.ChangeViewPayloads EXCEPT ![msg.from] = msg]
           d1 == [d EXCEPT !.ChangeViewPayloads = x]
<1>0. Fit(r, d, S) /\ Sound(r, d, S) /\ d \in Contexts
  BY FitContext DEF Trusty
<1>1. d.ChangeViewPayloads \in Slots(ChangeViews) /\ msg.newView \in Views
  BY <1>0, FitTypes DEF ChangeViews
<1>2. x \in Slots(ChangeViews)
  BY <1>1 DEF Slots, ChangeViews
<1>3. d1 = [d EXCEPT !.ChangeViewPayloads[msg.from] = msg]
  OBVIOUS
<1> HIDE DEF x
<1>4. Still(r, d, d1, S) /\ Sound(r, d1, S)
  BY <1>0, <1>2, FieldStill, FieldAlike, AlikeSound
<1> HIDE DEF d1
<1>5. Sound(r, onRecoveryRequest(r, d, msg), S)
  BY onRecoveryRequestSound
<1>6. ASSUME CommitSent(r, d) \/ PreCommitSent(r, d)
      PROVE  Sound(r, sendRecoveryMessage(r, d), S)
  <2>1. r \in Validators
    BY <1>6, NodeFacts DEF CommitSent, PreCommitSent
  <2> QED
    BY <2>1, sendRecoveryMessageSound
<1>7. ASSUME ~CommitSent(r, d), ~PreCommitSent(r, d)
      PROVE  Sound(r, checkChangeView(r, d1, msg.newView), S)
  <2>1. Unlocked(r, d) /\ Loose(r, d, Due(r, S))
    BY <1>0, <1>7, NothingSentUnlocked
  <2>2. /\ Fit(r, d1, S) /\ Unlocked(r, d1)
        /\ Loose(r, d1, Due(r, S)) /\ ~d1.blockProcessed
    BY <1>0, <1>4, <2>1, StillFacts
  <2> QED
    BY <1>1, <1>4, <2>2, checkChangeViewSound DEF Trusty
<1> QED
  BY <1>0, <1>3, <1>5, <1>6, <1>7 DEF onChangeView

\* What is rebuilt from a recovery message is no less sincere.
LEMMA RecoveredSincere ==
  ASSUME NEW A, NEW msg \in RecoveryMessages, Sincere(msg, A)
  PROVE  \A m \in GetPrepareRequest(msg, GetPrimaryIndex(msg.height, msg.view))
                    \cup GetPrepareResponses(msg)
                    \cup GetChangeViews(msg) \cup GetPreCommits(msg) \cup GetCommits(msg) :
            Sincere(m, A)
<1> DEFINE primary == GetPrimaryIndex(msg.height, msg.view)
<1>1. /\ msg.type = "RecoveryMessage" /\ msg.height \in Nat /\ msg.view \in Views
      /\ msg.preparationPayloads \subseteq Validators
  BY DEF RecoveryMessages
<1>2. /\ msg.prepareRequest # Nil => Proposed(A, msg.height, msg.view, msg.prepareRequest)
      /\ msg.preparationPayloads \subseteq PreparedIn(A, msg.height, msg.view)
      /\ \A c \in msg.commitPayloads : Carried(A, c.from, msg.height, msg.view)
  BY <1>1 DEF Sincere
<1>3. primary \in Validators
  BY <1>1, PrimaryIsValidator, ViewFacts
<1> HIDE DEF primary
<1>4. ASSUME NEW m \in GetPrepareRequest(msg, primary)
      PROVE  Sincere(m, A)
  <2>1. /\ msg.prepareRequest # Nil
        /\ m = PrepareRequestMsg(msg.height, msg.view, primary, msg.prepareRequest)
    BY <1>4 DEF GetPrepareRequest
  <2>2. /\ m.type = "PrepareRequest" /\ m.height = msg.height /\ m.view = msg.view
        /\ m.from = primary /\ m.proposal = msg.prepareRequest
    BY <2>1 DEF PrepareRequestMsg
  <2>3. primary \in PreparedIn(A, msg.height, msg.view)
    BY <1>2, <1>3, <2>1 DEF Proposed, PreparedIn, primary
  <2> QED
    BY <1>2, <2>1, <2>2, <2>3 DEF Sincere
<1>5. ASSUME NEW m \in GetPrepareResponses(msg)
      PROVE  Sincere(m, A)
  <2>1. PICK i \in msg.preparationPayloads :
            m = PrepareResponseMsg(msg.height, msg.view, i, msg.prepareRequest)
    BY <1>5 DEF GetPrepareResponses
  <2>2. m.type = "PrepareResponse" /\ m.height = msg.height /\ m.view = msg.view /\ m.from = i
    BY <2>1 DEF PrepareResponseMsg
  <2> QED
    BY <1>2, <2>1, <2>2 DEF Sincere
<1>6. \A m \in GetChangeViews(msg) \cup GetPreCommits(msg) :
        m.type \in {"ChangeView", "PreCommit"}
  BY DEF GetChangeViews, ChangeViewMsg, GetPreCommits, PreCommitMsg
<1>7. ASSUME NEW m \in GetCommits(msg)
      PROVE  Sincere(m, A)
  <2>1. PICK c \in msg.commitPayloads : m = CommitMsg(msg.height, msg.view, c.from, c.sign)
    BY <1>7 DEF GetCommits
  <2>2. m.type = "Commit" /\ m.height = msg.height /\ m.view = msg.view /\ m.from = c.from
    BY <2>1 DEF CommitMsg
  <2> QED
    BY <1>2, <2>2 DEF Sincere, Preparations
<1> QED
  BY <1>4, <1>5, <1>6, <1>7 DEF Sincere, Preparations, primary

LEMMA ReplaySincere ==
  ASSUME NEW A, NEW B, \A m \in B : Sincere(m, A), NEW h
  PROVE  SincereItem(Replay(B), h, A)
  BY DEF SincereItem, Replay

LEMMA onRecoveryMessageSound ==
  ASSUME NEW r, NEW S, NEW d \in Contexts, Sound(r, d, S), NEW msg \in RecoveryMessages,
         msg.height = d.BlockIndex, Sincere(msg, S \cup d.out)
  PROVE  Sound(r, onRecoveryMessage(r, d, msg), S)
<1> DEFINE A == S \cup d.out
           first == [op |-> "preparations", msg |-> msg]
           second == [op |-> "commits", msg |-> msg]
           stages == <<first, second>>
           votes == Replay(GetChangeViews(msg))
<1>1. first \in WorkItems /\ second \in WorkItems
  BY DEF WorkItems
<1>2. SincereItem(first, d.BlockIndex, A) /\ SincereItem(second, d.BlockIndex, A)
  BY DEF SincereItem
<1>3. 0 \in Validators
  BY NAssumption DEF Validators
<1>4. votes \in WorkItems
  BY <1>3, RecoveredType, ReplayType
<1>5. SincereItem(votes, d.BlockIndex, A)
  BY RecoveredSincere, ReplaySincere
<1>6. onRecoveryMessage(r, d, msg) \in {d, Push(d, stages), Push(d, <<votes>> \o stages)}
  BY DEF onRecoveryMessage
<1> HIDE DEF first, second, votes
<1>7. stages \in Seq(WorkItems) /\ RangeOf(stages) = {first, second}
  BY <1>1 DEF RangeOf
<1>8. <<votes>> \in Seq(WorkItems) /\ RangeOf(<<votes>>) = {votes}
  BY <1>4 DEF RangeOf
<1> HIDE DEF stages
<1>9. /\ <<votes>> \o stages \in Seq(WorkItems)
      /\ \A item \in RangeOf(<<votes>> \o stages) : item \in {votes, first, second}
  BY <1>7, <1>8, ConcatRange
<1>10. Sound(r, Push(d, stages), S)
  BY <1>2, <1>7, PushSound
<1>11. Sound(r, Push(d, <<votes>> \o stages), S)
  BY <1>2, <1>5, <1>9, PushSound
<1> QED
  BY <1>6, <1>10, <1>11

LEMMA recoverPreparationsSound ==
  ASSUME NEW r, NEW S, NEW d \in Contexts, Sound(r, d, S), NEW msg \in RecoveryMessages,
         msg.height = d.BlockIndex, Sincere(msg, S \cup d.out)
  PROVE  Sound(r, recoverPreparations(r, d, msg), S)
<1> DEFINE A == S \cup d.out
           request == IF RequestSentOrReceived(d)
                      THEN {}
                      ELSE GetPrepareRequest(msg, PrimaryIndex(d))
           first == Replay(request)
           second == Replay(GetPrepareResponses(msg))
           items == <<first, second>>
<1>1. SUFFICES ASSUME msg.view = d.ViewNumber
               PROVE  Sound(r, recoverPreparations(r, d, msg), S)
  BY DEF recoverPreparations
<1>2. /\ PrimaryIndex(d) \in Validators
      /\ PrimaryIndex(d) = GetPrimaryIndex(msg.height, msg.view)
  BY <1>1, NodeFacts DEF PrimaryIndex
<1>3. request \in SUBSET Restorable /\ GetPrepareResponses(msg) \in SUBSET Restorable
  BY <1>2, RecoveredType
<1>4. recoverPreparations(r, d, msg) \in {d, Push(d, items)}
  BY DEF recoverPreparations
<1>5. /\ \A m \in request : Sincere(m, A)
      /\ \A m \in GetPrepareResponses(msg) : Sincere(m, A)
  BY <1>2, RecoveredSincere
<1> HIDE DEF request
<1>6. first \in WorkItems /\ second \in WorkItems
  BY <1>3, ReplayType
<1>7. SincereItem(first, d.BlockIndex, A) /\ SincereItem(second, d.BlockIndex, A)
  BY <1>5, ReplaySincere
<1> HIDE DEF first, second
<1>8. items \in Seq(WorkItems) /\ RangeOf(items) = {first, second}
  BY <1>6 DEF RangeOf
<1>9. Sound(r, Push(d, items), S)
  BY <1>7, <1>8, PushSound
<1> QED
  BY <1>4, <1>9

LEMMA recoverCommitsSound ==
  ASSUME NEW r, NEW S, NEW d \in Contexts, Sound(r, d, S), NEW msg \in RecoveryMessages,
         Sincere(msg, S \cup d.out)
  PROVE  Sound(r, recoverCommits(d, msg), S)
<1> DEFINE A == S \cup d.out
           first == Replay(GetPreCommits(msg))
           second == Replay(GetCommits(msg))
           items == <<first, second>>
<1>1. 0 \in Validators
  BY NAssumption DEF Validators
<1>2. GetPreCommits(msg) \in SUBSET Restorable /\ GetCommits(msg) \in SUBSET Restorable
  BY <1>1, RecoveredType
<1>3. recoverCommits(d, msg) \in {d, Push(d, items)}
  BY DEF recoverCommits
<1>4. /\ \A m \in GetPreCommits(msg) : Sincere(m, A)
      /\ \A m \in GetCommits(msg) : Sincere(m, A)
  BY RecoveredSincere
<1>5. first \in WorkItems /\ second \in WorkItems
  BY <1>2, ReplayType
<1>6. SincereItem(first, d.BlockIndex, A) /\ SincereItem(second, d.BlockIndex, A)
  BY <1>4, ReplaySincere
<1> HIDE DEF first, second
<1>7. items \in Seq(WorkItems) /\ RangeOf(items) = {first, second}
  BY <1>5 DEF RangeOf
<1>8. Sound(r, Push(d, items), S)
  BY <1>6, <1>7, PushSound
<1> QED
  BY <1>3, <1>8

LEMMA dispatchSound ==
  ASSUME Faultless, NEW r \in Nodes, NEW S \in SUBSET Payloads, NEW d, Trusty(r, d, S),
         NEW msg \in Payloads, msg.height = d.BlockIndex, Genuine(msg, S \cup d.out),
         Sincere(msg, S \cup d.out),
         d.blockProcessed => msg.type = "RecoveryRequest",
         msg.type = "Commit" => msg.view <= d.ViewNumber, NEW e
  PROVE  Sound(r, dispatch(r, d, msg, e), S)
<1>0. Fit(r, d, S) /\ Sound(r, d, S) /\ d \in Contexts
  BY FitContext DEF Trusty
<1>1. CASE msg.type = "ChangeView"
  <2>1. dispatch(r, d, msg, e) = onChangeView(r, d, msg)
    BY <1>1 DEF dispatch
  <2> QED
    BY <1>1, <2>1, PayloadTypes, onChangeViewSound
<1>2. CASE msg.type = "PrepareRequest"
  <2>1. dispatch(r, d, msg, e) = onPrepareRequest(r, d, msg, e)
    BY <1>2 DEF dispatch
  <2> QED
    BY <1>2, <2>1, PayloadTypes, onPrepareRequestSound
<1>3. CASE msg.type = "PrepareResponse"
  <2>1. dispatch(r, d, msg, e) = onPrepareResponse(r, d, msg, e)
    BY <1>3 DEF dispatch
  <2> QED
    BY <1>3, <2>1, PayloadTypes, onPrepareResponseSound
<1>4. CASE msg.type = "Commit"
  <2>1. dispatch(r, d, msg, e) = onCommit(r, d, msg, e)
    BY <1>4 DEF dispatch
  <2> QED
    BY <1>4, <2>1, PayloadTypes, onCommitSound
<1>5. CASE msg.type = "PreCommit"
  <2>1. dispatch(r, d, msg, e)
            = IF isAntiMEVExtensionEnabled(d) THEN onPreCommit(r, d, msg, e) ELSE d
    BY <1>5 DEF dispatch
  <2> QED
    BY <1>0, <1>5, <2>1, PayloadTypes, onPreCommitSound
<1>6. CASE msg.type = "RecoveryRequest"
  <2>1. dispatch(r, d, msg, e) = onRecoveryRequest(r, d, msg)
    BY <1>6 DEF dispatch
  <2> QED
    BY <2>1, onRecoveryRequestSound
<1>7. CASE msg.type \notin {"PrepareRequest", "PrepareResponse", "PreCommit", "Commit",
                            "ChangeView", "RecoveryRequest"}
  <2>1. dispatch(r, d, msg, e) = onRecoveryMessage(r, d, msg)
    BY <1>7 DEF dispatch
  <2>2. msg \in RecoveryMessages
    BY <1>7, PayloadTypes
  <2> QED
    BY <1>0, <2>1, <2>2, onRecoveryMessageSound
<1> QED
  BY <1>1, <1>2, <1>3, <1>4, <1>5, <1>6, <1>7

\* A commit of a view to come waits in the cache.
LEMMA OnReceiveSound ==
  ASSUME Faultless, NEW r \in Nodes, NEW S \in SUBSET Payloads, NEW d, Trusty(r, d, S),
         NEW msg \in Payloads, Genuine(msg, S \cup d.out), Sincere(msg, S \cup d.out), NEW e
  PROVE  Sound(r, OnReceive(r, d, msg, e), S)
<1> DEFINE x == [d.LastSeenMessage EXCEPT ![msg.from] =
                    IF d.LastSeenMessage[msg.from] < msg.view
                    THEN msg.view
                    ELSE d.LastSeenMessage[msg.from]]
           seen == [d EXCEPT !.LastSeenMessage = x]
<1>0. Fit(r, d, S) /\ Sound(r, d, S) /\ d \in Contexts
  BY FitContext DEF Trusty
<1>1. /\ d.LastSeenMessage \in [Validators -> Views \cup {-1}]
      /\ d.BlockIndex \in Nat /\ d.ViewNumber \in Nat
  BY <1>0, FitTypes
<1>2. msg.view \in Views /\ msg.view \in Nat /\ msg.from \in Validators /\ msg.height \in Nat
  BY PayloadTypes, ViewFacts
<1>3. x \in [Validators -> Views \cup {-1}]
  BY <1>1, <1>2
<1>4. seen = [d EXCEPT !.LastSeenMessage[msg.from] =
                IF d.LastSeenMessage[msg.from] < msg.view
                THEN msg.view
                ELSE d.LastSeenMessage[msg.from]]
  OBVIOUS
<1> HIDE DEF x
<1>5. Still(r, d, seen, S) /\ Alike(d, seen)
  BY <1>0, <1>3, FieldStill, FieldAlike
<1> HIDE DEF seen
<1>6. /\ Fit(r, seen, S) /\ Sound(r, seen, S) /\ seen.out = d.out
      /\ seen.BlockIndex = d.BlockIndex /\ seen.ViewNumber = d.ViewNumber
      /\ seen.blockProcessed = d.blockProcessed
  BY <1>0, <1>5, StillFacts, AlikeSound DEF Alike
<1>7. Sound(r, addMessage(d, msg), S)
  BY <1>0, addMessageSound
<1>8. ASSUME msg.height = d.BlockIndex, BlockSent(d) => msg.type = "RecoveryRequest",
             ~(msg.view > d.ViewNumber) \/ msg.type \in {"ChangeView", "RecoveryMessage"}
      PROVE  Sound(r, dispatch(r, seen, msg, e), S)
  <2>1. msg.height = seen.BlockIndex /\ (seen.blockProcessed => msg.type = "RecoveryRequest")
        /\ Genuine(msg, S \cup seen.out) /\ Sincere(msg, S \cup seen.out)
        /\ (msg.type = "Commit" => msg.view <= seen.ViewNumber)
    BY <1>1, <1>2, <1>6, <1>8 DEF BlockSent
  <2> QED
    BY <1>6, <2>1, dispatchSound DEF Trusty
<1>9. ~(msg.height < d.BlockIndex) /\ ~(msg.height > d.BlockIndex) => msg.height = d.BlockIndex
  BY <1>1, <1>2
<1> QED
  BY <1>0, <1>4, <1>6, <1>7, <1>8, <1>9 DEF OnReceive, isForeignOrOld

LEMMA onTimeoutSound ==
  ASSUME Faultless, NEW r \in Nodes, NEW S \in SUBSET Payloads, NEW d, Trusty(r, d, S),
         NEW height, NEW view, NEW force,
         NEW e, e.fill \in Proposals, e.refill \in Proposals
  PROVE  Sound(r, onTimeout(r, d, height, view, force, e), S)
<1>0. Fit(r, d, S) /\ Sound(r, d, S) /\ d \in Contexts
  BY FitContext DEF Trusty
<1>1. SUFFICES ASSUME ~WatchOnly(r), ~BlockSent(d)
               PROVE  Sound(r, onTimeout(r, d, height, view, force, e), S)
  BY <1>0 DEF onTimeout
<1>2. r \in Validators /\ ~d.blockProcessed
  BY <1>1, NodeFacts DEF BlockSent
<1>3. ASSUME IsPrimary(r, d), ~RequestSentOrReceived(d)
      PROVE  Sound(r, sendPrepareRequest(r, d, d.ViewNumber # 0 \/ d.txSubscriptionOn \/ force, e), S)
  BY <1>3, sendPrepareRequestSound DEF IsPrimary
<1>4. Sound(r, changeTimer(sendRecoveryMessage(r, d), "resend"), S)
  <2> DEFINE d1 == sendRecoveryMessage(r, d)
  <2>1. Still(r, d, d1, S) /\ Sound(r, d1, S)
    BY <1>0, <1>2, sendRecoveryMessageStill, sendRecoveryMessageSound
  <2> HIDE DEF d1
  <2>2. Sound(r, changeTimer(d1, "resend"), S)
    BY <2>1, StillFacts, CallAlike, AlikeSound
  <2> QED
    BY <2>2 DEF d1
<1>5. Sound(r, [changeTimer(d, "forced") EXCEPT !.txSubscriptionOn = FALSE], S)
  <2> DEFINE d1 == changeTimer(d, "forced")
  <2>1. Sound(r, d1, S) /\ d1 \in Contexts
    BY <1>0, Names, CallAlike, AlikeSound, changeTimerSame DEF Same
  <2> HIDE DEF d1
  <2>2. Sound(r, [d1 EXCEPT !.txSubscriptionOn = FALSE], S)
    BY <2>1, FieldAlike, AlikeSound
  <2> QED
    BY <2>2 DEF d1
<1>6. Sound(r, waitForTransactions(d, "subscribeBackup"), S)
  BY <1>0, waitForTransactionsAlike, AlikeSound
<1>7. ASSUME ~CommitSent(r, d), ~PreCommitSent(r, d)
      PROVE  Sound(r, sendChangeView(r, d, e, "CVTimeout"), S)
  BY <1>0, <1>2, <1>7, NothingSentUnlocked, sendChangeViewSound
<1> QED
  BY <1>0, <1>3, <1>4, <1>5, <1>6, <1>7 DEF onTimeout

-----------------------------------------------------------------------------
(* The network.                                                             *)

\* The inductive invariant.
CInv == PInv /\ RInv /\ Certified

\* Nobody sends payloads of his own making.
LEMMA FaultlessFacts ==
  ASSUME Faultless
  PROVE  /\ Byzantine = {} /\ Injected = {} /\ Running = Nodes
         /\ Validators \cap Restartable = {}
<1>1. Byzantine = {}
  BY FaultAssumption DEF Faultless, Correct
<1>2. Injected = {}
  <2>1. \A m \in Injected : m.from \in Validators
    BY FaultAssumption, PayloadTypes
  <2> QED
    BY <1>1, <2>1, FaultAssumption
<1> QED
  BY <1>1, <1>2 DEF Faultless, Correct, Running

\* Between two steps every node is in order.
LEMMA StateTrusty ==
  ASSUME PInv, Certified, NEW r \in Running
  PROVE  /\ Trusty(r, ctx[r], msgs)
         /\ Fit(r, ctx[r], msgs) /\ Sound(r, ctx[r], msgs)
         /\ ctx[r] \in Contexts /\ ctx[r].out = {}
         /\ msgs \in SUBSET Payloads
         /\ r \in Nodes
<1>1. /\ Fit(r, ctx[r], msgs) /\ ctx[r] \in Contexts /\ ctx[r].out = {}
      /\ msgs \in SUBSET Payloads /\ r \in Nodes
  BY StateFit
<1>2. msgs \cup ctx[r].out = msgs
  BY <1>1
<1>3. Sound(r, ctx[r], msgs)
  BY <1>2 DEF Sound, Certified
<1> QED
  BY <1>1, <1>3 DEF Trusty

\* A step that leaves the stepping node in order certifies the block it adds.
LEMMA BecomesCertified ==
  ASSUME PInv, Certified, NEW r \in Running, NEW d, Trusty(r, d, msgs), Becomes(r, d)
  PROVE  Certified'
<1> DEFINE d0 == [d EXCEPT !.out = {}]
           d1 == [d0 EXCEPT !.calls = <<>>]
<1>1. /\ d \in Contexts /\ d.out \in SUBSET Payloads /\ Sane(d)
      /\ Orderly(msgs \cup d.out) /\ Grounded(r, d, msgs \cup d.out)
  <2>1. d \in Contexts /\ Sane(d)
    BY FitContext DEF Trusty
  <2>2. d.out \in SUBSET Payloads
    BY <2>1 DEF Contexts
  <2> QED
    BY <2>1, <2>2 DEF Trusty, Sound
<1>2. /\ ctx \in [Running -> Contexts] /\ msgs \in SUBSET Payloads
      /\ ledger \in [Running -> Seq(Headers)]
  BY DEF PInv, IInv, TypeOK
<1>3. /\ d1.BlockIndex = d.BlockIndex
      /\ d1.ViewNumber = d.ViewNumber
      /\ d1.PreparationPayloads = d.PreparationPayloads
      /\ d1.CommitPayloads = d.CommitPayloads
      /\ d1.proposal = d.proposal
      /\ d1.blockProcessed = d.blockProcessed
      /\ d1.cache = d.cache
      /\ d1.todo = d.todo
  BY <1>1 DEF Contexts
<1>4. ctx' = [ctx EXCEPT ![r] = d1]
  BY DEF Becomes
<1> HIDE DEF d1
<1>5. ctx'[r] = d1 /\ (\A s \in Running \ {r} : ctx'[s] = ctx[s])
  BY <1>2, <1>4
<1>6. PICK lost \in SUBSET RecoveriesOf(d.out) : msgs' = msgs \cup (d.out \ lost)
  BY DEF Becomes, Send
<1> DEFINE B == msgs \cup d.out
           A == msgs \cup (d.out \ lost)
<1>7. /\ A \subseteq B /\ Extends(B, A) /\ Extends(msgs, A)
      /\ msgs' = A
  BY <1>6 DEF RecoveriesOf, Extends
<1>8. Orderly(A)
  BY <1>1, <1>7, OrderlyLoses
<1>9. Grounded(r, d1, A)
  <2>1. Grounded(r, d, A)
    BY <1>1, <1>7, GroundedGrows
  <2> QED
    BY <1>3, <2>1, SameGrounded
<1> HIDE DEF A, B
<1>10. ASSUME NEW s \in Running
       PROVE  Grounded(s, ctx'[s], A)
  <2>1. s # r => Grounded(s, ctx[s], A)
    BY <1>7, GroundedGrows DEF Certified
  <2> QED
    BY <1>5, <1>9, <2>1
<1>11. ASSUME NEW s \in Running, NEW h \in DOMAIN ledger[s]
       PROVE  /\ Proposed(A, h, ledger[s][h].view, ledger[s][h].proposal)
              /\ Decided(A, h, ledger[s][h].view)
  BY <1>7, EvidenceGrows, DecidedGrows DEF Certified
<1>12. ASSUME NEW s \in Running, NEW h \in DOMAIN ledger'[s]
       PROVE  /\ Proposed(A, h, ledger'[s][h].view, ledger'[s][h].proposal)
              /\ Decided(A, h, ledger'[s][h].view)
  <2>1. ledger' = [ledger EXCEPT ![r] =
                    IF /\ d.blockProcessed /\ ~ctx[r].blockProcessed
                       /\ Len(ledger[r]) = d.BlockIndex - 1
                    THEN Append(ledger[r], MakeHeader(d))
                    ELSE ledger[r]]
    BY DEF Becomes
  <2>2. CASE ledger'[s] = ledger[s]
    BY <1>11, <1>12, <2>2
  <2>3. CASE ledger'[s] # ledger[s]
    <3>1. /\ s = r /\ d.blockProcessed /\ Len(ledger[r]) = d.BlockIndex - 1
          /\ ledger'[r] = Append(ledger[r], MakeHeader(d))
      BY <1>2, <2>1, <2>3
    <3>2. MakeHeader(d) = [view |-> d.ViewNumber, proposal |-> d.proposal]
      BY <1>1, <3>1, HeaderFacts DEF Sane, HeaderReady, MakePreHeader
    <3>3. /\ Proposed(A, d.BlockIndex, d.ViewNumber, d.proposal)
          /\ Decided(A, d.BlockIndex, d.ViewNumber)
      <4>1. Grounded(r, d, A)
        BY <1>1, <1>7, GroundedGrows DEF B
      <4> QED
        BY <1>1, <3>1, <4>1 DEF Grounded, Sane
    <3>4. d.BlockIndex \in Nat /\ ledger[r] \in Seq(Headers) /\ Len(ledger[r]) \in Nat
      BY <1>1, <1>2 DEF Contexts
    <3> DEFINE l == ledger[r]
               b == MakeHeader(d)
    <3>5. /\ DOMAIN l = 1 .. Len(l)
          /\ Append(l, b)[Len(l) + 1] = b
          /\ DOMAIN Append(l, b) = 1 .. Len(l) + 1
          /\ \A i \in 1 .. Len(l) : Append(l, b)[i] = l[i]
      <4>1. b \in Headers
        BY <1>1, <3>1, HeaderFacts DEF Sane, HeaderReady
      <4> HIDE DEF b
      <4> QED
        BY <3>4, <4>1
    <3>6. \/ h = d.BlockIndex /\ ledger'[r][h] = b
          \/ h \in DOMAIN l /\ ledger'[r][h] = l[h]
      <4>1. h \in 1 .. Len(l) + 1
        BY <1>12, <3>1, <3>5
      <4>2. h = Len(l) + 1 \/ h \in 1 .. Len(l)
        BY <3>4, <4>1
      <4> QED
        BY <3>1, <3>4, <3>5, <4>2
    <3> QED
      BY <1>11, <3>1, <3>2, <3>3, <3>6
  <2> QED
    BY <2>2, <2>3
<1>13. Certified'
  <2>1. /\ Orderly(msgs')
        /\ \A s \in Running :
            /\ Grounded(s, ctx'[s], msgs')
            /\ \A h \in DOMAIN ledger'[s] :
                /\ Proposed(msgs', h, ledger'[s][h].view, ledger'[s][h].proposal)
                /\ Decided(msgs', h, ledger'[s][h].view)
    BY <1>7, <1>8, <1>10, <1>12
  <2> QED
    BY <2>1 DEF Certified, Running
<1> QED
  BY <1>13

LEMMA NewContextGrounded ==
  ASSUME NEW r, NEW A
  PROVE  Grounded(r, NewContext, A)
<1>1. /\ NewContext \in Contexts
      /\ NewContext.cache = {} /\ NewContext.todo = <<>>
      /\ NewContext.PreparationPayloads = NoPayloads
      /\ NewContext.CommitPayloads = NoPayloads
      /\ NewContext.blockProcessed = FALSE
  BY NewContextSane DEF Sane, NewContext
<1>2. ~RequestSentOrReceived(NewContext)
  BY <1>1, NodeFacts DEF RequestSentOrReceived, NoPayloads
<1>3. RangeOf(NewContext.todo) = {}
  BY <1>1 DEF RangeOf
<1> QED
  BY <1>1, <1>2, <1>3 DEF Grounded, NoPayloads

LEMMA InitCertified == Init => CInv
<1>1. ASSUME Init PROVE Certified
  <2>1. msgs = {} /\ \A r \in Running : ctx[r] = NewContext /\ ledger[r] = <<>>
    BY <1>1 DEF Init
  <2>2. Orderly(msgs)
    BY <2>1 DEF Orderly
  <2>3. \A r \in Running : DOMAIN ledger[r] = {}
    BY <2>1
  <2> QED
    BY <2>1, <2>2, <2>3, NewContextGrounded DEF Certified
<1> QED
  BY <1>1, InitPromises, InitAlert DEF CInv

-----------------------------------------------------------------------------
(* The steps.                                                               *)

LEMMA StartCertified ==
  ASSUME Faultless, CInv, NEW r \in Running, Start(r)
  PROVE  Certified'
<1>1. PICK e \in FillCallbacks :
        LET d == initializeConsensus(r, ctx[r], 0, Len(ledger[r]) + 1)
        IN  Becomes(r, IF IsPrimary(r, d) THEN sendPrepareRequest(r, d, TRUE, e) ELSE d)
  BY DEF Start
<1> DEFINE d == initializeConsensus(r, ctx[r], 0, Len(ledger[r]) + 1)
           d1 == IF IsPrimary(r, d) THEN sendPrepareRequest(r, d, TRUE, e) ELSE d
<1>2. /\ Trusty(r, ctx[r], msgs) /\ Fit(r, ctx[r], msgs) /\ msgs \in SUBSET Payloads
      /\ r \in Nodes /\ ctx[r].BlockIndex = 0 /\ ctx[r].todo = <<>>
  BY StateTrusty DEF CInv, Start, Idle
<1>3. Len(ledger[r]) + 1 \in Nat /\ Len(ledger[r]) + 1 > ctx[r].BlockIndex
  BY <1>2 DEF CInv, PInv, IInv, TypeOK
<1>4. Fit(r, d, msgs) /\ ~RequestSentOrReceived(d)
  BY <1>2, <1>3, ViewFacts, initializeConsensusFit
<1>5. Sound(r, d, msgs)
  BY <1>2, <1>3, ViewFacts, initializeConsensusSound
<1>6. Becomes(r, d1)
  BY <1>1
<1>7. e.fill \in Proposals /\ e.refill \in Proposals
  BY <1>1, RunningFacts DEF FillCallbacks
<1> HIDE DEF d
<1>8. ASSUME IsPrimary(r, d)
      PROVE  Trusty(r, sendPrepareRequest(r, d, TRUE, e), msgs)
  <2>1. Fit(r, sendPrepareRequest(r, d, TRUE, e), msgs)
    BY <1>2, <1>4, <1>7, <1>8, sendPrepareRequestStep DEF IsPrimary, Step
  <2>2. Sound(r, sendPrepareRequest(r, d, TRUE, e), msgs)
    BY <1>2, <1>4, <1>5, <1>7, <1>8, sendPrepareRequestSound DEF IsPrimary, Trusty
  <2> QED
    BY <2>1, <2>2 DEF Trusty
<1>9. Trusty(r, d1, msgs)
  BY <1>4, <1>5, <1>8 DEF Trusty
<1> HIDE DEF d1
<1> QED
  BY <1>6, <1>9, BecomesCertified DEF CInv

LEMMA ResetCertified ==
  ASSUME Faultless, CInv, NEW r \in Running, Reset(r)
  PROVE  Certified'
<1> DEFINE d == initializeConsensus(r, ctx[r], 0, Len(ledger[r]) + 1)
<1>1. /\ Trusty(r, ctx[r], msgs) /\ Fit(r, ctx[r], msgs) /\ msgs \in SUBSET Payloads
      /\ r \in Nodes /\ ctx[r].BlockIndex \in Nat /\ ctx[r].todo = <<>>
  BY StateTrusty DEF CInv, Reset, Ready, Idle, Contexts
<1>2. Len(ledger[r]) + 1 \in Nat /\ Len(ledger[r]) + 1 > ctx[r].BlockIndex
  BY <1>1 DEF CInv, PInv, IInv, TypeOK, Reset
<1>3. Fit(r, d, msgs) /\ Sound(r, d, msgs)
  BY <1>1, <1>2, ViewFacts, initializeConsensusFit, initializeConsensusSound
<1>4. Becomes(r, d)
  BY DEF Reset
<1> HIDE DEF d
<1> QED
  BY <1>3, <1>4, BecomesCertified DEF CInv, Trusty

LEMMA DeliverCertified ==
  ASSUME Faultless, CInv, NEW r \in Running, NEW m \in msgs \cup Injected, Deliver(r, m)
  PROVE  Certified'
<1>1. /\ Trusty(r, ctx[r], msgs) /\ Fit(r, ctx[r], msgs) /\ ctx[r].out = {}
      /\ msgs \in SUBSET Payloads /\ r \in Nodes
  BY StateTrusty DEF CInv
<1>2. m \in msgs /\ m \in Payloads
  BY <1>1, FaultlessFacts
<1>3. PICK e \in Callbacks : Becomes(r, OnReceive(r, ctx[r], m, e))
  BY DEF Deliver
<1>4. Genuine(m, msgs \cup ctx[r].out) /\ Sincere(m, msgs \cup ctx[r].out)
  <2>1. Genuine(m, msgs) /\ Sincere(m, msgs)
    BY <1>2 DEF CInv, PInv, PromisesKept, Certified, Orderly
  <2>2. msgs \cup ctx[r].out = msgs
    BY <1>1
  <2> QED
    BY <2>1, <2>2
<1>5. Trusty(r, OnReceive(r, ctx[r], m, e), msgs)
  BY <1>1, <1>2, <1>4, OnReceiveStep, OnReceiveSound DEF Step, Trusty
<1> QED
  BY <1>3, <1>5, BecomesCertified DEF CInv

LEMMA OnTransactionCertified ==
  ASSUME Faultless, CInv, NEW r \in Running, NEW tx \in Tx, OnTransaction(r, tx)
  PROVE  Certified'
<1>1. /\ Trusty(r, ctx[r], msgs) /\ Fit(r, ctx[r], msgs)
      /\ msgs \in SUBSET Payloads /\ r \in Nodes
  BY StateTrusty DEF CInv
<1>2. PICK e \in Callbacks : Becomes(r, onTransaction(r, ctx[r], tx, e))
  BY DEF OnTransaction
<1>3. Trusty(r, onTransaction(r, ctx[r], tx, e), msgs)
  BY <1>1, onTransactionStep, onTransactionSound DEF Step, Trusty
<1> QED
  BY <1>2, <1>3, BecomesCertified DEF CInv

LEMMA OnTimeoutCertified ==
  ASSUME Faultless, CInv, NEW r \in Running, OnTimeout(r) \/ OnNewTransaction(r)
  PROVE  Certified'
<1> DEFINE stopped == [ctx[r].timer EXCEPT !.armed = FALSE]
           d == [ctx[r] EXCEPT !.timer = stopped]
<1>1. /\ Trusty(r, ctx[r], msgs) /\ Fit(r, ctx[r], msgs) /\ Sound(r, ctx[r], msgs)
      /\ msgs \in SUBSET Payloads /\ r \in Nodes /\ ctx[r] \in Contexts
  BY StateTrusty DEF CInv
<1>2. \A e \in FillCallbacks : e.fill \in Proposals /\ e.refill \in Proposals
  BY RunningFacts DEF FillCallbacks
<1>3. stopped \in [height : Nat, view : Views, armed : BOOLEAN]
  BY <1>1 DEF Contexts
<1> HIDE DEF stopped
<1>4. Trusty(r, d, msgs)
  <2>1. Fit(r, d, msgs)
    BY <1>1, <1>3, FieldStill, StillFacts
  <2>2. Sound(r, d, msgs)
    BY <1>1, <1>3, FieldAlike, AlikeSound
  <2> QED
    BY <2>1, <2>2 DEF Trusty
<1> HIDE DEF d
<1>5. ASSUME NEW d1, Trusty(r, d1, msgs), NEW height, NEW view, NEW force, NEW e \in FillCallbacks
      PROVE  Trusty(r, onTimeout(r, d1, height, view, force, e), msgs)
  <2>1. Fit(r, d1, msgs) /\ e.fill \in Proposals /\ e.refill \in Proposals
    BY <1>2, <1>5 DEF Trusty
  <2>2. Fit(r, onTimeout(r, d1, height, view, force, e), msgs)
    BY <1>1, <2>1, onTimeoutStep DEF Step
  <2>3. Sound(r, onTimeout(r, d1, height, view, force, e), msgs)
    BY <1>1, <1>5, <2>1, onTimeoutSound
  <2> QED
    BY <2>2, <2>3 DEF Trusty
<1>6. CASE OnTimeout(r)
  <2>1. PICK e \in FillCallbacks :
            Becomes(r, onTimeout(r, d, ctx[r].timer.height, ctx[r].timer.view, FALSE, e))
    BY <1>6 DEF OnTimeout, d, stopped
  <2> QED
    BY <1>4, <1>5, <2>1, BecomesCertified DEF CInv
<1>7. CASE OnNewTransaction(r)
  <2>1. PICK e \in FillCallbacks :
            Becomes(r, onTimeout(r, ctx[r], ctx[r].timer.height, ctx[r].timer.view, TRUE, e))
    BY <1>7 DEF OnNewTransaction
  <2> QED
    BY <1>1, <1>5, <2>1, BecomesCertified DEF CInv
<1> QED
  BY <1>6, <1>7

LEMMA PopCertified ==
  ASSUME PInv, Certified, NEW r \in Running, ctx[r].todo # <<>>
  PROVE  /\ Trusty(r, Pop(ctx[r]), msgs) /\ Pop(ctx[r]) \in Contexts
         /\ Pop(ctx[r]).out = {} /\ Pop(ctx[r]).BlockIndex = ctx[r].BlockIndex
         /\ Head(ctx[r].todo) \in WorkItems
         /\ GenuineItem(Head(ctx[r].todo), msgs)
         /\ SincereItem(Head(ctx[r].todo), ctx[r].BlockIndex, msgs)
<1> DEFINE s == ctx[r].todo
           d == Pop(ctx[r])
<1>1. /\ Fit(r, ctx[r], msgs) /\ Sound(r, ctx[r], msgs)
      /\ ctx[r] \in Contexts /\ ctx[r].out = {}
  BY StateTrusty
<1>2. s \in Seq(WorkItems) /\ s # <<>>
  BY <1>1 DEF Contexts
<1>3. Head(s) = s[1] /\ 1 \in DOMAIN s /\ Tail(s) \in Seq(WorkItems) /\ Head(s) \in WorkItems
  BY <1>2
<1>4. \A i \in DOMAIN Tail(s) : i + 1 \in DOMAIN s /\ Tail(s)[i] = s[i + 1]
  BY <1>2
<1>5. d = [ctx[r] EXCEPT !.todo = Tail(s)]
  BY DEF Pop
<1> HIDE DEF s
<1>6. Head(s) \in RangeOf(s) /\ RangeOf(Tail(s)) \subseteq RangeOf(s)
  BY <1>3, <1>4 DEF RangeOf
<1>7. Still(r, ctx[r], [ctx[r] EXCEPT !.todo = Tail(s)], msgs)
  BY <1>1, <1>3, <1>6, TodoStill DEF s
<1>8. Fit(r, d, msgs)
  BY <1>5, <1>7, StillFacts
<1>9. Plain(ctx[r], d, msgs \cup ctx[r].out)
  BY <1>1, <1>5, <1>6 DEF Plain, Contexts, s
<1>10. Sound(r, d, msgs)
  BY <1>1, <1>9, PlainSound
<1>11. d.out = {} /\ d.BlockIndex = ctx[r].BlockIndex
  BY <1>1, <1>5 DEF Contexts
<1>12. GenuineItem(Head(s), msgs) /\ SincereItem(Head(s), ctx[r].BlockIndex, msgs)
  BY <1>6 DEF PInv, PromisesKept, HoldsGenuine, Certified, Grounded, s
<1> QED
  BY <1>3, <1>8, <1>10, <1>11, <1>12, FitContext DEF Trusty, s

LEMMA ContinueCertified ==
  ASSUME Faultless, CInv, NEW r \in Running, Continue(r)
  PROVE  Certified'
<1> DEFINE item == Head(ctx[r].todo)
           d == Pop(ctx[r])
<1>1. ctx[r].todo # <<>>
  BY DEF Continue, ContinueReplay, ContinueArmTimer, ContinuePreparations,
         ContinueCommits, ContinueDeleteMissing, Pending
<1>2. msgs \in SUBSET Payloads /\ r \in Nodes
  BY StateTrusty DEF CInv
<1>3. /\ Trusty(r, d, msgs) /\ d \in Contexts /\ d.out = {}
      /\ item \in WorkItems /\ GenuineItem(item, msgs)
      /\ SincereItem(item, d.BlockIndex, msgs)
  BY <1>1, PopCertified DEF CInv
<1>4. Fit(r, d, msgs) /\ Sound(r, d, msgs) /\ msgs \cup d.out = msgs
  BY <1>3 DEF Trusty
<1> HIDE DEF d
<1>5. ASSUME NEW d1, Fit(r, d1, msgs), Sound(r, d1, msgs), Becomes(r, d1)
      PROVE  Certified'
  BY <1>5, BecomesCertified DEF CInv, Trusty
<1>6. CASE ContinueReplay(r)
  <2>1. item.op = "replay"
    BY <1>6 DEF ContinueReplay, Pending
  <2>2. /\ item.payloads \subseteq Payloads
        /\ \A m \in item.payloads : Genuine(m, msgs) /\ Sincere(m, msgs)
    BY <1>3, <2>1, WorkItemTypes DEF Payloads, GenuineItem, SincereItem
  <2>3. CASE Becomes(r, d)
    BY <1>4, <1>5, <2>3
  <2>4. ASSUME NEW m \in item.payloads, NEW e \in Callbacks,
               LET rest == [item EXCEPT !.payloads = item.payloads \ {m}]
                   d1 == Push(d, <<rest>>)
               IN  Becomes(r, IF Beyond(m) THEN d1 ELSE OnReceive(r, d1, m, e))
        PROVE  Certified'
    <3> DEFINE rest == [item EXCEPT !.payloads = item.payloads \ {m}]
               d1 == Push(d, <<rest>>)
               d2 == IF Beyond(m) THEN d1 ELSE OnReceive(r, d1, m, e)
    <3>1. rest \in WorkItems
      BY <1>3, <2>1, WorkItemTypes
    <3>2. GenuineItem(rest, msgs) /\ SincereItem(rest, d.BlockIndex, msgs)
      <4>1. rest.op = item.op /\ rest.payloads \subseteq item.payloads
        BY <1>3, <2>1 DEF WorkItems
      <4> HIDE DEF rest
      <4> QED
        BY <2>1, <2>2, <4>1 DEF GenuineItem, SincereItem
    <3>3. Becomes(r, d2)
      BY <2>4
    <3> HIDE DEF rest
    <3>4. <<rest>> \in Seq(WorkItems) /\ RangeOf(<<rest>>) = {rest}
      BY <3>1 DEF RangeOf
    <3>5. \A i \in RangeOf(<<rest>>) :
            /\ GenuineItem(i, msgs \cup d.out)
            /\ SincereItem(i, d.BlockIndex, msgs \cup d.out)
      BY <1>4, <3>2, <3>4
    <3>6. Still(r, d, d1, msgs) /\ Sound(r, d1, msgs)
      BY <1>3, <1>4, <3>4, <3>5, PushStill, PushSound
    <3>7. Fit(r, d1, msgs)
      BY <3>6, StillFacts
    <3>8. msgs \cup d1.out = msgs
      BY <1>3, <1>4 DEF Push, Contexts
    <3> HIDE DEF d1
    <3>9. /\ m \in Payloads
          /\ Genuine(m, msgs \cup d1.out) /\ Sincere(m, msgs \cup d1.out)
      BY <2>2, <3>8
    <3>10. /\ Fit(r, OnReceive(r, d1, m, e), msgs)
           /\ Sound(r, OnReceive(r, d1, m, e), msgs)
      BY <1>2, <3>6, <3>7, <3>9, OnReceiveStep, OnReceiveSound DEF Step, Trusty
    <3>11. Fit(r, d2, msgs) /\ Sound(r, d2, msgs)
      BY <3>6, <3>7, <3>10
    <3> HIDE DEF d2
    <3> QED
      BY <1>5, <3>3, <3>11
  <2> QED
    BY <1>6, <2>3, <2>4 DEF ContinueReplay, d
<1>7. CASE ContinueArmTimer(r)
  <2>1. Fit(r, armTimer(r, d, item.view), msgs) /\ Sound(r, armTimer(r, d, item.view), msgs)
    BY <1>3, <1>4, armTimerStill, StillFacts, armTimerAlike, AlikeSound
  <2> QED
    BY <1>5, <1>7, <2>1 DEF ContinueArmTimer, d
<1>8. ASSUME item.op \in {"preparations", "commits"}
      PROVE  /\ item.msg \in RecoveryMessages /\ item.msg.height = d.BlockIndex
             /\ Genuine(item.msg, msgs \cup d.out) /\ Sincere(item.msg, msgs \cup d.out)
  BY <1>3, <1>4, <1>8, WorkItemTypes DEF GenuineItem, SincereItem
<1>9. CASE ContinuePreparations(r)
  <2> DEFINE d1 == recoverPreparations(r, d, item.msg)
  <2>1. /\ item.msg \in RecoveryMessages /\ item.msg.height = d.BlockIndex
        /\ Genuine(item.msg, msgs \cup d.out) /\ Sincere(item.msg, msgs \cup d.out)
    BY <1>8, <1>9 DEF ContinuePreparations, Pending
  <2>2. Fit(r, d1, msgs)
    BY <1>4, <2>1, recoverPreparationsStill, StillFacts
  <2>3. Sound(r, d1, msgs)
    BY <1>3, <1>4, <2>1, recoverPreparationsSound
  <2> QED
    BY <1>5, <1>9, <2>2, <2>3 DEF ContinuePreparations, d
<1>10. CASE ContinueCommits(r)
  <2> DEFINE d1 == recoverCommits(d, item.msg)
  <2>1. /\ item.msg \in RecoveryMessages
        /\ Genuine(item.msg, msgs \cup d.out) /\ Sincere(item.msg, msgs \cup d.out)
    BY <1>8, <1>10 DEF ContinueCommits, Pending
  <2>2. Fit(r, d1, msgs)
    BY <1>4, <2>1, recoverCommitsStill, StillFacts
  <2>3. Sound(r, d1, msgs)
    BY <1>3, <1>4, <2>1, recoverCommitsSound
  <2> QED
    BY <1>5, <1>10, <2>2, <2>3 DEF ContinueCommits, d
<1>11. CASE ContinueDeleteMissing(r)
  <2> DEFINE d1 == deleteMissing(d, item.index)
  <2>1. item.index \in Nat
    BY <1>3, <1>11, WorkItemTypes DEF ContinueDeleteMissing, Pending
  <2>2. Fit(r, d1, msgs) /\ Sound(r, d1, msgs)
    BY <1>3, <1>4, <2>1, deleteMissingStill, StillFacts, deleteMissingSound
  <2> QED
    BY <1>5, <1>11, <2>2 DEF ContinueDeleteMissing, d
<1> QED
  BY <1>6, <1>7, <1>9, <1>10, <1>11 DEF Continue

LEMMA EnvironmentCertified ==
  ASSUME Faultless, CInv, NEW r \in Running, SyncBlock(r) \/ Crash(r)
  PROVE  Certified'
<1>1. msgs' = msgs /\ ledger \in [Running -> Seq(Headers)] /\ ctx \in [Running -> Contexts]
  BY DEF SyncBlock, Crash, CInv, PInv, IInv, TypeOK
<1>2. CASE SyncBlock(r)
  <2>1. PICK s \in Running :
            /\ Len(ledger[s]) > Len(ledger[r])
            /\ ledger' = [ledger EXCEPT ![r] = Append(@, ledger[s][Len(@) + 1])]
    BY <1>2 DEF SyncBlock
  <2> DEFINE l == ledger[r]
             k == Len(l) + 1
             b == ledger[s][k]
  <2>2. /\ l \in Seq(Headers) /\ k \in DOMAIN ledger[s] /\ b \in Headers
        /\ ledger'[r] = Append(l, b)
        /\ \A q \in Running \ {r} : ledger'[q] = ledger[q]
    <3>1. l \in Seq(Headers) /\ ledger[s] \in Seq(Headers) /\ Len(ledger[s]) > Len(l)
      BY <1>1, <2>1
    <3>2. k \in DOMAIN ledger[s] /\ b \in Headers
      BY <3>1
    <3> QED
      BY <1>1, <2>1, <3>1, <3>2
  <2> HIDE DEF b
  <2>3. /\ DOMAIN l = 1 .. Len(l) /\ Len(l) \in Nat
        /\ Append(l, b)[Len(l) + 1] = b
        /\ DOMAIN Append(l, b) = 1 .. Len(l) + 1
        /\ \A i \in 1 .. Len(l) : Append(l, b)[i] = l[i]
    BY <2>2
  <2>4. \A q \in Running : \A h \in DOMAIN ledger'[q] :
          \E q1 \in Running : h \in DOMAIN ledger[q1] /\ ledger'[q][h] = ledger[q1][h]
    <3>1. ASSUME NEW h \in DOMAIN ledger'[r]
          PROVE  \E q1 \in Running : h \in DOMAIN ledger[q1] /\ ledger'[r][h] = ledger[q1][h]
      <4>1. h \in 1 .. Len(l) + 1
        BY <2>2, <2>3, <3>1
      <4>2. h = k \/ h \in 1 .. Len(l)
        BY <2>3, <4>1
      <4> QED
        BY <2>2, <2>3, <4>2 DEF b
    <3> QED
      BY <2>2, <3>1
  <2>5. ctx' = ctx
    BY <1>2 DEF SyncBlock
  <2> HIDE DEF l, k
  <2> QED
    BY <1>1, <2>4, <2>5 DEF CInv, Certified, Running
<1>3. CASE Crash(r)
  <2>1. ledger' = ledger /\ ctx'[r] = NewContext /\ \A s \in Running \ {r} : ctx'[s] = ctx[s]
    BY <1>1, <1>3 DEF Crash
  <2>2. \A s \in Running : Grounded(s, ctx'[s], msgs)
    BY <2>1, NewContextGrounded DEF CInv, Certified
  <2> QED
    BY <1>1, <2>1, <2>2 DEF CInv, Certified, Running
<1> QED
  BY <1>2, <1>3

LEMMA NextCertified ==
  ASSUME Faultless, CInv, [Next]_vars
  PROVE  CInv'
<1>1. PInv' /\ RInv'
  BY NextPromises, NextAlert DEF CInv
<1>2. CASE UNCHANGED vars
  <2>1. ctx' = ctx /\ msgs' = msgs /\ ledger' = ledger
    BY <1>2 DEF vars
  <2> QED
    BY <1>1, <2>1 DEF CInv, Certified, Running
<1>3. CASE Next
  <2>1. PICK r \in Running :
            \/ Start(r)
            \/ Reset(r)
            \/ \E m \in msgs \cup Injected : Deliver(r, m)
            \/ \E tx \in Tx : OnTransaction(r, tx)
            \/ OnTimeout(r)
            \/ OnNewTransaction(r)
            \/ Continue(r)
            \/ SyncBlock(r)
            \/ Crash(r)
    BY <1>3 DEF Next
  <2>2. Certified'
    BY <2>1, StartCertified, ResetCertified, DeliverCertified, OnTransactionCertified,
       OnTimeoutCertified, ContinueCertified, EnvironmentCertified
  <2> QED
    BY <1>1, <2>2 DEF CInv
<1> QED
  BY <1>2, <1>3

-----------------------------------------------------------------------------
(* The results.                                                             *)

LEMMA SpecCertified ==
  ASSUME Faultless
  PROVE  Spec => []CInv
<1>1. CInv /\ [Next]_vars => CInv'
  BY NextCertified
<1> QED
  BY <1>1, InitCertified, PTL DEF Spec

\* The validators that committed by a view and those that prepared in a later
\* one would have one in common, and it would have prepared after its commit.
LEMMA OneView ==
  ASSUME Orderly(msgs), msgs \in SUBSET Payloads, NEW h, NEW v \in Nat, NEW w \in Nat,
         Decided(msgs, h, v), Decided(msgs, h, w)
  PROVE  w <= v
<1>1. Cardinality(PreparedIn(msgs, h, w)) >= M
  BY DEF Orderly, Decided, Reached
<1>2. PICK i \in Validators : i \in CommittedBy(msgs, h, v) /\ i \in PreparedIn(msgs, h, w)
  BY <1>1, QuorumsMeet DEF Decided, CommittedBy, PreparedIn
<1>3. PICK c \in msgs : c.type = "Commit" /\ c.from = i /\ c.height = h /\ c.view <= v
  BY <1>2 DEF CommittedBy
<1>4. PICK m \in msgs :
        m.type \in Preparations /\ m.from = i /\ m.height = h /\ m.view = w
  BY <1>2 DEF PreparedIn
<1>5. c.view \in Nat
  BY <1>3, PayloadTypes, ViewFacts DEF Commits
<1>6. w <= c.view
  BY <1>3, <1>4 DEF Orderly
<1> QED
  BY <1>3, <1>5, <1>6

\* In a view the primary makes one proposal.
LEMMA OneProposal ==
  ASSUME Faultless, PInv, NEW h \in Nat, NEW v \in Nat, NEW p, NEW q,
         Proposed(msgs, h, v, p), Proposed(msgs, h, v, q)
  PROVE  p = q
<1> DEFINE i == GetPrimaryIndex(h, v)
<1>1. i \in Correct
  BY PrimaryIsValidator DEF Faultless
<1>2. Consistent(i, ctx[i], msgs)
  BY <1>1 DEF PInv, PromisesKept
<1> HIDE DEF i
<1>3. PICK m1 \in Prepared(i, msgs) : m1.height = h /\ m1.view = v /\ m1.proposal = p
  BY DEF Proposed, Prepared, Preparations, i
<1>4. PICK m2 \in Prepared(i, msgs) : m2.height = h /\ m2.view = v /\ m2.proposal = q
  BY DEF Proposed, Prepared, Preparations, i
<1> QED
  BY <1>2, <1>3, <1>4 DEF Consistent

LEMMA CertifiedAgree ==
  ASSUME Faultless, CInv
  PROVE  Agreement
<1> SUFFICES ASSUME NEW r \in Running, NEW s \in Running,
                    NEW h \in DOMAIN ledger[r] \cap DOMAIN ledger[s]
             PROVE  ledger[r][h] = ledger[s][h]
  BY DEF Agreement
<1> DEFINE b == ledger[r][h]
           c == ledger[s][h]
<1>1. ledger[r] \in Seq(Headers) /\ ledger[s] \in Seq(Headers) /\ msgs \in SUBSET Payloads
  BY DEF CInv, PInv, IInv, TypeOK
<1>2. h \in Nat /\ b \in Headers /\ c \in Headers
  BY <1>1
<1>3. /\ Proposed(msgs, h, b.view, b.proposal) /\ Decided(msgs, h, b.view)
      /\ Proposed(msgs, h, c.view, c.proposal) /\ Decided(msgs, h, c.view)
      /\ Orderly(msgs)
  BY DEF CInv, Certified
<1> HIDE DEF b, c
<1>4. b.view \in Nat /\ c.view \in Nat
  BY <1>2, ViewFacts DEF Headers
<1>5. b.view <= c.view /\ c.view <= b.view
  BY <1>1, <1>3, <1>4, OneView
<1>6. b.view = c.view
  BY <1>4, <1>5
<1>7. b.proposal = c.proposal
  BY <1>2, <1>3, <1>4, <1>6, OneProposal DEF CInv
<1>8. b = c
  BY <1>2, <1>6, <1>7 DEF Headers
<1> QED
  BY <1>8 DEF b, c

\* In a network of correct validators that may stop, with messages that are
\* lost, delayed, duplicated and reordered, every block on a ledger is the
\* proposal of the primary of its view, M validators have prepared in that
\* view, one has committed in it and M have committed in it or earlier, and no
\* validator prepares in a later view than it commits in (checkPrepare,
\* checkCommit, onChangeView, GetCommits).
THEOREM BlocksAreCertified ==
  ASSUME Faultless
  PROVE  Spec => []Certified
<1>1. CInv => Certified
  BY DEF CInv
<1> QED
  BY <1>1, SpecCertified, PTL

\* In such a network no two nodes accept different blocks at one height,
\* although commits outlive their view: a recovery message carries them into
\* the view of its sender, where they count (GetCommits, checkCommit,
\* ProcessBlock).
THEOREM LedgersAgree ==
  ASSUME Faultless
  PROVE  Spec => []Agreement
<1>1. CInv => Agreement
  BY CertifiedAgree
<1> QED
  BY <1>1, SpecCertified, PTL

\* A step that changes a ledger adds a block to it.
LEMMA OneBlock ==
  ASSUME CInv, [Next]_vars, ledger' # ledger
  PROVE  \E r \in Running : \E b :
            ledger' = [ledger EXCEPT ![r] = Append(ledger[r], b)]
<1>1. ledger \in [Running -> Seq(Headers)]
  BY DEF CInv, PInv, IInv, TypeOK
<1>2. ASSUME NEW r \in Running, NEW d, Becomes(r, d)
      PROVE  \E b : ledger' = [ledger EXCEPT ![r] = Append(ledger[r], b)]
  <2>1. ledger' = [ledger EXCEPT ![r] =
                    IF /\ d.blockProcessed /\ ~ctx[r].blockProcessed
                       /\ Len(ledger[r]) = d.BlockIndex - 1
                    THEN Append(ledger[r], MakeHeader(d))
                    ELSE ledger[r]]
    BY <1>2 DEF Becomes
  <2>2. ledger' # [ledger EXCEPT ![r] = ledger[r]]
    BY <1>1
  <2> QED
    BY <2>1, <2>2
<1>3. PICK r \in Running :
          \/ Start(r)
          \/ Reset(r)
          \/ \E m \in msgs \cup Injected : Deliver(r, m)
          \/ \E tx \in Tx : OnTransaction(r, tx)
          \/ OnTimeout(r)
          \/ OnNewTransaction(r)
          \/ Continue(r)
          \/ SyncBlock(r)
          \/ Crash(r)
  BY DEF Next, vars
<1>4. CASE SyncBlock(r)
  BY <1>4 DEF SyncBlock
<1>5. CASE Crash(r)
  BY <1>5 DEF Crash
<1>6. CASE \E d : Becomes(r, d)
  BY <1>2, <1>6
<1>7. \/ \E d : Becomes(r, d)
      \/ SyncBlock(r)
      \/ Crash(r)
  <2>1. Start(r) \/ Reset(r) => \E d : Becomes(r, d)
    BY DEF Start, Reset
  <2>2. \A m : Deliver(r, m) => \E d : Becomes(r, d)
    BY DEF Deliver
  <2>3. \A tx : OnTransaction(r, tx) => \E d : Becomes(r, d)
    BY DEF OnTransaction
  <2>4. OnTimeout(r) \/ OnNewTransaction(r) => \E d : Becomes(r, d)
    BY DEF OnTimeout, OnNewTransaction
  <2>5. Continue(r) => \E d : Becomes(r, d)
    BY DEF Continue, ContinueReplay, ContinueArmTimer, ContinuePreparations,
           ContinueCommits, ContinueDeleteMissing
  <2> QED
    BY <1>3, <2>1, <2>2, <2>3, <2>4, <2>5
<1> QED
  BY <1>4, <1>5, <1>6, <1>7

\* A step of the protocol is a step of the abstract chain or changes no ledger.
LEMMA NextAccepts ==
  ASSUME CInv, [Next]_vars, TypeOK', Agreement', ledger' # ledger
  PROVE  AbstractChain!Next
<1>0. PICK r \in Running : \E b :
            ledger' = [ledger EXCEPT ![r] = Append(ledger[r], b)]
  BY OneBlock
<1>1. PICK b : ledger' = [ledger EXCEPT ![r] = Append(ledger[r], b)]
  BY <1>0
<1> DEFINE l == ledger[r]
           k == Len(l) + 1
<1>2. /\ ledger \in [Running -> Seq(Headers)] /\ ledger' \in [Running -> Seq(Headers)]
  BY DEF CInv, PInv, IInv, TypeOK, Running
<1>3. l \in Seq(Headers) /\ ledger'[r] = Append(l, b) /\ Append(l, b) \in Seq(Headers)
  BY <1>1, <1>2
<1>4. b \in Headers /\ k \in DOMAIN ledger'[r] /\ ledger'[r][k] = b
  BY <1>3
<1>5. ASSUME NEW s \in Running, Len(ledger[s]) > Len(l)
      PROVE  b = ledger[s][k]
  <2>1. s # r /\ ledger'[s] = ledger[s] /\ ledger[s] \in Seq(Headers)
    BY <1>1, <1>2, <1>5
  <2>2. k \in DOMAIN ledger'[s]
    BY <1>3, <1>5, <2>1
  <2>3. ledger'[r][k] = ledger'[s][k]
    BY <1>4, <2>2 DEF Agreement, Running
  <2> QED
    BY <1>4, <2>1, <2>3
<1>6. AbstractChain!Accept(r, b)
  BY <1>1, <1>5 DEF AbstractChain!Accept
<1> QED
  BY <1>4, <1>6 DEF AbstractChain!Next

\* In such a network the ledgers implement the abstract chain of module Chain:
\* a step of the protocol adds at most one block to one ledger, the one the
\* others have at that height (checkCommit, Reset).
THEOREM LedgersImplementChain ==
  ASSUME Faultless
  PROVE  Spec => ImplementsChain
<1>1. Init => AbstractChain!Init
  BY DEF Init, AbstractChain!Init
<1>2. CInv => TypeOK /\ Agreement
  BY CertifiedAgree DEF CInv, PInv, IInv
<1>3. CInv /\ TypeOK' /\ Agreement' /\ [Next]_vars => [AbstractChain!Next]_ledger
  BY NextAccepts
<1> QED
  BY <1>1, <1>2, <1>3, SpecCertified, PTL DEF Spec, ImplementsChain, AbstractChain!Spec

-----------------------------------------------------------------------------
(* The certificate of a block, with faulty validators.                      *)

\* Two sets of M validators share one of any set that leaves out at most F:
\* N - 2 * F > F.
LEMMA QuorumsMeetIn ==
  ASSUME NEW C \in SUBSET Validators, Cardinality(Validators \ C) <= F,
         NEW P \in SUBSET Validators, NEW Q \in SUBSET Validators,
         Cardinality(P) >= M, Cardinality(Q) >= M
  PROVE  \E i \in C : i \in P /\ i \in Q
<1> DEFINE X == Validators \ C
<1>1. /\ IsFiniteSet(P) /\ IsFiniteSet(Q) /\ IsFiniteSet(X)
      /\ Cardinality(P) \in Nat /\ Cardinality(Q) \in Nat /\ Cardinality(X) \in Nat
      /\ N \in Nat \ {0} /\ M \in Nat /\ M > 0
  BY QuorumFacts, NAssumption
<1>2. SUFFICES ASSUME P \cap Q \subseteq X PROVE FALSE
  OBVIOUS
<1>3. IsFiniteSet(P \cap Q) /\ Cardinality(P \cap Q) \in Nat
  BY QuorumFacts
<1>4. Cardinality(P \cup Q) = Cardinality(P) + Cardinality(Q) - Cardinality(P \cap Q)
  BY <1>1, FS_Union
<1>5. Cardinality(P \cup Q) \in Nat /\ Cardinality(P \cup Q) <= N
  BY QuorumFacts, FS_Subset
<1>6. Cardinality(P \cap Q) <= Cardinality(X)
  BY <1>1, <1>2, FS_Subset
<1>7. Cardinality(X) <= F
  OBVIOUS
<1>8. M + M > N + F
  BY <1>1 DEF M, F
<1>9. F \in Int
  BY <1>1 DEF F
<1> QED
  BY <1>1, <1>3, <1>4, <1>5, <1>6, <1>7, <1>8, <1>9

\* With at most F validators that do not follow the protocol, whatever they
\* send and sign, at most one header of a height can gather M signatures: a
\* ledger that checks them, as the library leaves it to, never disagrees with
\* another one.
THEOREM CertificatesAreUnique ==
  ASSUME Cardinality(Validators \ Correct) <= F
  PROVE  Spec => []OneCertificate
<1>1. ASSUME CommitOnce,
             NEW m1 \in msgs, NEW m2 \in msgs,
             m1.type = "Commit", m2.type = "Commit", m1.height = m2.height,
             Certifiable(m1.height, m1.sign), Certifiable(m2.height, m2.sign)
      PROVE  m1.sign = m2.sign
  <2> DEFINE Signers(m) ==
        {i \in Validators : i \in Correct => Signed(msgs, "Commit", i, m.height, m.sign)}
  <2>1. /\ Signers(m1) \in SUBSET Validators /\ Signers(m2) \in SUBSET Validators
        /\ Cardinality(Signers(m1)) >= M /\ Cardinality(Signers(m2)) >= M
    BY <1>1 DEF Certifiable
  <2>2. Correct \in SUBSET Validators
    BY DEF Correct
  <2>3. PICK i \in Correct : i \in Signers(m1) /\ i \in Signers(m2)
    <3> HIDE DEF Signers
    <3> QED
      BY <2>1, <2>2, QuorumsMeetIn
  <2>4. /\ Signed(msgs, "Commit", i, m1.height, m1.sign)
        /\ Signed(msgs, "Commit", i, m2.height, m2.sign)
    BY <2>3
  <2>5. PICK x \in msgs : /\ x.type = "Commit" /\ x.from = i
                          /\ x.height = m1.height /\ x.sign = m1.sign
    BY <2>4 DEF Signed
  <2>6. PICK y \in msgs : /\ y.type = "Commit" /\ y.from = i
                          /\ y.height = m2.height /\ y.sign = m2.sign
    BY <2>4 DEF Signed
  <2> QED
    BY <1>1, <2>5, <2>6 DEF CommitOnce
<1>2. CommitOnce => OneCertificate
  BY <1>1 DEF OneCertificate
<1> QED
  BY <1>2, CommitsAreUnique, PTL
=============================================================================
