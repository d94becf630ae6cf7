---------------------------- MODULE PromiseProofs ----------------------------
(***************************************************************************)
(* A correct validator keeps to what it has sent, whatever number of the   *)
(* others is faulty and whatever they send: it stays in the view in which  *)
(* it has committed or pre-committed, backs one proposal per view, and     *)
(* commits only what it has pre-committed.  No node holds a (pre)commit of *)
(* a correct validator which that validator has not made.                  *)
(***************************************************************************)
EXTENDS DbftProofs

\* What a node owes to (see module DbftProofs), S being what is on the network.
Due(r, S) == IF r \in Correct THEN S ELSE {}

\* A node in order at any point of a handler.
Fit(r, d, S) ==
    /\ Good(r, d, Due(r, S))
    /\ \A m \in d.out : m.from = r
    /\ Tidy(d)
    /\ HoldsGenuine(d, S \cup d.out)
    /\ r \in Correct => Consistent(r, d, S \cup d.out) /\ Locked(r, d, S \cup d.out)

\* A correct validator that has (pre)committed keeps its view and its payloads.
Keeps(r, d, d1) ==
    r \in Correct =>
        /\ d.CommitPayloads[r] # Nil =>
            d1.ViewNumber = d.ViewNumber /\ d1.CommitPayloads[r] = d.CommitPayloads[r]
        /\ d.PreCommitPayloads[r] # Nil =>
            d1.ViewNumber = d.ViewNumber /\ d1.PreCommitPayloads[r] = d.PreCommitPayloads[r]

\* It has not (pre)committed.
Unlocked(r, d) ==
    r \in Correct => d.CommitPayloads[r] = Nil /\ d.PreCommitPayloads[r] = Nil

\* A call that leaves the node in order, and one that besides stores nothing in
\* the slots.
Step(r, d, d1, S) == Fit(r, d1, S) /\ Keeps(r, d, d1)

Still(r, d, d1, S) ==
    /\ Step(r, d, d1, S)
    /\ Same(d, d1)
    /\ d1.PreCommitPayloads = d.PreCommitPayloads

-----------------------------------------------------------------------------
(* The promises.                                                            *)

LEMMA CorrectFacts ==
  ASSUME NEW r \in Correct
  PROVE  r \in Validators /\ r \in Nodes /\ ~WatchOnly(r) /\ r \notin Byzantine
  BY ObserversAssumption DEF Correct, WatchOnly, Validators, Nodes

LEMMA DueType ==
  ASSUME NEW r, NEW S \in SUBSET Payloads
  PROVE  Due(r, S) \in SUBSET Payloads
  BY DEF Due

LEMMA FitContext ==
  ASSUME NEW r, NEW S, NEW d, Fit(r, d, S)
  PROVE  d \in Contexts /\ Sane(d) /\ Good(r, d, Due(r, S))
  BY DEF Fit, Good, Sane

LEMMA FitTypes ==
  ASSUME NEW r, NEW S, NEW d, Fit(r, d, S)
  PROVE  /\ d.BlockIndex \in Nat /\ d.ViewNumber \in Views /\ d.ViewNumber \in Nat
         /\ d.Transactions \in SUBSET Tx
         /\ d.ChangeViewPayloads \in Slots(ChangeViews)
         /\ d.LastSeenMessage \in [Validators -> Views \cup {-1}]
<1>1. d \in Contexts
  BY FitContext
<1>2. /\ d.BlockIndex \in Nat /\ d.ViewNumber \in Views
      /\ d.Transactions \in SUBSET Tx
      /\ d.ChangeViewPayloads \in Slots(ChangeViews)
      /\ d.LastSeenMessage \in [Validators -> Views \cup {-1}]
  BY <1>1 DEF Contexts
<1> QED
  BY <1>2, ViewFacts

LEMMA GenuineGrows ==
  ASSUME NEW A, NEW B, A \subseteq B
  PROVE  /\ \A m : Genuine(m, A) => Genuine(m, B)
         /\ \A item : GenuineItem(item, A) => GenuineItem(item, B)
<1>1. \A type, i, h, s : Signed(A, type, i, h, s) => Signed(B, type, i, h, s)
  BY DEF Signed
<1>2. \A m : Genuine(m, A) => Genuine(m, B)
  BY <1>1 DEF Genuine
<1> QED
  BY <1>2 DEF GenuineItem

LEMMA KeepsTransitive ==
  ASSUME NEW r, NEW d, NEW d1, NEW d2, Keeps(r, d, d1), Keeps(r, d1, d2)
  PROVE  Keeps(r, d, d2)
  BY DEF Keeps

LEMMA KeepsReflexive ==
  ASSUME NEW r, NEW d
  PROVE  Keeps(r, d, d)
  BY DEF Keeps

LEMMA KeepsUnlocked ==
  ASSUME NEW r, NEW d, NEW d1, Unlocked(r, d)
  PROVE  Keeps(r, d, d1)
  BY DEF Keeps, Unlocked

LEMMA StepTransitive ==
  ASSUME NEW r, NEW S, NEW d, NEW d1, NEW d2, Step(r, d, d1, S), Step(r, d1, d2, S)
  PROVE  Step(r, d, d2, S)
  BY KeepsTransitive DEF Step

LEMMA StepReflexive ==
  ASSUME NEW r, NEW S, NEW d, Fit(r, d, S)
  PROVE  Step(r, d, d, S) /\ Still(r, d, d, S)
  BY KeepsReflexive, FitContext, SameReflexive DEF Step, Still

LEMMA StillTransitive ==
  ASSUME NEW r, NEW S, NEW d, NEW d1, NEW d2, Still(r, d, d1, S), Still(r, d1, d2, S)
  PROVE  Still(r, d, d2, S)
  BY StepTransitive, SameTransitive DEF Still

\* What a calm call preserves.
LEMMA StillFacts ==
  ASSUME NEW r, NEW S, NEW d, NEW d1, Still(r, d, d1, S)
  PROVE  /\ Step(r, d, d1, S) /\ Fit(r, d1, S) /\ Same(d, d1) /\ d1 \in Contexts
         /\ Unlocked(r, d) => Unlocked(r, d1)
         /\ Loose(r, d, Due(r, S)) /\ Fit(r, d, S) => Loose(r, d1, Due(r, S))
         /\ RequestSentOrReceived(d1) = RequestSentOrReceived(d)
         /\ PrimaryIndex(d1) = PrimaryIndex(d)
         /\ isAntiMEVExtensionEnabled(d1) = isAntiMEVExtensionEnabled(d)
         /\ MakePreHeader(d1) = MakePreHeader(d)
         /\ MakeHeader(d1) = MakeHeader(d)
         /\ d1.BlockIndex = d.BlockIndex /\ d1.ViewNumber = d.ViewNumber
         /\ d1.proposal = d.proposal /\ d1.blockProcessed = d.blockProcessed
         /\ d1.PreparationPayloads = d.PreparationPayloads
         /\ d1.PreCommitPayloads = d.PreCommitPayloads
         /\ d1.CommitPayloads = d.CommitPayloads
<1>1. Unlocked(r, d) => Unlocked(r, d1)
  BY DEF Still, Same, Unlocked
<1>2. Loose(r, d, Due(r, S)) /\ Fit(r, d, S) => Loose(r, d1, Due(r, S))
  BY SameKeepsGood DEF Still, Fit
<1> QED
  BY <1>1, <1>2, SameFacts DEF Still, Step, Same

-----------------------------------------------------------------------------
(* Calls that change no slot.                                               *)

Signing == {"PrepareRequest", "PrepareResponse", "PreCommit", "Commit"}

\* What a call may do that is none of the promises' business: keep the slots,
\* broadcast and keep payloads that do not lie.
Calm(r, d, d1, S) ==
    /\ d1.BlockIndex = d.BlockIndex
    /\ d1.ViewNumber = d.ViewNumber
    /\ d1.PreparationPayloads = d.PreparationPayloads
    /\ d1.PreCommitPayloads = d.PreCommitPayloads
    /\ d1.CommitPayloads = d.CommitPayloads
    /\ d1.proposal = d.proposal
    /\ d1.preBlockProcessed = d.preBlockProcessed \/ isAntiMEVExtensionEnabled(d)
    /\ \A m \in d1.cache : m \in d.cache \/ Genuine(m, S \cup d.out)
    /\ \A item \in RangeOf(d1.todo) : item \in RangeOf(d.todo) \/ GenuineItem(item, S \cup d.out)
    /\ d.out \subseteq d1.out
    /\ \A m \in d1.out \ d.out :
        m.type \notin Signing /\ m.from = r /\ Genuine(m, S \cup d.out)

LEMMA CalmStep ==
  ASSUME NEW r, NEW S, NEW d, Fit(r, d, S), NEW d1, Good(r, d1, Due(r, S)),
         Calm(r, d, d1, S)
  PROVE  Step(r, d, d1, S)
<1> DEFINE A == S \cup d.out
           A1 == S \cup d1.out
<1>1. A \subseteq A1 /\ \A m \in A1 : m \in A \/ m.type \notin Signing
  BY DEF Calm
<1>2. /\ PrimaryIndex(d1) = PrimaryIndex(d)
      /\ RequestSentOrReceived(d1) = RequestSentOrReceived(d)
      /\ isAntiMEVExtensionEnabled(d1) = isAntiMEVExtensionEnabled(d)
      /\ MakePreHeader(d1) = MakePreHeader(d)
  BY DEF Calm, PrimaryIndex, RequestSentOrReceived, isAntiMEVExtensionEnabled, MakePreHeader
<1>3. \A m \in d1.out : m.from = r
  BY DEF Fit, Calm
<1>4. Tidy(d1)
  BY <1>2 DEF Fit, Tidy, Calm
<1>5. HoldsGenuine(d1, A1)
  <2>1. HoldsGenuine(d, A)
    BY DEF Fit
  <2>2. \A m : Genuine(m, A) => Genuine(m, A1)
    BY <1>1, GenuineGrows
  <2>3. \A item : GenuineItem(item, A) => GenuineItem(item, A1)
    BY <1>1, GenuineGrows
  <2>4. \A m \in d1.cache \cup d1.out : Genuine(m, A1)
    BY <2>1, <2>2 DEF HoldsGenuine, Calm
  <2>5. \A item \in RangeOf(d1.todo) : GenuineItem(item, A1)
    BY <2>1, <2>3 DEF HoldsGenuine, Calm
  <2> QED
    BY <2>1, <2>2, <2>4, <2>5 DEF HoldsGenuine, Calm
<1>6. ASSUME r \in Correct
      PROVE  Consistent(r, d1, A1) /\ Locked(r, d1, A1)
  <2>1. Prepared(r, A1) = Prepared(r, A)
    BY <1>1 DEF Prepared, Signing
  <2>2. Consistent(r, d1, A1)
    BY <1>2, <1>6, <2>1 DEF Fit, Consistent, Calm
  <2>3. \A m \in A1 : m.type \in {"PreCommit", "Commit"} => m \in A
    BY <1>1 DEF Signing
  <2>4. Locked(r, d, A)
    BY <1>6 DEF Fit
  <2>5. Locked(r, d1, A1)
    BY <1>1, <1>2, <2>3, <2>4 DEF Locked, Calm
  <2> QED
    BY <2>2, <2>5
<1>7. Keeps(r, d, d1)
  BY DEF Keeps, Calm
<1> QED
  BY <1>3, <1>4, <1>5, <1>6, <1>7 DEF Step, Fit

LEMMA CalmStill ==
  ASSUME NEW r, NEW S, NEW d, Fit(r, d, S), NEW d1, Same(d, d1), Calm(r, d, d1, S)
  PROVE  Still(r, d, d1, S)
<1>1. Good(r, d1, Due(r, S))
  BY SameKeepsGood DEF Fit
<1> QED
  BY <1>1, CalmStep DEF Still, Calm

\* The fields whose change is none to the promises.
LEMMA FieldStill ==
  ASSUME NEW r, NEW S, NEW d, Fit(r, d, S)
  PROVE  /\ \A x \in Slots(ChangeViews) :
                Still(r, d, [d EXCEPT !.ChangeViewPayloads = x], S)
         /\ \A x \in [Validators -> Views \cup {-1}] :
                Still(r, d, [d EXCEPT !.LastSeenMessage = x], S)
         /\ \A x \in SUBSET Tx : Still(r, d, [d EXCEPT !.Transactions = x], S)
         /\ \A x \in Seq(Tx) : Still(r, d, [d EXCEPT !.MissingTransactions = x], S)
         /\ \A x \in BOOLEAN : Still(r, d, [d EXCEPT !.txSubscriptionOn = x], S)
         /\ \A x \in [height : Nat, view : Views, armed : BOOLEAN] :
                Still(r, d, [d EXCEPT !.timer = x], S)
         /\ \A x \in BOOLEAN : Still(r, d, [d EXCEPT !.panicked = x], S)
         /\ \A x \in Seq(TimerCalls) : Still(r, d, [d EXCEPT !.calls = x], S)
<1>0. d \in Contexts
  BY FitContext
<1>1. ASSUME NEW x \in Slots(ChangeViews)
      PROVE  Still(r, d, [d EXCEPT !.ChangeViewPayloads = x], S)
  <2>1. Same(d, [d EXCEPT !.ChangeViewPayloads = x])
    BY <1>0, FieldSame
  <2>2. Calm(r, d, [d EXCEPT !.ChangeViewPayloads = x], S)
    BY <1>0 DEF Contexts, Calm
  <2> QED
    BY <2>1, <2>2, CalmStill
<1>2. ASSUME NEW x \in [Validators -> Views \cup {-1}]
      PROVE  Still(r, d, [d EXCEPT !.LastSeenMessage = x], S)
  <2>1. Same(d, [d EXCEPT !.LastSeenMessage = x])
    BY <1>0, FieldSame
  <2>2. Calm(r, d, [d EXCEPT !.LastSeenMessage = x], S)
    BY <1>0 DEF Contexts, Calm
  <2> QED
    BY <2>1, <2>2, CalmStill
<1>3. ASSUME NEW x \in SUBSET Tx
      PROVE  Still(r, d, [d EXCEPT !.Transactions = x], S)
  <2>1. Same(d, [d EXCEPT !.Transactions = x])
    BY <1>0, FieldSame
  <2>2. Calm(r, d, [d EXCEPT !.Transactions = x], S)
    BY <1>0 DEF Contexts, Calm
  <2> QED
    BY <2>1, <2>2, CalmStill
<1>4. ASSUME NEW x \in Seq(Tx)
      PROVE  Still(r, d, [d EXCEPT !.MissingTransactions = x], S)
  <2>1. Same(d, [d EXCEPT !.MissingTransactions = x])
    BY <1>0, FieldSame
  <2>2. Calm(r, d, [d EXCEPT !.MissingTransactions = x], S)
    BY <1>0 DEF Contexts, Calm
  <2> QED
    BY <2>1, <2>2, CalmStill
<1>5. ASSUME NEW x \in BOOLEAN
      PROVE  Still(r, d, [d EXCEPT !.txSubscriptionOn = x], S)
  <2>1. Same(d, [d EXCEPT !.txSubscriptionOn = x])
    BY <1>0, FieldSame
  <2>2. Calm(r, d, [d EXCEPT !.txSubscriptionOn = x], S)
    BY <1>0 DEF Contexts, Calm
  <2> QED
    BY <2>1, <2>2, CalmStill
<1>6. ASSUME NEW x \in [height : Nat, view : Views, armed : BOOLEAN]
      PROVE  Still(r, d, [d EXCEPT !.timer = x], S)
  <2>1. Same(d, [d EXCEPT !.timer = x])
    BY <1>0, FieldSame
  <2>2. Calm(r, d, [d EXCEPT !.timer = x], S)
    BY <1>0 DEF Contexts, Calm
  <2> QED
    BY <2>1, <2>2, CalmStill
<1>7. ASSUME NEW x \in BOOLEAN
      PROVE  Still(r, d, [d EXCEPT !.panicked = x], S)
  <2>1. Same(d, [d EXCEPT !.panicked = x])
    BY <1>0, FieldSame
  <2>2. Calm(r, d, [d EXCEPT !.panicked = x], S)
    BY <1>0 DEF Contexts, Calm
  <2> QED
    BY <2>1, <2>2, CalmStill
<1>8. ASSUME NEW x \in Seq(TimerCalls)
      PROVE  Still(r, d, [d EXCEPT !.calls = x], S)
  <2>1. Same(d, [d EXCEPT !.calls = x])
    BY <1>0, FieldSame
  <2>2. Calm(r, d, [d EXCEPT !.calls = x], S)
    BY <1>0 DEF Contexts, Calm
  <2> QED
    BY <2>1, <2>2, CalmStill
<1> QED
  BY <1>1, <1>2, <1>3, <1>4, <1>5, <1>6, <1>7, <1>8

\* Fewer payloads in the cache.
LEMMA CacheStill ==
  ASSUME NEW r, NEW S, NEW d, Fit(r, d, S), NEW x \in SUBSET Restorable,
         \A m \in x : m \in d.cache \/ Genuine(m, S \cup d.out)
  PROVE  Still(r, d, [d EXCEPT !.cache = x], S)
<1>1. d \in Contexts
  BY FitContext
<1>2. Same(d, [d EXCEPT !.cache = x])
  BY <1>1, FieldSame
<1>3. Calm(r, d, [d EXCEPT !.cache = x], S)
  BY <1>1 DEF Contexts, Calm
<1> QED
  BY <1>2, <1>3, CalmStill

\* The stack of work may grow by what does not lie.
LEMMA TodoStill ==
  ASSUME NEW r, NEW S, NEW d, Fit(r, d, S), NEW x \in Seq(WorkItems),
         \A item \in RangeOf(x) : item \in RangeOf(d.todo) \/ GenuineItem(item, S \cup d.out)
  PROVE  Still(r, d, [d EXCEPT !.todo = x], S)
<1>1. d \in Contexts
  BY FitContext
<1>2. Same(d, [d EXCEPT !.todo = x])
  BY <1>1, FieldSame
<1>3. Calm(r, d, [d EXCEPT !.todo = x], S)
  BY <1>1 DEF Contexts, Calm
<1> QED
  BY <1>2, <1>3, CalmStill

LEMMA ConcatRange ==
  ASSUME NEW T, NEW s \in Seq(T), NEW t \in Seq(T)
  PROVE  /\ s \o t \in Seq(T)
         /\ \A x \in RangeOf(s \o t) : x \in RangeOf(s) \/ x \in RangeOf(t)
<1> DEFINE u == s \o t
<1>1. u \in Seq(T) /\ Len(u) = Len(s) + Len(t) /\ Len(s) \in Nat /\ Len(t) \in Nat
  OBVIOUS
<1>2. DOMAIN u = 1 .. Len(u) /\ DOMAIN s = 1 .. Len(s) /\ DOMAIN t = 1 .. Len(t)
  BY <1>1
<1>3. \A i \in 1 .. Len(s) + Len(t) :
        u[i] = IF i <= Len(s) THEN s[i] ELSE t[i - Len(s)]
  OBVIOUS
<1> HIDE DEF u
<1>4. \A i \in DOMAIN u :
        \/ i \in DOMAIN s /\ u[i] = s[i]
        \/ i - Len(s) \in DOMAIN t /\ u[i] = t[i - Len(s)]
  BY <1>1, <1>2, <1>3
<1> QED
  BY <1>1, <1>4 DEF RangeOf, u

LEMMA FiveRange ==
  ASSUME NEW a, NEW b, NEW c, NEW d, NEW e
  PROVE  RangeOf(<<a, b, c, d, e>>) = {a, b, c, d, e}
  BY DEF RangeOf

LEMMA PushStill ==
  ASSUME NEW r, NEW S, NEW d, Fit(r, d, S), NEW items \in Seq(WorkItems),
         \A item \in RangeOf(items) : GenuineItem(item, S \cup d.out)
  PROVE  Still(r, d, Push(d, items), S)
<1>1. d.todo \in Seq(WorkItems)
  BY FitContext DEF Contexts
<1>2. /\ items \o d.todo \in Seq(WorkItems)
      /\ \A item \in RangeOf(items \o d.todo) :
            item \in RangeOf(items) \/ item \in RangeOf(d.todo)
  BY <1>1, ConcatRange
<1> QED
  BY <1>2, TodoStill DEF Push

LEMMA BroadcastStill ==
  ASSUME NEW r, NEW S, NEW d, Fit(r, d, S), NEW m \in Payloads,
         m.type \notin Signing, m.from = r, Genuine(m, S \cup d.out)
  PROVE  Still(r, d, Broadcast(d, m), S)
<1>1. d \in Contexts
  BY FitContext
<1>2. Same(d, Broadcast(d, m))
  BY <1>1, BroadcastSame DEF Signing
<1>3. Calm(r, d, Broadcast(d, m), S)
  BY <1>1 DEF Contexts, Calm, Broadcast
<1> QED
  BY <1>2, <1>3, CalmStill

-----------------------------------------------------------------------------
(* The timer, transactions and recovery requests.                           *)

LEMMA CallStill ==
  ASSUME NEW r, NEW S, NEW d, Fit(r, d, S), NEW op \in CallNames
  PROVE  Still(r, d, Call(d, op), S)
<1> DEFINE call == [op |-> op, height |-> d.BlockIndex, view |-> d.ViewNumber]
<1>1. d.BlockIndex \in Nat /\ d.ViewNumber \in Views /\ d.calls \in Seq(TimerCalls)
  BY FitContext DEF Contexts
<1>2. call \in TimerCalls
  BY <1>1 DEF TimerCalls
<1> HIDE DEF call
<1>3. Append(d.calls, call) \in Seq(TimerCalls)
  BY <1>1, <1>2
<1> QED
  BY <1>3, FieldStill DEF Call, call

LEMMA changeTimerStill ==
  ASSUME NEW r, NEW S, NEW d, Fit(r, d, S), NEW op \in CallNames
  PROVE  Still(r, d, changeTimer(d, op), S)
<1> DEFINE timer == [height |-> d.BlockIndex, view |-> d.ViewNumber, armed |-> TRUE]
<1>1. d.BlockIndex \in Nat /\ d.ViewNumber \in Views
  BY FitContext DEF Contexts
<1>2. timer \in [height : Nat, view : Views, armed : BOOLEAN]
  BY <1>1
<1> HIDE DEF timer
<1>3. Still(r, d, Call(d, op), S) /\ Fit(r, Call(d, op), S)
  BY CallStill, StillFacts
<1>4. Still(r, Call(d, op), [Call(d, op) EXCEPT !.timer = timer], S)
  BY <1>2, <1>3, FieldStill
<1> QED
  BY <1>3, <1>4, StillTransitive DEF changeTimer, timer

LEMMA extendTimerStill ==
  ASSUME NEW r, NEW S, NEW d, Fit(r, d, S), NEW op \in CallNames
  PROVE  Still(r, d, extendTimer(r, d, op), S)
  BY StepReflexive, CallStill DEF extendTimer

LEMMA waitForTransactionsStill ==
  ASSUME NEW r, NEW S, NEW d, Fit(r, d, S), NEW op \in CallNames
  PROVE  Still(r, d, waitForTransactions(d, op), S)
<1> DEFINE d1 == [d EXCEPT !.txSubscriptionOn = TRUE]
<1>1. Still(r, d, d1, S) /\ Fit(r, d1, S)
  BY FieldStill, StillFacts
<1>2. Still(r, d1, changeTimer(d1, op), S)
  BY <1>1, changeTimerStill
<1> QED
  BY <1>1, <1>2, StillTransitive DEF waitForTransactions

LEMMA armTimerStill ==
  ASSUME NEW r, NEW S, NEW d, Fit(r, d, S), NEW view
  PROVE  Still(r, d, armTimer(r, d, view), S)
<1>1. /\ Still(r, d, changeTimer(d, "propose"), S)
      /\ Still(r, d, changeTimer(d, "proposeAtOnce"), S)
      /\ Still(r, d, changeTimer(d, "await"), S)
  BY Names, changeTimerStill
<1> QED
  BY <1>1, StepReflexive DEF armTimer

LEMMA panicStill ==
  ASSUME NEW r, NEW S, NEW d, Fit(r, d, S)
  PROVE  Still(r, d, panic(d), S)
<1> DEFINE d1 == [d EXCEPT !.panicked = TRUE]
<1>1. Still(r, d, d1, S) /\ Fit(r, d1, S)
  BY FieldStill, StillFacts
<1>2. <<>> \in Seq(WorkItems) /\ RangeOf(<<>>) = {}
  BY DEF RangeOf
<1>3. Still(r, d1, [d1 EXCEPT !.todo = <<>>], S)
  BY <1>1, <1>2, TodoStill
<1>4. panic(d) = [d1 EXCEPT !.todo = <<>>]
  BY FitContext DEF panic, Contexts
<1> QED
  BY <1>1, <1>3, <1>4, StillTransitive

LEMMA processMissingTxStill ==
  ASSUME NEW r, NEW S, NEW d, Fit(r, d, S), NEW e
  PROVE  Still(r, d, processMissingTx(d, e), S)
<1>1. d \in Contexts
  BY FitContext
<1>2. Same(d, processMissingTx(d, e))
  BY <1>1, processMissingTxSame
<1>3. Calm(r, d, processMissingTx(d, e), S)
  BY <1>1 DEF Contexts, Calm, processMissingTx
<1> QED
  BY <1>2, <1>3, CalmStill

LEMMA deleteMissingStill ==
  ASSUME NEW r, NEW S, NEW d, Fit(r, d, S), NEW i \in Nat
  PROVE  Still(r, d, deleteMissing(d, i), S)
<1>1. d \in Contexts
  BY FitContext
<1>2. Same(d, deleteMissing(d, i))
  BY <1>1, deleteMissingSame
<1>3. CASE deleteMissing(d, i) = panic(d)
  BY <1>3, panicStill
<1>4. CASE deleteMissing(d, i) # panic(d)
  <2>1. Calm(r, d, deleteMissing(d, i), S)
    BY <1>1, <1>4 DEF Contexts, Calm, deleteMissing
  <2> QED
    BY <1>2, <2>1, CalmStill
<1> QED
  BY <1>3, <1>4

LEMMA sendRecoveryRequestStill ==
  ASSUME NEW r \in Validators, NEW S, NEW d, Fit(r, d, S), NEW e
  PROVE  Still(r, d, sendRecoveryRequest(r, d, e), S)
<1> DEFINE d1 == IF RequestSentOrReceived(d) /\ ~hasAllTransactions(d)
                 THEN processMissingTx(d, e)
                 ELSE d
           msg == RecoveryRequestMsg(d1.BlockIndex, d1.ViewNumber, r)
<1>1. Still(r, d, d1, S)
  BY StepReflexive, processMissingTxStill
<1> HIDE DEF d1
<1>2. d1 \in Contexts /\ Fit(r, d1, S)
  BY <1>1, StillFacts
<1>3. /\ msg \in Payloads
      /\ msg.type = "RecoveryRequest"
      /\ msg.from = r
  BY <1>2 DEF RecoveryRequestMsg, RecoveryRequests, Payloads, Contexts
<1> HIDE DEF msg
<1>4. Still(r, d1, Broadcast(d1, msg), S)
  BY <1>2, <1>3, BroadcastStill DEF Signing, Genuine
<1> QED
  BY <1>1, <1>4, StillTransitive DEF sendRecoveryRequest, d1, msg

LEMMA broadcastChangeViewStill ==
  ASSUME NEW r \in Validators, NEW S, NEW d, Fit(r, d, S)
  PROVE  Still(r, d, broadcastChangeView(r, d), S)
<1> DEFINE m == makeChangeView(r, d)
<1>1. d \in Contexts
  BY FitContext
<1>2. Same(d, broadcastChangeView(r, d))
  BY <1>1, broadcastChangeViewSame
<1>3. m.type = "ChangeView" /\ m.from = r
  BY DEF makeChangeView, ChangeViewMsg
<1>4. Genuine(m, S \cup d.out)
  BY <1>3 DEF Genuine
<1> HIDE DEF m
<1>5. Calm(r, d, broadcastChangeView(r, d), S)
  BY <1>1, <1>3, <1>4 DEF Contexts, Calm, broadcastChangeView, Broadcast, m, Signing
<1> QED
  BY <1>2, <1>5, CalmStill

\* A recovery message packs payloads of the node, at the height they are of.
LEMMA RecoveryGenuine ==
  ASSUME NEW r \in Validators, NEW S, NEW d, Fit(r, d, S)
  PROVE  Genuine(makeRecoveryMessage(r, d), S \cup d.out)
<1> DEFINE msg == makeRecoveryMessage(r, d)
           A == S \cup d.out
<1>0. d \in Contexts /\ Sane(d) /\ HoldsGenuine(d, A)
  BY FitContext DEF Fit
<1>1. /\ Sane(d) /\ HoldsGenuine(d, A)
      /\ d.PreCommitPayloads \in Slots(PreCommits)
      /\ d.CommitPayloads \in Slots(Commits)
  BY <1>0 DEF Contexts
<1>2. /\ msg.type = "RecoveryMessage"
      /\ msg.height = d.BlockIndex
      /\ msg.preCommitPayloads \subseteq
            {[from |-> m.from, sign |-> m.sign] : m \in PayloadsOf(d.PreCommitPayloads)}
      /\ msg.commitPayloads \subseteq
            {[from |-> m.from, sign |-> m.sign] : m \in PayloadsOf(d.CommitPayloads)}
  BY DEF makeRecoveryMessage
<1> HIDE DEF msg
<1>3. ASSUME NEW c \in msg.preCommitPayloads, c.from \in Correct
      PROVE  Signed(A, "PreCommit", c.from, msg.height, c.sign)
  <2>1. PICK i \in Validators : /\ d.PreCommitPayloads[i] # Nil
                                /\ c.from = d.PreCommitPayloads[i].from
                                /\ c.sign = d.PreCommitPayloads[i].sign
    BY <1>2 DEF PayloadsOf
  <2>2. d.PreCommitPayloads[i].type = "PreCommit"
    BY <1>1, <2>1 DEF Slots, PreCommits
  <2>3. /\ Genuine(d.PreCommitPayloads[i], A)
        /\ d.PreCommitPayloads[i].height = d.BlockIndex
    BY <1>1, <2>1 DEF HoldsGenuine
  <2> QED
    BY <1>2, <1>3, <2>1, <2>2, <2>3 DEF Genuine
<1>4. ASSUME NEW c \in msg.commitPayloads, c.from \in Correct
      PROVE  Signed(A, "Commit", c.from, msg.height, c.sign)
  <2>1. PICK i \in Validators : /\ d.CommitPayloads[i] # Nil
                                /\ c.from = d.CommitPayloads[i].from
                                /\ c.sign = d.CommitPayloads[i].sign
    BY <1>2 DEF PayloadsOf
  <2>2. d.CommitPayloads[i].type = "Commit" /\ d.CommitPayloads[i].height = d.BlockIndex
    BY <1>1, <2>1 DEF Slots, Commits, Sane
  <2>3. Genuine(d.CommitPayloads[i], A)
    BY <1>1, <2>1 DEF HoldsGenuine
  <2> QED
    BY <1>2, <1>4, <2>1, <2>2, <2>3 DEF Genuine
<1> QED
  BY <1>2, <1>3, <1>4 DEF Genuine, msg

LEMMA sendRecoveryMessageStill ==
  ASSUME NEW r \in Validators, NEW S, NEW d, Fit(r, d, S)
  PROVE  Still(r, d, sendRecoveryMessage(r, d), S)
<1>1. makeRecoveryMessage(r, d) \in RecoveryMessages /\ makeRecoveryMessage(r, d).from = r
  BY FitContext, makeRecoveryMessageType DEF makeRecoveryMessage
<1>2. makeRecoveryMessage(r, d) \in Payloads /\ makeRecoveryMessage(r, d).type \notin Signing
  BY <1>1 DEF Payloads, RecoveryMessages, Signing
<1> QED
  BY <1>1, <1>2, RecoveryGenuine, BroadcastStill DEF sendRecoveryMessage

LEMMA onRecoveryRequestStill ==
  ASSUME NEW r \in Nodes, NEW S, NEW d, Fit(r, d, S), NEW msg
  PROVE  Still(r, d, onRecoveryRequest(r, d, msg), S)
  BY NodeFacts, StepReflexive, sendRecoveryMessageStill DEF onRecoveryRequest

LEMMA addMessageStill ==
  ASSUME NEW r, NEW S, NEW d, Fit(r, d, S), NEW m \in Payloads, Genuine(m, S \cup d.out)
  PROVE  Still(r, d, addMessage(d, m), S)
<1>1. d.cache \in SUBSET Restorable
  BY FitContext DEF Contexts
<1>2. CASE m.type \in {"RecoveryRequest", "RecoveryMessage"}
  BY <1>2, StepReflexive DEF addMessage
<1>3. CASE m.type \notin {"RecoveryRequest", "RecoveryMessage"}
  <2>1. {x \in d.cache : ~SameSlot(x, m)} \cup {m} \in SUBSET Restorable
    BY <1>1, <1>3, PayloadTypes
  <2> QED
    BY <1>3, <2>1, CacheStill DEF addMessage
<1> QED
  BY <1>2, <1>3

-----------------------------------------------------------------------------
(* Commits and PreCommits.                                                  *)

\* A correct validator whose own commit is stored has sent it.
LEMMA OwnCommit ==
  ASSUME NEW r \in Correct, NEW S \in SUBSET Payloads, NEW d, Fit(r, d, S)
  PROVE  /\ d.CommitPayloads[r] # Nil => Bound(r, d, S) /\ RequestSentOrReceived(d)
         /\ d.PreCommitPayloads[r] # Nil => RequestSentOrReceived(d)
         /\ \A h, s : Signed(S \cup d.out, "Commit", r, h, s) =>
                h < d.BlockIndex \/ d.CommitPayloads[r] # Nil
         /\ \A h, s : Signed(S \cup d.out, "PreCommit", r, h, s) =>
                h < d.BlockIndex \/ d.PreCommitPayloads[r] # Nil
<1>1. /\ r \in Validators /\ ~WatchOnly(r) /\ Due(r, S) = S
      /\ Locked(r, d, S \cup d.out) /\ Sworn(r, d, S) /\ Sane(d)
  BY CorrectFacts DEF Due, Fit, Good
<1>2. d.BlockIndex \in Nat /\ d.CommitPayloads \in Slots(Commits)
  BY <1>1 DEF Sane, Contexts
<1>3. ASSUME d.CommitPayloads[r] # Nil
      PROVE  Bound(r, d, S) /\ RequestSentOrReceived(d)
  <2> DEFINE own == d.CommitPayloads[r]
  <2>1. own \in S \cup d.out /\ own.from = r /\ own.height = d.BlockIndex /\ own.type = "Commit"
    BY <1>1, <1>2, <1>3 DEF Locked, Sane, Slots, Commits
  <2>2. own \in Sent(r, d, S)
    BY <2>1 DEF Sent
  <2>3. ~Free(r, d, S)
    BY <1>2, <2>1, <2>2 DEF Free
  <2>4. Bound(r, d, S)
    BY <1>1, <2>3 DEF Sworn
  <2> QED
    BY <2>4 DEF Bound
<1>4. ASSUME NEW h, NEW s, Signed(S \cup d.out, "Commit", r, h, s)
      PROVE  h < d.BlockIndex \/ d.CommitPayloads[r] # Nil
  <2>1. PICK m \in Sent(r, d, S) : m.height = h
    BY <1>4 DEF Signed, Sent
  <2> QED
    BY <1>1, <2>1 DEF Sworn, Free, Bound
<1>5. d.PreCommitPayloads[r] # Nil => RequestSentOrReceived(d)
  BY <1>1 DEF Locked
<1>6. \A h, s : Signed(S \cup d.out, "PreCommit", r, h, s) =>
         h < d.BlockIndex \/ d.PreCommitPayloads[r] # Nil
  BY <1>1 DEF Locked, Signed
<1> QED
  BY <1>3, <1>4, <1>5, <1>6

\* A node that has no request has not (pre)committed in its view.
LEMMA NoRequestUnlocked ==
  ASSUME NEW r, NEW S \in SUBSET Payloads, NEW d, Fit(r, d, S), ~RequestSentOrReceived(d)
  PROVE  Unlocked(r, d) /\ Loose(r, d, Due(r, S))
<1>1. Unlocked(r, d)
  BY OwnCommit DEF Unlocked
<1>2. Loose(r, d, Due(r, S))
  BY NotBound DEF Fit
<1> QED
  BY <1>1, <1>2

LEMMA NothingSentUnlocked ==
  ASSUME NEW r, NEW S \in SUBSET Payloads, NEW d, Fit(r, d, S),
         ~CommitSent(r, d), ~PreCommitSent(r, d)
  PROVE  Unlocked(r, d) /\ Loose(r, d, Due(r, S))
<1>1. Unlocked(r, d)
  BY CorrectFacts DEF Unlocked, CommitSent, PreCommitSent
<1>2. Loose(r, d, Due(r, S))
  BY NotBound DEF Fit
<1> QED
  BY <1>1, <1>2

LEMMA checkCommitStep ==
  ASSUME NEW r, NEW S, NEW d, Fit(r, d, S), HeaderReady(d), NEW e
  PROVE  Step(r, d, checkCommit(d, e), S)
<1> DEFINE d1 == [d EXCEPT !.blockProcessed = TRUE]
<1>1. d \in Contexts /\ Good(r, d, Due(r, S))
  BY FitContext
<1>2. Good(r, d1, Due(r, S))
  BY <1>1, blockProcessedGood
<1>3. Calm(r, d, d1, S)
  BY <1>1 DEF Contexts, Calm
<1>4. Step(r, d, d1, S)
  BY <1>2, <1>3, CalmStep
<1> QED
  BY <1>4, StepReflexive DEF checkCommit

\* Dropping (pre)commits of the others.
LEMMA FewerStep ==
  ASSUME NEW r, NEW S, NEW d, Fit(r, d, S), NEW d1, Good(r, d1, Due(r, S)),
         d1.BlockIndex = d.BlockIndex,
         d1.ViewNumber = d.ViewNumber,
         d1.PreparationPayloads = d.PreparationPayloads,
         d1.proposal = d.proposal,
         d1.preBlockProcessed = d.preBlockProcessed,
         d1.cache = d.cache, d1.todo = d.todo, d1.out = d.out,
         \A i \in Validators :
            /\ d1.PreCommitPayloads[i] \in {Nil, d.PreCommitPayloads[i]}
            /\ d1.CommitPayloads[i] \in {Nil, d.CommitPayloads[i]},
         r \in Correct =>
            /\ d1.PreCommitPayloads[r] = d.PreCommitPayloads[r]
            /\ d1.CommitPayloads[r] = d.CommitPayloads[r]
  PROVE  Step(r, d, d1, S) /\ (Unlocked(r, d) => Unlocked(r, d1))
<1> DEFINE A == S \cup d.out
<1>1. /\ PrimaryIndex(d1) = PrimaryIndex(d)
      /\ RequestSentOrReceived(d1) = RequestSentOrReceived(d)
      /\ isAntiMEVExtensionEnabled(d1) = isAntiMEVExtensionEnabled(d)
      /\ MakePreHeader(d1) = MakePreHeader(d)
  BY DEF PrimaryIndex, RequestSentOrReceived, isAntiMEVExtensionEnabled, MakePreHeader
<1>2. \A m \in d1.out : m.from = r
  BY DEF Fit
<1>3. Tidy(d1)
  <2>1. Tidy(d)
    BY DEF Fit
  <2>2. d1.PreCommitPayloads \in [Validators -> PreCommits \cup {Nil}]
    BY DEF Good, Sane, Contexts, Slots
  <2>3. d.PreCommitPayloads = NoPayloads => d1.PreCommitPayloads = NoPayloads
    BY <2>2 DEF NoPayloads
  <2> QED
    BY <1>1, <2>1, <2>3 DEF Tidy
<1>4. HoldsGenuine(d1, A)
  <2>1. HoldsGenuine(d, A)
    BY DEF Fit
  <2> QED
    BY <2>1 DEF HoldsGenuine
<1>5. ASSUME r \in Correct
      PROVE  Consistent(r, d1, A) /\ Locked(r, d1, A)
  <2>1. Consistent(r, d, A) /\ Locked(r, d, A)
    BY <1>5 DEF Fit
  <2>2. Consistent(r, d1, A)
    BY <1>1, <2>1 DEF Consistent
  <2>3. Locked(r, d1, A)
    BY <1>1, <1>5, <2>1 DEF Locked
  <2> QED
    BY <2>2, <2>3
<1>6. Keeps(r, d, d1) /\ (Unlocked(r, d) => Unlocked(r, d1))
  BY DEF Keeps, Unlocked
<1> QED
  BY <1>2, <1>3, <1>4, <1>5, <1>6 DEF Step, Fit

\* The check of the PreCommits against the PreBlock keeps the node's own, which
\* is of the proposal of its view.
LEMMA verifyPreCommitsStep ==
  ASSUME NEW r \in Nodes, NEW S, NEW d, Fit(r, d, S)
  PROVE  LET d1 == verifyPreCommitPayloadsAgainstPreBlock(d)
         IN  Step(r, d, d1, S) /\ (Unlocked(r, d) => Unlocked(r, d1))
<1> DEFINE preBlock == MakePreHeader(d)
           Bad(m) == m # Nil /\ m.view = d.ViewNumber /\ preBlock # Nil /\ m.sign # preBlock
           kept == [i \in Validators |-> IF Bad(d.PreCommitPayloads[i]) THEN Nil
                                         ELSE d.PreCommitPayloads[i]]
           d1 == [d EXCEPT !.PreCommitPayloads = kept]
<1>1. d \in Contexts /\ Good(r, d, Due(r, S))
  BY FitContext
<1>2. Same(d, verifyPreCommitPayloadsAgainstPreBlock(d))
  BY <1>1, verifyPreCommitsSame
<1>3. CASE ~hasAllTransactions(d)
  BY <1>3, StepReflexive DEF verifyPreCommitPayloadsAgainstPreBlock
<1>4. CASE hasAllTransactions(d)
  <2>1. verifyPreCommitPayloadsAgainstPreBlock(d) = d1
    BY <1>4 DEF verifyPreCommitPayloadsAgainstPreBlock
  <2>2. Good(r, d1, Due(r, S))
    BY <1>1, <1>2, <2>1, SameKeepsGood
  <2>3. \A i \in Validators : kept[i] = IF Bad(d.PreCommitPayloads[i]) THEN Nil
                                        ELSE d.PreCommitPayloads[i]
    OBVIOUS
  <2>4. r \in Correct => r \in Validators /\ ~Bad(d.PreCommitPayloads[r])
    BY CorrectFacts DEF Fit, Locked, PreCommitMsg
  <2> HIDE DEF kept, Bad
  <2>5. /\ d1.BlockIndex = d.BlockIndex
        /\ d1.ViewNumber = d.ViewNumber
        /\ d1.PreparationPayloads = d.PreparationPayloads
        /\ d1.proposal = d.proposal
        /\ d1.preBlockProcessed = d.preBlockProcessed
        /\ d1.cache = d.cache /\ d1.todo = d.todo /\ d1.out = d.out
        /\ d1.CommitPayloads = d.CommitPayloads
        /\ d1.PreCommitPayloads = kept
    BY <1>1 DEF Contexts
  <2> HIDE DEF d1
  <2>6. \A i \in Validators :
            /\ d1.PreCommitPayloads[i] \in {Nil, d.PreCommitPayloads[i]}
            /\ d1.CommitPayloads[i] \in {Nil, d.CommitPayloads[i]}
    BY <2>3, <2>5
  <2>7. r \in Correct =>
            /\ d1.PreCommitPayloads[r] = d.PreCommitPayloads[r]
            /\ d1.CommitPayloads[r] = d.CommitPayloads[r]
    BY <2>3, <2>4, <2>5
  <2>8. Step(r, d, d1, S) /\ (Unlocked(r, d) => Unlocked(r, d1))
    BY <2>2, <2>5, <2>6, <2>7, FewerStep
  <2> QED
    BY <2>1, <2>8
<1> QED
  BY <1>3, <1>4

\* The check of the commits against the header keeps the node's own.
LEMMA verifyCommitsStep ==
  ASSUME NEW r \in Nodes, NEW S \in SUBSET Payloads, NEW d, Fit(r, d, S),
         \/ Loose(r, d, Due(r, S)) /\ ~RequestSentOrReceived(d)
         \/ isAntiMEVExtensionEnabled(d)
  PROVE  LET d1 == verifyCommitPayloadsAgainstHeader(d)
         IN  Step(r, d, d1, S) /\ (Unlocked(r, d) => Unlocked(r, d1))
<1> DEFINE header == MakeHeader(d)
           Bad(m) == m # Nil /\ m.view = d.ViewNumber /\ header # Nil /\ m.sign # header
           kept == [i \in Validators |-> IF Bad(d.CommitPayloads[i]) THEN Nil
                                         ELSE d.CommitPayloads[i]]
           d1 == [d EXCEPT !.CommitPayloads = kept]
<1>1. d \in Contexts /\ Sane(d) /\ Good(r, d, Due(r, S))
  BY FitContext
<1>2. verifyCommitPayloadsAgainstHeader(d) = d1
  BY DEF verifyCommitPayloadsAgainstHeader
<1>3. Good(r, d1, Due(r, S))
  BY <1>1, <1>2, verifyCommitsGood
<1>4. \A i \in Validators : kept[i] = IF Bad(d.CommitPayloads[i]) THEN Nil
                                      ELSE d.CommitPayloads[i]
  OBVIOUS
<1>5. r \in Correct => r \in Validators /\ ~Bad(d.CommitPayloads[r])
  <2>1. SUFFICES ASSUME r \in Correct, d.CommitPayloads[r] # Nil, header # Nil,
                        d.CommitPayloads[r].view = d.ViewNumber
                 PROVE  d.CommitPayloads[r].sign = header
    BY CorrectFacts
  <2>2. Bound(r, d, S) /\ RequestSentOrReceived(d)
    BY <2>1, OwnCommit
  <2>3. isAntiMEVExtensionEnabled(d)
    BY <2>2
  <2> QED
    BY <1>1, <2>1, <2>2, <2>3, HeaderFacts DEF Bound
<1> HIDE DEF kept, Bad
<1>6. /\ d1.BlockIndex = d.BlockIndex
      /\ d1.ViewNumber = d.ViewNumber
      /\ d1.PreparationPayloads = d.PreparationPayloads
      /\ d1.proposal = d.proposal
      /\ d1.preBlockProcessed = d.preBlockProcessed
      /\ d1.cache = d.cache /\ d1.todo = d.todo /\ d1.out = d.out
      /\ d1.PreCommitPayloads = d.PreCommitPayloads
      /\ d1.CommitPayloads = kept
  BY <1>1 DEF Contexts
<1> HIDE DEF d1
<1>7. \A i \in Validators :
          /\ d1.PreCommitPayloads[i] \in {Nil, d.PreCommitPayloads[i]}
          /\ d1.CommitPayloads[i] \in {Nil, d.CommitPayloads[i]}
  BY <1>4, <1>6
<1>8. r \in Correct =>
          /\ d1.PreCommitPayloads[r] = d.PreCommitPayloads[r]
          /\ d1.CommitPayloads[r] = d.CommitPayloads[r]
  BY <1>4, <1>5, <1>6
<1>9. Step(r, d, d1, S) /\ (Unlocked(r, d) => Unlocked(r, d1))
  BY <1>3, <1>6, <1>7, <1>8, FewerStep
<1> QED
  BY <1>2, <1>9

\* A node that takes part sends its own PreCommit: the one it has, or one for
\* the proposal of its view.
LEMMA sendPreCommitStep ==
  ASSUME NEW r \in Validators, NEW S \in SUBSET Payloads, NEW d, Fit(r, d, S),
         RequestSentOrReceived(d), isAntiMEVExtensionEnabled(d)
  PROVE  LET d1 == sendPreCommit(r, d)
         IN  Step(r, d, d1, S) /\ Same(d, d1) /\ d1.PreCommitPayloads[r] # Nil
<1> DEFINE m == makePreCommit(r, d)
           x == [d.PreCommitPayloads EXCEPT ![r] = m]
           d0 == [d EXCEPT !.PreCommitPayloads = x]
           d1 == [d0 EXCEPT !.out = d0.out \cup {m}]
           A == S \cup d.out
           A1 == S \cup d1.out
<1>1. /\ d \in Contexts /\ Sane(d) /\ Good(r, d, Due(r, S)) /\ HoldsGenuine(d, A)
      /\ MakePreHeader(d) \in Headers /\ MakePreHeader(d) # Nil
  BY FitContext, HeaderFacts DEF Fit
<1>2. /\ d.PreCommitPayloads \in Slots(PreCommits)
      /\ d.BlockIndex \in Nat /\ d.ViewNumber \in Views
  BY <1>1 DEF Contexts
<1>3. m \in PreCommits /\ m.from = r /\ m.height = d.BlockIndex
  <2>1. CASE d.PreCommitPayloads[r] # Nil
    BY <1>1, <1>2, <2>1 DEF makePreCommit, Slots, HoldsGenuine
  <2>2. CASE d.PreCommitPayloads[r] = Nil
    BY <1>1, <1>2, <2>2 DEF makePreCommit, PreCommitMsg, PreCommits
  <2> QED
    BY <2>1, <2>2
<1>4. m # Nil /\ m.type = "PreCommit"
  BY <1>3, PayloadNotNil DEF PreCommits, Payloads, Restorable
<1>5. d.PreCommitPayloads[r] # Nil => m = d.PreCommitPayloads[r]
  BY DEF makePreCommit
<1>6. d.PreCommitPayloads[r] = Nil =>
        m = PreCommitMsg(d.BlockIndex, d.ViewNumber, r, MakePreHeader(d))
  BY <1>1 DEF makePreCommit
<1>7. sendPreCommit(r, d) = d1
  BY <1>4 DEF sendPreCommit, Broadcast
<1>8. Same(d, d1)
  BY <1>1, <1>7, sendPreCommitSame
<1>9. Good(r, d1, Due(r, S))
  BY <1>1, <1>8, SameKeepsGood
<1> HIDE DEF m
<1>10. \A i \in Validators : x[i] = IF i = r THEN m ELSE d.PreCommitPayloads[i]
  BY <1>2 DEF Slots
<1> HIDE DEF x
<1>11. /\ d1.BlockIndex = d.BlockIndex
       /\ d1.ViewNumber = d.ViewNumber
       /\ d1.PreparationPayloads = d.PreparationPayloads
       /\ d1.proposal = d.proposal
       /\ d1.preBlockProcessed = d.preBlockProcessed
       /\ d1.cache = d.cache /\ d1.todo = d.todo
       /\ d1.CommitPayloads = d.CommitPayloads
       /\ d1.PreCommitPayloads = x
       /\ d1.out = d.out \cup {m}
  BY <1>1 DEF Contexts
<1> HIDE DEF d1
<1>12. /\ PrimaryIndex(d1) = PrimaryIndex(d)
       /\ RequestSentOrReceived(d1) = RequestSentOrReceived(d)
       /\ isAntiMEVExtensionEnabled(d1) = isAntiMEVExtensionEnabled(d)
       /\ MakePreHeader(d1) = MakePreHeader(d)
  BY <1>8, SameFacts
<1>13. A1 = A \cup {m}
  BY <1>11
<1>14. \A k \in d1.out : k.from = r
  BY <1>3, <1>11 DEF Fit
<1>15. Tidy(d1)
  BY <1>11, <1>12 DEF Fit, Tidy
<1>16. HoldsGenuine(d1, A1)
  <2>1. Genuine(m, A1)
    BY <1>4, <1>13 DEF Genuine, Signed
  <2>2. \A k : Genuine(k, A) => Genuine(k, A1)
    BY <1>13, GenuineGrows
  <2>3. \A item : GenuineItem(item, A) => GenuineItem(item, A1)
    BY <1>13, GenuineGrows
  <2>4. ASSUME NEW i \in Validators, d1.PreCommitPayloads[i] # Nil
        PROVE  /\ d1.PreCommitPayloads[i].from = i
               /\ d1.PreCommitPayloads[i].height = d1.BlockIndex
               /\ Genuine(d1.PreCommitPayloads[i], A1)
    <3>1. CASE i = r
      BY <1>3, <1>10, <1>11, <2>1, <3>1
    <3>2. CASE i # r
      BY <1>1, <1>10, <1>11, <2>2, <2>4, <3>2 DEF HoldsGenuine
    <3> QED
      BY <3>1, <3>2
  <2>5. /\ \A i \in Validators :
            d1.CommitPayloads[i] # Nil => Genuine(d1.CommitPayloads[i], A1)
        /\ \A k \in d1.cache \cup d1.out : Genuine(k, A1)
        /\ \A item \in RangeOf(d1.todo) : GenuineItem(item, A1)
    BY <1>1, <1>11, <2>1, <2>2, <2>3 DEF HoldsGenuine
  <2> QED
    BY <2>4, <2>5 DEF HoldsGenuine
<1>17. ASSUME r \in Correct
       PROVE  Consistent(r, d1, A1) /\ Locked(r, d1, A1)
  <2>1. Consistent(r, d, A) /\ Locked(r, d, A)
    BY <1>17 DEF Fit
  <2>2. Prepared(r, A1) = Prepared(r, A)
    BY <1>4, <1>13 DEF Prepared
  <2>3. Consistent(r, d1, A1)
    BY <1>11, <1>12, <2>1, <2>2 DEF Consistent
  <2>4. m = PreCommitMsg(d.BlockIndex, d.ViewNumber, r, MakePreHeader(d))
    BY <1>5, <1>6, <2>1 DEF Locked
  <2>5. d1.PreCommitPayloads[r] = m
    BY <1>10, <1>11
  <2>6. \A k \in A1 : k.type = "Commit" => k \in A
    BY <1>4, <1>13
  <2>7. \A k \in A1 : k.type = "PreCommit" /\ k.from = r =>
            k.height < d.BlockIndex \/ k.height = d.BlockIndex
    BY <1>3, <1>13, <2>1 DEF Locked
  <2>8. Locked(r, d1, A1)
    BY <1>4, <1>11, <1>12, <1>13, <2>1, <2>4, <2>5, <2>6, <2>7 DEF Locked
  <2> QED
    BY <2>3, <2>8
<1>18. Keeps(r, d, d1)
  BY <1>5, <1>10, <1>11, CorrectFacts DEF Keeps
<1> QED
  BY <1>4, <1>7, <1>8, <1>9, <1>10, <1>11, <1>14, <1>15, <1>16, <1>17, <1>18 DEF Step, Fit

\* A node that takes part sends its own Commit; with the extension a correct
\* one has sent its PreCommit for the same header in the same view.
LEMMA sendCommitStep ==
  ASSUME NEW r \in Validators, NEW S \in SUBSET Payloads, NEW d, Fit(r, d, S),
         HeaderReady(d),
         LET own == d.CommitPayloads[r]
         IN  isAntiMEVExtensionEnabled(d) /\ own # Nil /\ own.view = d.ViewNumber =>
                own.sign = MakePreHeader(d),
         isAntiMEVExtensionEnabled(d) => d.PreCommitPayloads[r] # Nil
  PROVE  LET d1 == sendCommit(r, d) IN Step(r, d, d1, S) /\ HeaderReady(d1)
<1> DEFINE m == makeCommit(r, d)
           x == [d.CommitPayloads EXCEPT ![r] = m]
           d0 == [d EXCEPT !.CommitPayloads = x]
           d1 == [d0 EXCEPT !.out = d0.out \cup {m}]
           A == S \cup d.out
           A1 == S \cup d1.out
<1>1. /\ d \in Contexts /\ Sane(d) /\ Good(r, d, Due(r, S)) /\ HoldsGenuine(d, A)
      /\ MakeHeader(d) = MakePreHeader(d)
      /\ MakeHeader(d) \in Headers /\ MakeHeader(d) # Nil
  BY FitContext, HeaderFacts DEF Fit, HeaderReady
<1>2. /\ d.CommitPayloads \in Slots(Commits)
      /\ d.BlockIndex \in Nat /\ d.ViewNumber \in Views
  BY <1>1 DEF Contexts
<1>3. m \in Commits /\ m.from = r /\ m.height = d.BlockIndex
  <2>1. CASE d.CommitPayloads[r] # Nil
    BY <1>1, <1>2, <2>1 DEF makeCommit, Slots, Sane
  <2>2. CASE d.CommitPayloads[r] = Nil
    BY <1>1, <1>2, <2>2 DEF makeCommit, CommitMsg, Commits
  <2> QED
    BY <2>1, <2>2
<1>4. m # Nil /\ m.type = "Commit"
  BY <1>3, PayloadNotNil DEF Commits, Payloads, Restorable
<1>5. d.CommitPayloads[r] # Nil => m = d.CommitPayloads[r]
  BY DEF makeCommit
<1>6. d.CommitPayloads[r] = Nil =>
        m = CommitMsg(d.BlockIndex, d.ViewNumber, r, MakePreHeader(d))
  BY <1>1 DEF makeCommit
<1>7. sendCommit(r, d) = d1
  BY <1>4 DEF sendCommit, Broadcast
<1>8. Good(r, d1, Due(r, S)) /\ HeaderReady(d1)
  BY <1>1, <1>7, DueType, sendCommitGood
<1> HIDE DEF m
<1>10. \A i \in Validators : x[i] = IF i = r THEN m ELSE d.CommitPayloads[i]
  BY <1>2 DEF Slots
<1> HIDE DEF x
<1>11. /\ d1.BlockIndex = d.BlockIndex
       /\ d1.ViewNumber = d.ViewNumber
       /\ d1.PreparationPayloads = d.PreparationPayloads
       /\ d1.proposal = d.proposal
       /\ d1.preBlockProcessed = d.preBlockProcessed
       /\ d1.cache = d.cache /\ d1.todo = d.todo
       /\ d1.PreCommitPayloads = d.PreCommitPayloads
       /\ d1.CommitPayloads = x
       /\ d1.out = d.out \cup {m}
  BY <1>1 DEF Contexts
<1> HIDE DEF d1
<1>12. /\ PrimaryIndex(d1) = PrimaryIndex(d)
       /\ RequestSentOrReceived(d1) = RequestSentOrReceived(d)
       /\ isAntiMEVExtensionEnabled(d1) = isAntiMEVExtensionEnabled(d)
       /\ MakePreHeader(d1) = MakePreHeader(d)
  BY <1>11 DEF PrimaryIndex, RequestSentOrReceived, isAntiMEVExtensionEnabled, MakePreHeader
<1>13. A1 = A \cup {m}
  BY <1>11
<1>14. \A k \in d1.out : k.from = r
  BY <1>3, <1>11 DEF Fit
<1>15. Tidy(d1)
  BY <1>11, <1>12 DEF Fit, Tidy
<1>16. HoldsGenuine(d1, A1)
  <2>1. Genuine(m, A1)
    BY <1>4, <1>13 DEF Genuine, Signed
  <2>2. \A k : Genuine(k, A) => Genuine(k, A1)
    BY <1>13, GenuineGrows
  <2>3. \A item : GenuineItem(item, A) => GenuineItem(item, A1)
    BY <1>13, GenuineGrows
  <2> QED
    BY <1>1, <1>10, <1>11, <2>1, <2>2, <2>3 DEF HoldsGenuine
<1>17. ASSUME r \in Correct
       PROVE  Consistent(r, d1, A1) /\ Locked(r, d1, A1)
  <2>1. Consistent(r, d, A) /\ Locked(r, d, A)
    BY <1>17 DEF Fit
  <2>2. Prepared(r, A1) = Prepared(r, A)
    BY <1>4, <1>13 DEF Prepared
  <2>3. Consistent(r, d1, A1)
    BY <1>11, <1>12, <2>1, <2>2 DEF Consistent
  <2>4. \A k \in A1 : k.type = "PreCommit" => k \in A
    BY <1>4, <1>13
  <2>5. d1.CommitPayloads[r] = m
    BY <1>10, <1>11
  <2>6. ASSUME 0 <= AntiMEVExtensionEnablingHeight,
               AntiMEVExtensionEnablingHeight <= m.height
        PROVE  PreCommitMsg(m.height, m.view, m.from, m.sign) \in A
    <3>1. CASE d.CommitPayloads[r] # Nil
      BY <1>3, <1>4, <1>5, <2>1, <2>6, <3>1 DEF Locked
    <3>2. CASE d.CommitPayloads[r] = Nil
      <4>1. isAntiMEVExtensionEnabled(d)
        BY <1>2, <1>3, <2>6, HeightAssumption DEF isAntiMEVExtensionEnabled
      <4>2. PreCommitMsg(d.BlockIndex, d.ViewNumber, r, MakePreHeader(d)) \in A
        BY <2>1, <4>1 DEF Locked
      <4> QED
        BY <1>6, <3>2, <4>2 DEF CommitMsg
    <3> QED
      BY <3>1, <3>2
  <2>7. Locked(r, d1, A1)
    BY <1>11, <1>12, <1>13, <2>1, <2>4, <2>5, <2>6 DEF Locked
  <2> QED
    BY <2>3, <2>7
<1>18. Keeps(r, d, d1)
  BY <1>5, <1>10, <1>11, CorrectFacts DEF Keeps
<1> QED
  BY <1>7, <1>8, <1>14, <1>15, <1>16, <1>17, <1>18 DEF Step, Fit

LEMMA preBlockProcessedStep ==
  ASSUME NEW r, NEW S, NEW d, Fit(r, d, S),
         RequestSentOrReceived(d), isAntiMEVExtensionEnabled(d)
  PROVE  LET d1 == [d EXCEPT !.preBlockProcessed = TRUE]
         IN  /\ Step(r, d, d1, S)
             /\ HeaderReady(d1)
             /\ isAntiMEVExtensionEnabled(d1)
             /\ d1.PreCommitPayloads = d.PreCommitPayloads
<1> DEFINE d1 == [d EXCEPT !.preBlockProcessed = TRUE]
<1>1. d \in Contexts /\ Good(r, d, Due(r, S))
  BY FitContext
<1>2. Good(r, d1, Due(r, S)) /\ HeaderReady(d1) /\ isAntiMEVExtensionEnabled(d1)
  BY <1>1, preBlockProcessedGood
<1>3. Calm(r, d, d1, S) /\ d1.PreCommitPayloads = d.PreCommitPayloads
  BY <1>1 DEF Contexts, Calm
<1> QED
  BY <1>2, <1>3, CalmStep

\* A node commits after its own PreCommit and for the same header.
LEMMA checkPreCommitStep ==
  ASSUME NEW r \in Nodes, NEW S \in SUBSET Payloads, NEW d, Fit(r, d, S),
         RequestSentOrReceived(d), isAntiMEVExtensionEnabled(d), NEW e
  PROVE  Step(r, d, checkPreCommit(r, d, e), S)
<1> DEFINE processed == [d EXCEPT !.preBlockProcessed = TRUE]
           verified == verifyCommitPayloadsAgainstHeader(processed)
           sent == sendCommit(r, verified)
           timed == changeTimer(sent, "commit")
<1>1. /\ Step(r, d, processed, S) /\ Fit(r, processed, S)
      /\ HeaderReady(processed) /\ isAntiMEVExtensionEnabled(processed)
      /\ processed.PreCommitPayloads = d.PreCommitPayloads
      /\ processed \in Contexts
  BY preBlockProcessedStep, FitContext DEF Step
<1>2. checkPreCommit(r, d, e)
        \in {d, processed, IF PreCommitSent(r, d) THEN checkCommit(timed, e) ELSE d}
  BY DEF checkPreCommit
<1> HIDE DEF processed
<1>3. /\ Step(r, processed, verified, S) /\ Fit(r, verified, S)
      /\ HeaderReady(verified)
      /\ \A i \in Validators :
            LET m == verified.CommitPayloads[i]
            IN  m # Nil /\ m.view = verified.ViewNumber => m.sign = MakePreHeader(verified)
      /\ verified.PreCommitPayloads = processed.PreCommitPayloads
  <2>1. Good(r, processed, Due(r, S))
    BY <1>1, FitContext
  <2>2. /\ HeaderReady(verified)
        /\ \A i \in Validators :
              LET m == verified.CommitPayloads[i]
              IN  m # Nil /\ m.view = verified.ViewNumber => m.sign = MakePreHeader(verified)
    BY <1>1, <2>1, verifyCommitsGood, Zenon
  <2>3. Step(r, processed, verified, S)
    BY <1>1, verifyCommitsStep
  <2>4. verified.PreCommitPayloads = processed.PreCommitPayloads
    BY <1>1 DEF verifyCommitPayloadsAgainstHeader, Contexts
  <2> HIDE DEF verified
  <2> QED
    BY <2>2, <2>3, <2>4 DEF Step
<1> HIDE DEF verified
<1>4. ASSUME PreCommitSent(r, d)
      PROVE  Step(r, d, checkCommit(timed, e), S)
  <2>1. r \in Validators /\ verified.PreCommitPayloads[r] # Nil
    BY <1>1, <1>3, <1>4, NodeFacts DEF PreCommitSent
  <2>2. Step(r, verified, sent, S) /\ HeaderReady(sent)
    BY <1>3, <2>1, sendCommitStep
  <2> HIDE DEF sent
  <2>3. Fit(r, sent, S)
    BY <2>2 DEF Step
  <2>4. Still(r, sent, timed, S)
    BY <2>3, Names, changeTimerStill
  <2> HIDE DEF timed
  <2>5. Step(r, sent, timed, S) /\ Fit(r, timed, S) /\ HeaderReady(timed)
    BY <2>2, <2>4, StillFacts, SameHeaderReady
  <2>6. Step(r, timed, checkCommit(timed, e), S)
    BY <2>5, checkCommitStep
  <2> QED
    BY <1>1, <1>3, <2>2, <2>5, <2>6, StepTransitive
<1> HIDE DEF timed
<1> QED
  BY <1>1, <1>2, <1>4, StepReflexive

LEMMA checkPrepareStep ==
  ASSUME NEW r \in Validators, NEW S \in SUBSET Payloads, NEW d0, Fit(r, d0, S), NEW e
  PROVE  Step(r, d0, checkPrepare(r, d0, e), S)
<1> DEFINE d == Call(d0, "checkPrepare")
<1>0. Still(r, d0, d, S)
  BY Names, CallStill
<1> HIDE DEF d
<1> DEFINE preparations == PayloadsOf(d.PreparationPayloads)
           hasRequest == \E m \in preparations : m.type = "PrepareRequest"
<1>1. /\ Sane(d) /\ r \in Nodes /\ Fit(r, d, S) /\ Step(r, d0, d, S)
      /\ Good(r, d, Due(r, S))
  BY <1>0, StillFacts, FitContext DEF Nodes
<1>2. SUFFICES ASSUME hasRequest, checkPrepare(r, d0, e) # d
               PROVE  Step(r, d, checkPrepare(r, d0, e), S)
  BY <1>1, StepTransitive DEF checkPrepare, d
<1>3. RequestSentOrReceived(d)
  BY <1>1, <1>2 DEF Sane, RequestSentOrReceived, PayloadsOf
<1>4. CASE isAntiMEVExtensionEnabled(d)
  <2> DEFINE sent == sendPreCommit(r, d)
             timed == changeTimer(sent, "commit")
  <2>1. Step(r, d, sent, S) /\ Same(d, sent)
    BY <1>1, <1>3, <1>4, sendPreCommitStep
  <2>2. checkPrepare(r, d0, e) = checkPreCommit(r, timed, e)
    BY <1>2, <1>4 DEF checkPrepare, d
  <2> HIDE DEF sent
  <2>3. RequestSentOrReceived(sent) /\ isAntiMEVExtensionEnabled(sent)
    BY <1>3, <1>4, <2>1, SameFacts
  <2>4. Still(r, sent, timed, S)
    BY <2>1, Names, changeTimerStill DEF Step
  <2> HIDE DEF timed
  <2>5. /\ Step(r, sent, timed, S) /\ Fit(r, timed, S)
        /\ RequestSentOrReceived(timed) /\ isAntiMEVExtensionEnabled(timed)
    BY <2>3, <2>4, StillFacts
  <2>6. Step(r, timed, checkPreCommit(r, timed, e), S)
    BY <1>1, <2>5, checkPreCommitStep
  <2> QED
    BY <2>1, <2>2, <2>5, <2>6, StepTransitive
<1>5. CASE ~isAntiMEVExtensionEnabled(d)
  <2> DEFINE sent == sendCommit(r, d)
             timed == changeTimer(sent, "commit")
  <2>1. HeaderReady(d)
    BY <1>3, <1>5 DEF HeaderReady
  <2>2. Step(r, d, sent, S) /\ HeaderReady(sent)
    BY <1>1, <1>5, <2>1, sendCommitStep
  <2>3. checkPrepare(r, d0, e) = checkCommit(timed, e)
    BY <1>2, <1>5 DEF checkPrepare, d
  <2> HIDE DEF sent
  <2>4. Still(r, sent, timed, S)
    BY <2>2, Names, changeTimerStill DEF Step
  <2> HIDE DEF timed
  <2>5. Step(r, sent, timed, S) /\ Fit(r, timed, S) /\ HeaderReady(timed)
    BY <2>2, <2>4, StillFacts, SameHeaderReady
  <2>6. Step(r, timed, checkCommit(timed, e), S)
    BY <2>5, checkCommitStep
  <2> QED
    BY <2>2, <2>3, <2>5, <2>6, StepTransitive
<1> QED
  BY <1>4, <1>5

-----------------------------------------------------------------------------
(* Opening a height or a view.                                              *)

\* What a correct validator has sent is of its height at most.
LEMMA SentHeights ==
  ASSUME NEW r \in Correct, NEW S \in SUBSET Payloads, NEW d, Fit(r, d, S)
  PROVE  /\ \A m \in S \cup d.out : m.height \in Nat /\ m.view \in Nat
         /\ \A m \in Prepared(r, S \cup d.out) : m.height <= d.BlockIndex
         /\ \A m \in S \cup d.out :
                m.type = "PreCommit" /\ m.from = r => m.height <= d.BlockIndex
<1>1. d \in Contexts /\ Consistent(r, d, S \cup d.out) /\ Locked(r, d, S \cup d.out)
  BY FitContext DEF Fit
<1>2. d.BlockIndex \in Nat /\ d.out \subseteq Payloads
  BY <1>1 DEF Contexts
<1>3. \A m \in S \cup d.out : m.height \in Nat /\ m.view \in Nat
  BY <1>2, PayloadTypes, ViewFacts
<1>4. \A m \in Prepared(r, S \cup d.out) : m.height <= d.BlockIndex
  <2>1. SUFFICES ASSUME NEW m \in Prepared(r, S \cup d.out)
                 PROVE  m.height <= d.BlockIndex
    OBVIOUS
  <2>2. m.height \in Nat
    BY <1>3 DEF Prepared
  <2>3. m.height < d.BlockIndex \/ m.height = d.BlockIndex
    BY <1>1 DEF Consistent
  <2> QED
    BY <1>2, <2>2, <2>3
<1>5. \A m \in S \cup d.out :
        m.type = "PreCommit" /\ m.from = r => m.height <= d.BlockIndex
  <2>1. SUFFICES ASSUME NEW m \in S \cup d.out, m.type = "PreCommit", m.from = r
                 PROVE  m.height <= d.BlockIndex
    OBVIOUS
  <2>2. m.height < d.BlockIndex \/ m.height = d.BlockIndex
    BY <1>1, <2>1 DEF Locked
  <2> QED
    BY <1>2, <1>3, <2>1, <2>2
<1> QED
  BY <1>3, <1>4, <1>5

\* A height opens with nothing stored; a view opens with the (pre)commits of
\* the height when the node has made none of its own.
LEMMA resetFit ==
  ASSUME NEW r \in Nodes, NEW S \in SUBSET Payloads, NEW d, Fit(r, d, S),
         NEW view \in Views, NEW height \in Nat,
         view = 0 => height > d.BlockIndex,
         view # 0 => /\ view > d.ViewNumber
                     /\ Unlocked(r, d) /\ Loose(r, d, Due(r, S)) /\ ~d.blockProcessed
  PROVE  LET d1 == reset(r, d, view, height)
         IN  /\ Fit(r, d1, S) /\ Unlocked(r, d1) /\ Loose(r, d1, Due(r, S))
             /\ ~d1.blockProcessed /\ ~RequestSentOrReceived(d1)
             /\ d1.cache = d.cache /\ d1.todo = d.todo /\ d1.out = d.out
<1> DEFINE d1 == reset(r, d, view, height)
           A == S \cup d.out
<1>1. /\ d \in Contexts /\ Sane(d) /\ Good(r, d, Due(r, S)) /\ HoldsGenuine(d, A)
      /\ Tidy(d) /\ Due(r, S) \in SUBSET Payloads
  BY FitContext, DueType DEF Fit
<1>2. /\ d.BlockIndex \in Nat /\ d.ViewNumber \in Nat /\ view \in Nat
      /\ d.preBlockProcessed \in BOOLEAN
  BY <1>1, ViewFacts DEF Contexts
<1>3. /\ Good(r, d1, Due(r, S)) /\ Loose(r, d1, Due(r, S))
      /\ ~d1.blockProcessed /\ ~RequestSentOrReceived(d1)
  BY <1>1, resetGood
<1>4. /\ d1.BlockIndex = IF view = 0 THEN height ELSE d.BlockIndex
      /\ d1.ViewNumber = view
      /\ d1.CommitPayloads = IF view = 0 THEN NoPayloads ELSE d.CommitPayloads
      /\ d1.PreCommitPayloads = IF view = 0 THEN NoPayloads ELSE d.PreCommitPayloads
      /\ d1.preBlockProcessed = (view # 0 /\ d.preBlockProcessed)
      /\ d1.cache = d.cache /\ d1.todo = d.todo /\ d1.out = d.out
  BY <1>1, resetFacts
<1> HIDE DEF d1
<1>5. \A i \in Validators : NoPayloads[i] = Nil
  BY DEF NoPayloads
<1>6. Unlocked(r, d1)
  BY <1>4, <1>5, CorrectFacts DEF Unlocked
<1>7. \A m \in d1.out : m.from = r
  BY <1>4 DEF Fit
<1>8. Tidy(d1)
  BY <1>1, <1>2, <1>3, <1>4 DEF Tidy, isAntiMEVExtensionEnabled
<1>9. HoldsGenuine(d1, A)
  BY <1>1, <1>4, <1>5 DEF HoldsGenuine
<1>10. ASSUME r \in Correct
       PROVE  Consistent(r, d1, A) /\ Locked(r, d1, A)
  <2>1. Consistent(r, d, A) /\ Locked(r, d, A)
    BY <1>10 DEF Fit
  <2>2. /\ \A m \in A : m.height \in Nat /\ m.view \in Nat
        /\ \A m \in Prepared(r, A) : m.height <= d.BlockIndex
        /\ \A m \in A : m.type = "PreCommit" /\ m.from = r => m.height <= d.BlockIndex
    BY <1>10, SentHeights
  <2>3. d1.CommitPayloads[r] = Nil /\ d1.PreCommitPayloads[r] = Nil
    BY <1>6, <1>10 DEF Unlocked
  <2>4. ASSUME NEW m \in Prepared(r, A)
        PROVE  \/ m.height < d1.BlockIndex
               \/ m.height = d1.BlockIndex /\ m.view < d1.ViewNumber
    <3>1. m.height \in Nat /\ m.view \in Nat /\ m.height <= d.BlockIndex
      BY <2>2, <2>4 DEF Prepared
    <3>2. \/ m.height < d.BlockIndex
          \/ m.height = d.BlockIndex /\ m.view <= d.ViewNumber
      <4>1. \/ m.height < d.BlockIndex
            \/ m.height = d.BlockIndex /\ m.view < d.ViewNumber
            \/ m.height = d.BlockIndex /\ m.view = d.ViewNumber
        BY <2>1, <2>4 DEF Consistent
      <4> QED
        BY <1>2, <3>1, <4>1
    <3> QED
      BY <1>2, <1>4, <3>1, <3>2
  <2>5. Consistent(r, d1, A)
    BY <2>1, <2>4 DEF Consistent
  <2>6. ASSUME NEW m \in A, m.type = "PreCommit", m.from = r
        PROVE  m.height < d1.BlockIndex
    <3>1. CASE view = 0
      BY <1>2, <1>4, <2>2, <2>6, <3>1
    <3>2. CASE view # 0
      <4>1. d.PreCommitPayloads[r] = Nil
        BY <1>10, <3>2 DEF Unlocked
      <4> QED
        BY <1>4, <2>1, <2>6, <3>2, <4>1 DEF Locked
    <3> QED
      BY <3>1, <3>2
  <2>7. Locked(r, d1, A)
    BY <2>1, <2>3, <2>6 DEF Locked
  <2> QED
    BY <2>5, <2>7
<1> QED
  BY <1>3, <1>4, <1>6, <1>7, <1>8, <1>9, <1>10 DEF Fit, d1

\* The mail of the cache is as genuine as the cache.
LEMMA initializeConsensusFit ==
  ASSUME NEW r \in Nodes, NEW S \in SUBSET Payloads, NEW d, Fit(r, d, S),
         NEW view \in Views, NEW height \in Nat,
         view = 0 => height > d.BlockIndex,
         view # 0 => /\ view > d.ViewNumber
                     /\ Unlocked(r, d) /\ Loose(r, d, Due(r, S)) /\ ~d.blockProcessed
  PROVE  LET d1 == initializeConsensus(r, d, view, height)
         IN  /\ Fit(r, d1, S) /\ Unlocked(r, d1) /\ Loose(r, d1, Due(r, S))
             /\ ~d1.blockProcessed /\ ~RequestSentOrReceived(d1)
<1> DEFINE d0 == reset(r, d, view, height)
           d1 == Call(d0, "reset")
           inbox == getHeight(d1, d1.BlockIndex)
           left == d1.cache \ inbox
           d2 == [d1 EXCEPT !.cache = left]
           Mail(kind) == Replay({m \in inbox : InboxOf(m.type) = kind})
           items == <<Mail("prepare"), Mail("ChangeView"), Mail("PreCommit"),
                      Mail("Commit"), [op |-> "armTimer", view |-> view]>>
           d3 == initializeConsensus(r, d, view, height)
<1>0. /\ Fit(r, d0, S) /\ Unlocked(r, d0) /\ Loose(r, d0, Due(r, S))
      /\ ~d0.blockProcessed /\ ~RequestSentOrReceived(d0)
  BY resetFit
<1> HIDE DEF d0
<1>1. Still(r, d0, d1, S)
  BY <1>0, Names, CallStill
<1>2. d3 = IF inbox = {} THEN armTimer(r, d1, view) ELSE Push(d2, items)
  BY DEF initializeConsensus, d0
<1> HIDE DEF d1, d3
<1>3. Fit(r, d1, S) /\ d1 \in Contexts
  BY <1>1, StillFacts
<1>4. d1.cache \subseteq Restorable /\ \A m \in d1.cache : Genuine(m, S \cup d1.out)
  BY <1>3 DEF Contexts, Fit, HoldsGenuine
<1>5. inbox \subseteq d1.cache
  BY DEF getHeight
<1> HIDE DEF inbox
<1>6. Still(r, d1, d2, S) /\ d2.out = d1.out
  <2>1. left \in SUBSET Restorable
    BY <1>4
  <2>2. Still(r, d1, d2, S)
    BY <1>3, <2>1, CacheStill
  <2>3. d2.out = d1.out
    BY <1>3 DEF Contexts
  <2> QED
    BY <2>2, <2>3
<1> HIDE DEF d2
<1>7. \A kind : /\ Mail(kind) \in WorkItems
                /\ GenuineItem(Mail(kind), S \cup d2.out)
  BY <1>4, <1>5, <1>6 DEF Replay, WorkItems, GenuineItem
<1>8. /\ [op |-> "armTimer", view |-> view] \in WorkItems
      /\ GenuineItem([op |-> "armTimer", view |-> view], S \cup d2.out)
  BY DEF WorkItems, GenuineItem
<1> HIDE DEF Mail
<1>9. items \in Seq(WorkItems)
  BY <1>7, <1>8
<1>10. \A item \in RangeOf(items) : GenuineItem(item, S \cup d2.out)
  <2>1. RangeOf(items) = {Mail("prepare"), Mail("ChangeView"), Mail("PreCommit"),
                          Mail("Commit"), [op |-> "armTimer", view |-> view]}
    BY FiveRange
  <2> QED
    BY <1>7, <1>8, <2>1
<1> HIDE DEF items
<1>11. Still(r, d2, Push(d2, items), S)
  <2>1. Fit(r, d2, S)
    BY <1>6 DEF Still, Step
  <2> QED
    BY <1>9, <1>10, <2>1, PushStill
<1>12. Still(r, d1, d3, S)
  BY <1>2, <1>3, <1>6, <1>11, armTimerStill, StillTransitive
<1>13. Still(r, d0, d3, S)
  BY <1>1, <1>12, StillTransitive
<1>14. /\ Fit(r, d3, S) /\ Unlocked(r, d3) /\ Loose(r, d3, Due(r, S))
       /\ ~d3.blockProcessed /\ ~RequestSentOrReceived(d3)
  BY <1>0, <1>13, StillFacts
<1> QED
  BY <1>14 DEF d3

\* Only a node that has not (pre)committed changes its view.
LEMMA checkChangeViewStep ==
  ASSUME NEW r \in Nodes, NEW S \in SUBSET Payloads, NEW d, Fit(r, d, S),
         Unlocked(r, d), Loose(r, d, Due(r, S)), ~d.blockProcessed, NEW view \in Views
  PROVE  Step(r, d, checkChangeView(r, d, view), S)
<1> DEFINE mine == IF WatchOnly(r) THEN Nil ELSE d.ChangeViewPayloads[r]
           agree == mine # Nil /\ mine.newView < view
           d1 == IF agree THEN broadcastChangeView(r, d) ELSE d
<1>1. d.BlockIndex \in Nat /\ d.ViewNumber \in Nat /\ view \in Nat
  BY FitTypes, ViewFacts
<1>2. Still(r, d, d1, S)
  BY NodeFacts, StepReflexive, broadcastChangeViewStill
<1>3. \/ checkChangeView(r, d, view) = d
      \/ ~(d.ViewNumber >= view)
         /\ checkChangeView(r, d, view) = initializeConsensus(r, d1, view, d.BlockIndex)
  BY DEF checkChangeView
<1> HIDE DEF d1
<1>4. /\ Fit(r, d1, S) /\ Unlocked(r, d1) /\ Loose(r, d1, Due(r, S)) /\ ~d1.blockProcessed
      /\ d1.ViewNumber = d.ViewNumber
  BY <1>2, StillFacts
<1>5. CASE ~(d.ViewNumber >= view)
           /\ checkChangeView(r, d, view) = initializeConsensus(r, d1, view, d.BlockIndex)
  <2>1. view # 0 /\ view > d1.ViewNumber
    BY <1>1, <1>4, <1>5
  <2>2. Fit(r, checkChangeView(r, d, view), S)
    BY <1>1, <1>4, <1>5, <2>1, initializeConsensusFit
  <2> QED
    BY <2>2, KeepsUnlocked DEF Step
<1> QED
  BY <1>3, <1>5, StepReflexive

LEMMA sendChangeViewStep ==
  ASSUME NEW r \in Nodes, NEW S \in SUBSET Payloads, NEW d, Fit(r, d, S),
         Unlocked(r, d), Loose(r, d, Due(r, S)), ~d.blockProcessed, NEW e, NEW reason
  PROVE  Step(r, d, sendChangeView(r, d, e, reason), S)
<1> DEFINE d1 == changeTimer(d, "changeView")
           d2 == broadcastChangeView(r, d1)
           view == (d.ViewNumber + 1) % ViewSize
<1>1. SUFFICES ASSUME ~WatchOnly(r)
               PROVE  Step(r, d, sendChangeView(r, d, e, reason), S)
  BY StepReflexive DEF sendChangeView
<1>2. r \in Validators
  BY <1>1, NodeFacts
<1>3. Still(r, d, d1, S)
  BY Names, changeTimerStill
<1>4. sendChangeView(r, d, e, reason)
        \in {sendRecoveryRequest(r, d1, e), checkChangeView(r, d2, view)}
  BY <1>1 DEF sendChangeView
<1> HIDE DEF d1
<1>5. /\ Fit(r, d1, S) /\ Unlocked(r, d1) /\ Loose(r, d1, Due(r, S)) /\ ~d1.blockProcessed
      /\ Step(r, d, d1, S)
  BY <1>3, StillFacts
<1>6. Still(r, d1, sendRecoveryRequest(r, d1, e), S)
  BY <1>2, <1>5, sendRecoveryRequestStill
<1>7. Still(r, d1, d2, S)
  BY <1>2, <1>5, broadcastChangeViewStill
<1> HIDE DEF d2
<1>8. /\ Fit(r, d2, S) /\ Unlocked(r, d2) /\ Loose(r, d2, Due(r, S)) /\ ~d2.blockProcessed
      /\ Step(r, d1, d2, S)
  BY <1>5, <1>7, StillFacts
<1>9. view \in Views
  <2>1. d.ViewNumber \in Nat
    BY FitTypes
  <2> QED
    BY <2>1, ViewFacts
<1> HIDE DEF view
<1>10. Step(r, d2, checkChangeView(r, d2, view), S)
  BY <1>8, <1>9, checkChangeViewStep
<1> QED
  BY <1>4, <1>5, <1>6, <1>8, <1>10, StepTransitive DEF Still

-----------------------------------------------------------------------------
(* Preparations.                                                            *)

\* A call that changes preparations only, and leaves the promises of the view
\* with the request they need.
LEMMA PreparationsFit ==
  ASSUME NEW r, NEW S, NEW d, Fit(r, d, S), NEW d1, Good(r, d1, Due(r, S)), Tidy(d1),
         d1.BlockIndex = d.BlockIndex,
         d1.ViewNumber = d.ViewNumber,
         d1.PreCommitPayloads = d.PreCommitPayloads,
         d1.CommitPayloads = d.CommitPayloads,
         d1.cache = d.cache, d1.todo = d.todo, d1.out = d.out,
         RequestSentOrReceived(d) =>
            RequestSentOrReceived(d1) /\ d1.proposal = d.proposal
  PROVE  Step(r, d, d1, S) /\ (Unlocked(r, d) => Unlocked(r, d1))
<1> DEFINE A == S \cup d.out
<1>1. RequestSentOrReceived(d) => MakePreHeader(d1) = MakePreHeader(d)
  BY DEF MakePreHeader
<1>2. \A m \in d1.out : m.from = r
  BY DEF Fit
<1>3. HoldsGenuine(d1, A)
  BY DEF Fit, HoldsGenuine
<1>4. ASSUME r \in Correct
      PROVE  Consistent(r, d1, A) /\ Locked(r, d1, A)
  <2>1. Consistent(r, d, A) /\ Locked(r, d, A)
    BY <1>4 DEF Fit
  <2>2. Consistent(r, d1, A)
    BY <2>1 DEF Consistent
  <2>3. Locked(r, d1, A)
    BY <1>1, <2>1 DEF Locked
  <2> QED
    BY <2>2, <2>3
<1>5. Keeps(r, d, d1) /\ (Unlocked(r, d) => Unlocked(r, d1))
  BY DEF Keeps, Unlocked
<1> QED
  BY <1>2, <1>3, <1>4, <1>5 DEF Step, Fit

LEMMA PreparationStep ==
  ASSUME NEW r, NEW S, NEW d, Fit(r, d, S), NEW i \in Validators,
         NEW m \in PrepareRequests \cup PrepareResponses,
         m.type = "PrepareRequest" => i = PrimaryIndex(d),
         i = PrimaryIndex(d) => d.proposal \in Proposals /\ m.proposal = d.proposal
  PROVE  LET d1 == [d EXCEPT !.PreparationPayloads[i] = m]
         IN  /\ Step(r, d, d1, S)
             /\ Unlocked(r, d) => Unlocked(r, d1)
             /\ Loose(r, d, Due(r, S)) => Loose(r, d1, Due(r, S))
             /\ RequestSentOrReceived(d1) <=> RequestSentOrReceived(d) \/ i = PrimaryIndex(d)
             /\ d1.BlockIndex = d.BlockIndex /\ d1.ViewNumber = d.ViewNumber
             /\ d1.proposal = d.proposal /\ d1.blockProcessed = d.blockProcessed
             /\ d1.out = d.out
<1> DEFINE x == [d.PreparationPayloads EXCEPT ![i] = m]
           d1 == [d EXCEPT !.PreparationPayloads = x]
<1>1. /\ d \in Contexts /\ Sane(d) /\ Good(r, d, Due(r, S)) /\ Tidy(d)
      /\ d.PreparationPayloads \in Slots(PrepareRequests \cup PrepareResponses)
      /\ PrimaryIndex(d) \in Validators
  <2>1. d \in Contexts /\ Sane(d) /\ Good(r, d, Due(r, S)) /\ Tidy(d)
    BY FitContext DEF Fit
  <2> QED
    BY <2>1, NodeFacts DEF Contexts
<1>2. m # Nil
  BY PayloadNotNil DEF Payloads, Restorable
<1>3. d1 = [d EXCEPT !.PreparationPayloads[i] = m]
  OBVIOUS
<1>4. \A j \in Validators : x[j] = IF j = i THEN m ELSE d.PreparationPayloads[j]
  BY <1>1 DEF Slots
<1>5. /\ Good(r, d1, Due(r, S))
      /\ Loose(r, d, Due(r, S)) => Loose(r, d1, Due(r, S))
  BY <1>1, PreparationGood, Zenon
<1> HIDE DEF x
<1>6. /\ d1.PreparationPayloads = x
      /\ d1.BlockIndex = d.BlockIndex
      /\ d1.ViewNumber = d.ViewNumber
      /\ d1.PreCommitPayloads = d.PreCommitPayloads
      /\ d1.CommitPayloads = d.CommitPayloads
      /\ d1.proposal = d.proposal
      /\ d1.blockProcessed = d.blockProcessed
      /\ d1.preBlockProcessed = d.preBlockProcessed
      /\ d1.cache = d.cache /\ d1.todo = d.todo /\ d1.out = d.out
  BY <1>1 DEF Contexts
<1> HIDE DEF d1
<1>7. /\ PrimaryIndex(d1) = PrimaryIndex(d)
      /\ isAntiMEVExtensionEnabled(d1) = isAntiMEVExtensionEnabled(d)
  BY <1>6 DEF PrimaryIndex, isAntiMEVExtensionEnabled
<1>8. RequestSentOrReceived(d1) <=> RequestSentOrReceived(d) \/ i = PrimaryIndex(d)
  BY <1>1, <1>2, <1>4, <1>6, <1>7 DEF RequestSentOrReceived
<1>9. Tidy(d1)
  <2>1. ASSUME RequestSentOrReceived(d1)
        PROVE  d1.PreparationPayloads[PrimaryIndex(d1)].proposal = d1.proposal
    BY <1>1, <1>4, <1>6, <1>7, <1>8, <2>1 DEF Tidy
  <2> QED
    BY <1>1, <1>6, <1>7, <2>1 DEF Tidy
<1>10. Step(r, d, d1, S) /\ (Unlocked(r, d) => Unlocked(r, d1))
  BY <1>5, <1>6, <1>8, <1>9, PreparationsFit
<1> QED
  BY <1>3, <1>5, <1>6, <1>8, <1>10

\* The proposal may change as long as no request is stored: the node has not
\* prepared in its view.
LEMMA ProposalStep ==
  ASSUME NEW r, NEW S \in SUBSET Payloads, NEW d, Fit(r, d, S),
         ~RequestSentOrReceived(d), NEW p \in Proposals
  PROVE  LET d1 == [d EXCEPT !.proposal = p]
         IN  /\ Step(r, d, d1, S)
             /\ d1.proposal = p
             /\ d1.BlockIndex = d.BlockIndex
             /\ d1.ViewNumber = d.ViewNumber
             /\ d1.blockProcessed = d.blockProcessed
             /\ PrimaryIndex(d1) = PrimaryIndex(d)
             /\ ~RequestSentOrReceived(d1)
<1> DEFINE d1 == [d EXCEPT !.proposal = p]
<1>1. d \in Contexts /\ Good(r, d, Due(r, S)) /\ Tidy(d) /\ Due(r, S) \in SUBSET Payloads
  BY FitContext, DueType DEF Fit
<1>2. Good(r, d1, Due(r, S)) /\ ~RequestSentOrReceived(d1) /\ PrimaryIndex(d1) = PrimaryIndex(d)
  BY <1>1, ProposalGood
<1>3. /\ d1.proposal = p
      /\ d1.BlockIndex = d.BlockIndex
      /\ d1.ViewNumber = d.ViewNumber
      /\ d1.PreCommitPayloads = d.PreCommitPayloads
      /\ d1.CommitPayloads = d.CommitPayloads
      /\ d1.blockProcessed = d.blockProcessed
      /\ d1.preBlockProcessed = d.preBlockProcessed
      /\ d1.cache = d.cache /\ d1.todo = d.todo /\ d1.out = d.out
  BY <1>1 DEF Contexts
<1> HIDE DEF d1
<1>4. Tidy(d1)
  BY <1>1, <1>2, <1>3 DEF Tidy, isAntiMEVExtensionEnabled
<1>5. Step(r, d, d1, S)
  BY <1>2, <1>3, <1>4, PreparationsFit
<1> QED
  BY <1>2, <1>3, <1>5 DEF d1

\* A node that holds the request may back its proposal.
LEMMA BackStep ==
  ASSUME NEW r \in Validators, NEW S \in SUBSET Payloads, NEW d, Fit(r, d, S),
         RequestSentOrReceived(d),
         NEW m \in PrepareRequests \cup PrepareResponses,
         m.from = r, m.height = d.BlockIndex, m.view = d.ViewNumber,
         m.proposal = d.proposal
  PROVE  LET d1 == Broadcast(d, m)
         IN  /\ Step(r, d, d1, S)
             /\ Same(d, d1)
<1> DEFINE d1 == Broadcast(d, m)
           A == S \cup d.out
           A1 == A \cup {m}
<1>1. d \in Contexts /\ Good(r, d, Due(r, S)) /\ HoldsGenuine(d, A) /\ Tidy(d)
  BY FitContext DEF Fit
<1>2. m \in Payloads /\ m.type \in {"PrepareRequest", "PrepareResponse"}
  BY DEF PrepareRequests, PrepareResponses, Payloads, Restorable
<1>3. Same(d, d1)
  BY <1>1, <1>2, BroadcastSame
<1>4. Good(r, d1, Due(r, S))
  BY <1>1, <1>3, SameKeepsGood
<1>5. /\ d1.BlockIndex = d.BlockIndex
      /\ d1.ViewNumber = d.ViewNumber
      /\ d1.PreparationPayloads = d.PreparationPayloads
      /\ d1.PreCommitPayloads = d.PreCommitPayloads
      /\ d1.CommitPayloads = d.CommitPayloads
      /\ d1.proposal = d.proposal
      /\ d1.preBlockProcessed = d.preBlockProcessed
      /\ d1.cache = d.cache /\ d1.todo = d.todo
      /\ d1.out = d.out \cup {m}
  BY <1>1 DEF Contexts, Broadcast
<1> HIDE DEF d1
<1>6. /\ PrimaryIndex(d1) = PrimaryIndex(d)
      /\ RequestSentOrReceived(d1) = RequestSentOrReceived(d)
      /\ isAntiMEVExtensionEnabled(d1) = isAntiMEVExtensionEnabled(d)
      /\ MakePreHeader(d1) = MakePreHeader(d)
  BY <1>3, SameFacts
<1>7. S \cup d1.out = A1
  BY <1>5
<1>8. \A k \in d1.out : k.from = r
  BY <1>5 DEF Fit
<1>9. Tidy(d1)
  BY <1>1, <1>5, <1>6 DEF Tidy
<1>10. HoldsGenuine(d1, A1)
  <2>1. Genuine(m, A1)
    BY <1>2 DEF Genuine
  <2>2. \A k : Genuine(k, A) => Genuine(k, A1)
    BY GenuineGrows
  <2>3. \A item : GenuineItem(item, A) => GenuineItem(item, A1)
    BY GenuineGrows
  <2> QED
    BY <1>1, <1>5, <2>1, <2>2, <2>3 DEF HoldsGenuine
<1>11. ASSUME r \in Correct
       PROVE  Consistent(r, d1, A1) /\ Locked(r, d1, A1)
  <2>1. Consistent(r, d, A) /\ Locked(r, d, A)
    BY <1>11 DEF Fit
  <2>2. Prepared(r, A1) = Prepared(r, A) \cup {m}
    BY <1>2 DEF Prepared
  <2>3. d.BlockIndex \in Nat /\ d.ViewNumber \in Nat
    BY <1>1, ViewFacts DEF Contexts
  <2>4. ASSUME NEW k \in Prepared(r, A), k.height = m.height, k.view = m.view
        PROVE  k.proposal = m.proposal
    <3>1. \/ k.height < d.BlockIndex
          \/ k.height = d.BlockIndex /\ k.view < d.ViewNumber
          \/ k.proposal = d.proposal
      BY <2>1, <2>4 DEF Consistent
    <3> QED
      BY <2>3, <2>4, <3>1
  <2>5. Consistent(r, d1, A1)
    <3>1. ASSUME NEW k \in Prepared(r, A1)
          PROVE  \/ k.height < d1.BlockIndex
                 \/ k.height = d1.BlockIndex /\ k.view < d1.ViewNumber
                 \/ /\ k.height = d1.BlockIndex /\ k.view = d1.ViewNumber
                    /\ RequestSentOrReceived(d1) /\ k.proposal = d1.proposal
      BY <1>5, <1>6, <2>1, <2>2, <3>1 DEF Consistent
    <3>2. ASSUME NEW k1 \in Prepared(r, A1), NEW k2 \in Prepared(r, A1),
                 k1.height = k2.height, k1.view = k2.view
          PROVE  k1.proposal = k2.proposal
      BY <2>1, <2>2, <2>4, <3>2 DEF Consistent
    <3> QED
      BY <3>1, <3>2 DEF Consistent
  <2>6. \A k \in A1 : k.type \in {"PreCommit", "Commit"} => k \in A
    BY <1>2
  <2>7. Locked(r, d1, A1)
    BY <1>5, <1>6, <2>1, <2>6 DEF Locked
  <2> QED
    BY <2>5, <2>7
<1>12. Keeps(r, d, d1)
  BY <1>5 DEF Keeps
<1> QED
  BY <1>3, <1>4, <1>7, <1>8, <1>9, <1>10, <1>11, <1>12 DEF Step, Fit, d1

\* The primary proposes once: it has no request of its view yet.
LEMMA ProposeStep ==
  ASSUME NEW r \in Nodes, NEW S \in SUBSET Payloads, NEW d, Fit(r, d, S),
         ~RequestSentOrReceived(d), r = PrimaryIndex(d), NEW p \in Proposals
  PROVE  LET msg == PrepareRequestMsg(d.BlockIndex, d.ViewNumber, r, p)
             filled == [d EXCEPT
                         !.proposal = p,
                         !.Transactions = d.Transactions \cup RangeOf(TxOf[p]),
                         !.txSubscriptionOn = FALSE,
                         !.PreparationPayloads[r] = msg]
         IN  Step(r, d, Broadcast(filled, msg), S)
<1> DEFINE msg == PrepareRequestMsg(d.BlockIndex, d.ViewNumber, r, p)
           known == d.Transactions \cup RangeOf(TxOf[p])
           d1 == [d EXCEPT !.proposal = p]
           d2 == [d1 EXCEPT !.Transactions = known]
           d3 == [d2 EXCEPT !.txSubscriptionOn = FALSE]
           d4 == [d3 EXCEPT !.PreparationPayloads[r] = msg]
           filled == [d EXCEPT
                        !.proposal = p,
                        !.Transactions = d.Transactions \cup RangeOf(TxOf[p]),
                        !.txSubscriptionOn = FALSE,
                        !.PreparationPayloads[r] = msg]
<1>1. /\ d \in Contexts /\ d.BlockIndex \in Nat /\ d.ViewNumber \in Views
      /\ d.Transactions \in SUBSET Tx
  BY FitContext, FitTypes
<1>2. r \in Validators
  BY <1>1, NodeFacts
<1>3. known \in SUBSET Tx
  <2>1. TxOf[p] \in Seq(Tx)
    BY TxAssumption
  <2> QED
    BY <1>1, <2>1 DEF RangeOf
<1>4. /\ msg \in PrepareRequests /\ msg.from = r /\ msg.proposal = p
      /\ msg.height = d.BlockIndex /\ msg.view = d.ViewNumber
  BY <1>1, <1>2 DEF PrepareRequestMsg, PrepareRequests
<1>5. filled = d4
  BY <1>1 DEF Contexts
<1> HIDE DEF msg, known, filled
<1>6. /\ Step(r, d, d1, S) /\ Fit(r, d1, S) /\ d1.proposal = p /\ PrimaryIndex(d1) = r
      /\ d1.BlockIndex = d.BlockIndex /\ d1.ViewNumber = d.ViewNumber
  BY ProposalStep DEF Step
<1> HIDE DEF d1
<1>7. Still(r, d1, d2, S) /\ Fit(r, d2, S)
  BY <1>3, <1>6, FieldStill, StillFacts
<1> HIDE DEF d2
<1>8. Still(r, d2, d3, S)
  BY <1>7, FieldStill
<1> HIDE DEF d3
<1>9. Still(r, d1, d3, S)
  BY <1>7, <1>8, StillTransitive
<1>10. /\ Step(r, d1, d3, S) /\ Fit(r, d3, S) /\ d3.proposal = p /\ PrimaryIndex(d3) = r
       /\ d3.BlockIndex = d.BlockIndex /\ d3.ViewNumber = d.ViewNumber
  BY <1>6, <1>9, StillFacts
<1>11. /\ Step(r, d3, d4, S) /\ Fit(r, d4, S) /\ d4.proposal = p
       /\ d4.BlockIndex = d.BlockIndex /\ d4.ViewNumber = d.ViewNumber
       /\ RequestSentOrReceived(d4)
  BY <1>2, <1>4, <1>10, PreparationStep DEF Step
<1> HIDE DEF d4
<1>12. Step(r, d4, Broadcast(d4, msg), S)
  BY <1>2, <1>4, <1>11, BackStep
<1>13. Step(r, d, Broadcast(d4, msg), S)
  BY <1>6, <1>10, <1>11, <1>12, StepTransitive
<1> QED
  BY <1>5, <1>13 DEF filled, msg

LEMMA sendPrepareRequestStep ==
  ASSUME NEW r \in Nodes, NEW S \in SUBSET Payloads, NEW d, Fit(r, d, S),
         ~RequestSentOrReceived(d), r = PrimaryIndex(d), NEW force,
         NEW e, e.fill \in Proposals, e.refill \in Proposals
  PROVE  Step(r, d, sendPrepareRequest(r, d, force, e), S)
<1> DEFINE p == IF CanFill(e.fill, force) THEN e.fill ELSE e.refill
           msg == PrepareRequestMsg(d.BlockIndex, d.ViewNumber, r, p)
           filled == [d EXCEPT
                        !.proposal = p,
                        !.Transactions = d.Transactions \cup RangeOf(TxOf[p]),
                        !.txSubscriptionOn = FALSE,
                        !.PreparationPayloads[r] = msg]
           sent == Broadcast(filled, msg)
           noted == Call(sent, "prepareSent")
           timed == changeTimer(noted, "request")
<1>1. r \in Validators /\ p \in Proposals
  BY FitContext, NodeFacts
<1>2. sendPrepareRequest(r, d, force, e)
        \in {waitForTransactions(d, "subscribe"), checkPrepare(r, timed, e)}
  BY DEF sendPrepareRequest
<1>3. Step(r, d, waitForTransactions(d, "subscribe"), S)
  BY Names, waitForTransactionsStill DEF Still
<1> HIDE DEF p
<1>4. Step(r, d, sent, S) /\ Fit(r, sent, S)
  BY <1>1, ProposeStep DEF Step
<1> HIDE DEF sent
<1>5. Step(r, sent, noted, S) /\ Fit(r, noted, S)
  BY <1>4, Names, CallStill, StillFacts
<1> HIDE DEF noted
<1>6. Step(r, noted, timed, S) /\ Fit(r, timed, S)
  BY <1>5, Names, changeTimerStill, StillFacts
<1> HIDE DEF timed
<1>7. Step(r, timed, checkPrepare(r, timed, e), S)
  BY <1>1, <1>6, checkPrepareStep
<1> QED
  BY <1>2, <1>3, <1>4, <1>5, <1>6, <1>7, StepTransitive

LEMMA sendPrepareResponseStep ==
  ASSUME NEW r \in Validators, NEW S \in SUBSET Payloads, NEW d, Fit(r, d, S),
         RequestSentOrReceived(d)
  PROVE  Step(r, d, sendPrepareResponse(r, d), S)
<1> DEFINE request == d.PreparationPayloads[PrimaryIndex(d)]
           msg == PrepareResponseMsg(d.BlockIndex, d.ViewNumber, r, request.proposal)
           d1 == [d EXCEPT !.PreparationPayloads[r] = msg]
<1>1. /\ d \in Contexts /\ Sane(d) /\ d.BlockIndex \in Nat /\ d.ViewNumber \in Views
      /\ d.proposal \in Proposals /\ request.proposal = d.proposal
  <2>1. d \in Contexts /\ Sane(d) /\ Tidy(d)
    BY FitContext DEF Fit
  <2> QED
    BY <2>1 DEF Sane, Contexts, Tidy
<1>2. /\ msg \in PrepareResponses /\ msg.type = "PrepareResponse" /\ msg.from = r
      /\ msg.height = d.BlockIndex /\ msg.view = d.ViewNumber /\ msg.proposal = d.proposal
  BY <1>1 DEF PrepareResponseMsg, PrepareResponses
<1>3. sendPrepareResponse(r, d) = Broadcast(d1, msg)
  BY DEF sendPrepareResponse
<1> HIDE DEF msg, request
<1>4. /\ Step(r, d, d1, S) /\ Fit(r, d1, S) /\ RequestSentOrReceived(d1)
      /\ d1.BlockIndex = d.BlockIndex /\ d1.ViewNumber = d.ViewNumber
      /\ d1.proposal = d.proposal
  BY <1>1, <1>2, PreparationStep DEF Step
<1> HIDE DEF d1
<1>5. Step(r, d1, Broadcast(d1, msg), S)
  BY <1>2, <1>4, BackStep
<1> QED
  BY <1>3, <1>4, <1>5, StepTransitive

\* Before the request is stored nothing of the node's own is dropped: it has not
\* (pre)committed in its view.
LEMMA updateExistingPayloadsStep ==
  ASSUME NEW r \in Nodes, NEW S \in SUBSET Payloads, NEW d, Fit(r, d, S),
         ~RequestSentOrReceived(d), NEW msg
  PROVE  LET d1 == updateExistingPayloads(d, msg)
         IN  /\ Step(r, d, d1, S)
             /\ ~RequestSentOrReceived(d1)
             /\ d1.proposal = d.proposal
             /\ d1.blockProcessed = d.blockProcessed
             /\ PrimaryIndex(d1) = PrimaryIndex(d)
<1> DEFINE x == [i \in Validators |->
                    IF /\ d.PreparationPayloads[i] # Nil
                       /\ d.PreparationPayloads[i].type = "PrepareResponse"
                       /\ d.PreparationPayloads[i].proposal # msg.proposal
                    THEN Nil
                    ELSE d.PreparationPayloads[i]]
           d1 == [d EXCEPT !.PreparationPayloads = x]
           d2 == updateExistingPayloads(d, msg)
<1>1. /\ d \in Contexts /\ Sane(d) /\ Good(r, d, Due(r, S)) /\ Tidy(d)
      /\ d.BlockIndex \in Nat /\ Due(r, S) \in SUBSET Payloads
      /\ d.PreparationPayloads \in Slots(PrepareRequests \cup PrepareResponses)
  <2>1. d \in Contexts /\ Sane(d) /\ Good(r, d, Due(r, S)) /\ Tidy(d)
    BY FitContext DEF Fit
  <2> QED
    BY <2>1, DueType DEF Contexts
<1>2. /\ x \in Slots(PrepareRequests \cup PrepareResponses)
      /\ \A i \in Validators : x[i] # Nil => x[i] = d.PreparationPayloads[i]
  BY <1>1 DEF Slots
<1>3. d2 = IF isAntiMEVExtensionEnabled(d)
           THEN verifyPreCommitPayloadsAgainstPreBlock(d1)
           ELSE verifyCommitPayloadsAgainstHeader(d1)
  BY DEF updateExistingPayloads
<1> HIDE DEF x, d2
<1>4. d1 \in Contexts
  BY <1>1, <1>2, FieldTypes
<1>5. /\ d1.PreparationPayloads = x
      /\ d1.BlockIndex = d.BlockIndex
      /\ d1.ViewNumber = d.ViewNumber
      /\ d1.PreCommitPayloads = d.PreCommitPayloads
      /\ d1.CommitPayloads = d.CommitPayloads
      /\ d1.proposal = d.proposal
      /\ d1.blockProcessed = d.blockProcessed
      /\ d1.preBlockProcessed = d.preBlockProcessed
      /\ d1.cache = d.cache /\ d1.todo = d.todo /\ d1.out = d.out
  BY <1>1 DEF Contexts
<1> HIDE DEF d1
<1>6. PrimaryIndex(d1) = PrimaryIndex(d) /\ PrimaryIndex(d) \in Validators
      /\ isAntiMEVExtensionEnabled(d1) = isAntiMEVExtensionEnabled(d)
  BY <1>1, <1>5, NodeFacts DEF PrimaryIndex, isAntiMEVExtensionEnabled
<1>7. ~RequestSentOrReceived(d1)
  BY <1>2, <1>5, <1>6 DEF RequestSentOrReceived
<1>8. Sane(d1)
  BY <1>1, <1>2, <1>4, <1>5, <1>6, <1>7 DEF Sane
<1>9. Good(r, d1, Due(r, S)) /\ Loose(r, d1, Due(r, S))
  BY <1>1, <1>5, <1>8, NotBound, LooseGood
<1>10. Tidy(d1)
  BY <1>1, <1>5, <1>6, <1>7 DEF Tidy
<1>11. Step(r, d, d1, S) /\ Fit(r, d1, S)
  BY <1>5, <1>9, <1>10, PreparationsFit DEF Step
<1>12. Step(r, d1, d2, S)
  <2>1. CASE isAntiMEVExtensionEnabled(d)
    BY <1>3, <1>11, <2>1, verifyPreCommitsStep
  <2>2. CASE ~isAntiMEVExtensionEnabled(d)
    BY <1>3, <1>7, <1>9, <1>11, <2>2, verifyCommitsStep
  <2> QED
    BY <2>1, <2>2
<1>13. /\ d2.PreparationPayloads = d1.PreparationPayloads
       /\ d2.proposal = d1.proposal
       /\ d2.BlockIndex = d1.BlockIndex
       /\ d2.ViewNumber = d1.ViewNumber
       /\ d2.blockProcessed = d1.blockProcessed
  BY <1>3, <1>4 DEF verifyPreCommitPayloadsAgainstPreBlock,
                    verifyCommitPayloadsAgainstHeader, Contexts
<1>14. PrimaryIndex(d2) = PrimaryIndex(d1) /\ ~RequestSentOrReceived(d2)
  BY <1>7, <1>13 DEF PrimaryIndex, RequestSentOrReceived
<1> QED
  BY <1>5, <1>6, <1>11, <1>12, <1>13, <1>14, StepTransitive DEF d2

\* The request is stored last, with its proposal; the node has (pre)committed to
\* nothing else meanwhile.
LEMMA acceptPrepareRequestStep ==
  ASSUME NEW r \in Nodes, NEW S \in SUBSET Payloads, NEW d, Fit(r, d, S),
         ~RequestSentOrReceived(d), NEW msg \in PrepareRequests,
         msg.from = PrimaryIndex(d), NEW e
  PROVE  LET d1 == acceptPrepareRequest(d, msg, e)
         IN  /\ Step(r, d, d1, S)
             /\ Unlocked(r, d1) /\ Loose(r, d1, Due(r, S))
             /\ RequestSentOrReceived(d1)
             /\ d1.blockProcessed = d.blockProcessed
<1> DEFINE d1 == [d EXCEPT !.proposal = msg.proposal]
           d2 == processMissingTx(d1, e)
           d3 == updateExistingPayloads(d2, msg)
           d4 == [d3 EXCEPT !.PreparationPayloads[msg.from] = msg]
<1>1. msg.proposal \in Proposals /\ msg.from \in Validators
  BY DEF PrepareRequests
<1>2. /\ Step(r, d, d1, S) /\ Fit(r, d1, S)
      /\ d1.proposal = msg.proposal
      /\ d1.blockProcessed = d.blockProcessed
      /\ PrimaryIndex(d1) = PrimaryIndex(d)
      /\ ~RequestSentOrReceived(d1)
  BY <1>1, ProposalStep DEF Step
<1>3. acceptPrepareRequest(d, msg, e) = d4
  BY DEF acceptPrepareRequest
<1> HIDE DEF d1, d4
<1>4. Still(r, d1, d2, S)
  BY <1>2, processMissingTxStill
<1> HIDE DEF d2
<1>5. /\ Step(r, d1, d2, S) /\ Fit(r, d2, S)
      /\ d2.proposal = msg.proposal
      /\ d2.blockProcessed = d.blockProcessed
      /\ PrimaryIndex(d2) = PrimaryIndex(d)
      /\ ~RequestSentOrReceived(d2)
  BY <1>2, <1>4, StillFacts
<1>6. /\ Step(r, d2, d3, S) /\ Fit(r, d3, S)
      /\ d3.proposal = msg.proposal
      /\ d3.blockProcessed = d.blockProcessed
      /\ PrimaryIndex(d3) = PrimaryIndex(d)
      /\ ~RequestSentOrReceived(d3)
  BY <1>5, updateExistingPayloadsStep DEF Step
<1> HIDE DEF d3
<1>7. Unlocked(r, d3) /\ Loose(r, d3, Due(r, S))
  BY <1>6, NoRequestUnlocked
<1>8. /\ Step(r, d3, d4, S) /\ Unlocked(r, d4) /\ Loose(r, d4, Due(r, S))
      /\ RequestSentOrReceived(d4)
      /\ d4.blockProcessed = d.blockProcessed
  BY <1>1, <1>6, <1>7, PreparationStep DEF d4
<1>9. Step(r, d, d4, S)
  BY <1>2, <1>5, <1>6, <1>8, StepTransitive
<1> QED
  BY <1>3, <1>8, <1>9

LEMMA respondStep ==
  ASSUME NEW r \in Nodes, NEW S \in SUBSET Payloads, NEW d, Fit(r, d, S),
         Unlocked(r, d), Loose(r, d, Due(r, S)), ~d.blockProcessed,
         RequestSentOrReceived(d), NEW e
  PROVE  Step(r, d, respond(r, d, e), S)
<1>1. Step(r, d, rejectBlock(r, d, e), S)
  BY sendChangeViewStep DEF rejectBlock
<1>2. ASSUME ~WatchOnly(r)
      PROVE  Step(r, d, checkPrepare(r, sendPrepareResponse(r, d), e), S)
  <2> DEFINE d1 == sendPrepareResponse(r, d)
  <2>1. r \in Validators
    BY <1>2, NodeFacts
  <2>2. Step(r, d, d1, S) /\ Fit(r, d1, S)
    BY <2>1, sendPrepareResponseStep DEF Step
  <2> HIDE DEF d1
  <2>3. Step(r, d1, checkPrepare(r, d1, e), S)
    BY <2>1, <2>2, checkPrepareStep
  <2>4. Step(r, d, checkPrepare(r, d1, e), S)
    BY <2>2, <2>3, StepTransitive
  <2> QED
    BY <2>4 DEF d1
<1> QED
  BY <1>1, <1>2, StepReflexive DEF respond

LEMMA onPrepareRequestStep ==
  ASSUME NEW r \in Nodes, NEW S \in SUBSET Payloads, NEW d, Fit(r, d, S),
         ~d.blockProcessed, NEW msg \in PrepareRequests, NEW e
  PROVE  Step(r, d, onPrepareRequest(r, d, msg, e), S)
<1>1. SUFFICES ASSUME ~ignoresRequest(d, msg)
               PROVE  Step(r, d, onPrepareRequest(r, d, msg, e), S)
  BY StepReflexive DEF onPrepareRequest
<1>2. ~RequestSentOrReceived(d) /\ msg.from = PrimaryIndex(d)
  BY <1>1 DEF ignoresRequest
<1>3. Step(r, d, sendChangeView(r, d, e, "CVBlockRejectedByPolicy"), S)
  BY <1>2, NoRequestUnlocked, sendChangeViewStep
<1>4. Step(r, d, respond(r, acceptPrepareRequest(extendTimer(r, d, "extend2"), msg, e), e), S)
  <2> DEFINE d1 == extendTimer(r, d, "extend2")
             d2 == acceptPrepareRequest(d1, msg, e)
  <2>1. Still(r, d, d1, S)
    BY Names, extendTimerStill
  <2> HIDE DEF d1
  <2>2. /\ Step(r, d, d1, S) /\ Fit(r, d1, S)
        /\ ~RequestSentOrReceived(d1) /\ msg.from = PrimaryIndex(d1)
        /\ ~d1.blockProcessed
    BY <1>2, <2>1, StillFacts
  <2>3. /\ Step(r, d1, d2, S) /\ Fit(r, d2, S) /\ Unlocked(r, d2) /\ Loose(r, d2, Due(r, S))
        /\ RequestSentOrReceived(d2) /\ ~d2.blockProcessed
    BY <2>2, acceptPrepareRequestStep DEF Step
  <2> HIDE DEF d2
  <2>4. Step(r, d2, respond(r, d2, e), S)
    BY <2>3, respondStep
  <2>5. Step(r, d, respond(r, d2, e), S)
    BY <2>2, <2>3, <2>4, StepTransitive
  <2> QED
    BY <2>5 DEF d1, d2
<1> QED
  BY <1>1, <1>3, <1>4 DEF onPrepareRequest

LEMMA onPrepareResponseStep ==
  ASSUME NEW r \in Nodes, NEW S \in SUBSET Payloads, NEW d, Fit(r, d, S),
         NEW msg \in PrepareResponses, NEW e
  PROVE  Step(r, d, onPrepareResponse(r, d, msg, e), S)
<1> DEFINE d1 == [d EXCEPT !.PreparationPayloads[msg.from] = msg]
           d2 == IF IsPrimary(r, d) /\ ~recovering(d) THEN Call(d1, "prepareResponse") ELSE d1
           d3 == extendTimer(r, d2, "extend2")
<1>1. SUFFICES ASSUME ~ignoresResponse(r, d, msg)
               PROVE  Step(r, d, onPrepareResponse(r, d, msg, e), S)
  BY StepReflexive DEF onPrepareResponse
<1>2. msg.from # PrimaryIndex(d) /\ msg.from \in Validators /\ msg.type # "PrepareRequest"
  BY <1>1 DEF ignoresResponse, PrepareResponses
<1>3. onPrepareResponse(r, d, msg, e)
        \in {d, panic(d1), d3, IF WatchOnly(r) THEN d3 ELSE checkPrepare(r, d3, e)}
  BY <1>1 DEF onPrepareResponse
<1>4. Step(r, d, d1, S) /\ Fit(r, d1, S)
  BY <1>2, PreparationStep DEF Step
<1> HIDE DEF d1
<1>5. Step(r, d1, panic(d1), S)
  BY <1>4, panicStill DEF Still
<1>6. Still(r, d1, d2, S)
  BY <1>4, Names, CallStill, StepReflexive
<1> HIDE DEF d2
<1>7. Step(r, d1, d2, S) /\ Fit(r, d2, S)
  BY <1>6, StillFacts
<1>8. Still(r, d2, d3, S)
  BY <1>7, Names, extendTimerStill
<1> HIDE DEF d3
<1>9. Step(r, d, d3, S) /\ Fit(r, d3, S)
  BY <1>4, <1>7, <1>8, StillFacts, StepTransitive
<1>10. ASSUME ~WatchOnly(r)
       PROVE  Step(r, d3, checkPrepare(r, d3, e), S)
  BY <1>9, <1>10, NodeFacts, checkPrepareStep
<1> QED
  BY <1>3, <1>4, <1>5, <1>9, <1>10, StepReflexive, StepTransitive

LEMMA addTransactionStep ==
  ASSUME NEW r \in Nodes, NEW S \in SUBSET Payloads, NEW d, Fit(r, d, S),
         Unlocked(r, d), Loose(r, d, Due(r, S)), ~d.blockProcessed,
         RequestSentOrReceived(d), NEW tx \in Tx, NEW e
  PROVE  Step(r, d, addTransaction(r, d, tx, e), S)
<1> DEFINE known == d.Transactions \cup {tx}
           d1 == [d EXCEPT !.Transactions = known]
           d2 == verifyPreCommitPayloadsAgainstPreBlock(d1)
           d3 == extendTimer(r, d2, "extend2")
           d4 == sendPrepareResponse(r, d3)
<1>1. addTransaction(r, d, tx, e)
        \in {d1, rejectBlock(r, d1, e), IF WatchOnly(r) THEN d1 ELSE checkPrepare(r, d4, e)}
  BY DEF addTransaction
<1>2. known \in SUBSET Tx
  BY FitContext DEF Contexts
<1> HIDE DEF known
<1>3. Still(r, d, d1, S)
  BY <1>2, FieldStill
<1> HIDE DEF d1
<1>4. /\ Step(r, d, d1, S) /\ Fit(r, d1, S) /\ Unlocked(r, d1) /\ Loose(r, d1, Due(r, S))
      /\ ~d1.blockProcessed /\ RequestSentOrReceived(d1) /\ d1 \in Contexts
  BY <1>3, StillFacts
<1>5. Step(r, d1, rejectBlock(r, d1, e), S)
  BY <1>4, sendChangeViewStep DEF rejectBlock
<1>6. Step(r, d1, d2, S) /\ Fit(r, d2, S) /\ RequestSentOrReceived(d2)
  <2>1. Step(r, d1, d2, S)
    BY <1>4, verifyPreCommitsStep
  <2>2. Same(d1, d2)
    BY <1>4, verifyPreCommitsSame
  <2> HIDE DEF d2
  <2> QED
    BY <1>4, <2>1, <2>2, SameFacts DEF Step
<1> HIDE DEF d2
<1>7. Still(r, d2, d3, S)
  BY <1>6, Names, extendTimerStill
<1> HIDE DEF d3
<1>8. Step(r, d2, d3, S) /\ Fit(r, d3, S) /\ RequestSentOrReceived(d3)
  BY <1>6, <1>7, StillFacts
<1>9. ASSUME ~WatchOnly(r)
      PROVE  Step(r, d3, checkPrepare(r, d4, e), S)
  <2>1. r \in Validators
    BY <1>9, NodeFacts
  <2>2. Step(r, d3, d4, S) /\ Fit(r, d4, S)
    BY <1>8, <2>1, sendPrepareResponseStep DEF Step
  <2> HIDE DEF d4
  <2>3. Step(r, d4, checkPrepare(r, d4, e), S)
    BY <2>1, <2>2, checkPrepareStep
  <2> QED
    BY <2>2, <2>3, StepTransitive
<1> HIDE DEF d4
<1> QED
  BY <1>1, <1>4, <1>5, <1>6, <1>8, <1>9, StepTransitive

LEMMA onTransactionStep ==
  ASSUME NEW r \in Nodes, NEW S \in SUBSET Payloads, NEW d, Fit(r, d, S),
         NEW tx \in Tx, NEW e
  PROVE  Step(r, d, onTransaction(r, d, tx, e), S)
<1> DEFINE item == [op |-> "deleteMissing", index |-> FirstIndex(d.MissingTransactions, tx)]
           d1 == Push(d, <<item>>)
<1>1. SUFFICES ASSUME /\ RequestSentOrReceived(d)
                      /\ ~CommitSent(r, d) /\ ~PreCommitSent(r, d)
                      /\ ~BlockSent(d)
                      /\ tx \in RangeOf(d.MissingTransactions)
               PROVE  Step(r, d, addTransaction(r, d1, tx, e), S)
  BY StepReflexive DEF onTransaction
<1>2. d.MissingTransactions \in Seq(Tx)
  BY FitContext DEF Contexts
<1>3. item \in WorkItems
  BY <1>1, <1>2, FirstIndexType DEF WorkItems
<1>4. GenuineItem(item, S \cup d.out)
  BY DEF GenuineItem
<1> HIDE DEF item
<1>5. <<item>> \in Seq(WorkItems) /\ RangeOf(<<item>>) = {item}
  BY <1>3 DEF RangeOf
<1>6. Still(r, d, d1, S)
  BY <1>4, <1>5, PushStill
<1>7. Unlocked(r, d) /\ Loose(r, d, Due(r, S)) /\ ~d.blockProcessed
  BY <1>1, NothingSentUnlocked DEF BlockSent
<1> HIDE DEF d1
<1>8. /\ Step(r, d, d1, S) /\ Fit(r, d1, S) /\ Unlocked(r, d1) /\ Loose(r, d1, Due(r, S))
      /\ ~d1.blockProcessed /\ RequestSentOrReceived(d1)
  BY <1>1, <1>6, <1>7, StillFacts
<1>9. Step(r, d1, addTransaction(r, d1, tx, e), S)
  BY <1>8, addTransactionStep
<1> QED
  BY <1>8, <1>9, StepTransitive

-----------------------------------------------------------------------------
(* Commits, view changes, recovery and dispatch.                            *)

\* Storing what does not lie, in the slots of the others.
LEMMA StoredStep ==
  ASSUME NEW r, NEW S, NEW d, Fit(r, d, S), NEW d1, Good(r, d1, Due(r, S)),
         d1.BlockIndex = d.BlockIndex,
         d1.ViewNumber = d.ViewNumber,
         d1.PreparationPayloads = d.PreparationPayloads,
         d1.proposal = d.proposal,
         d1.preBlockProcessed = d.preBlockProcessed,
         d1.cache = d.cache, d1.todo = d.todo, d1.out = d.out,
         isAntiMEVExtensionEnabled(d) \/ d1.PreCommitPayloads = d.PreCommitPayloads,
         \A i \in Validators :
            /\ \/ d1.PreCommitPayloads[i] = d.PreCommitPayloads[i]
               \/ /\ d1.PreCommitPayloads[i].from = i
                  /\ d1.PreCommitPayloads[i].height = d.BlockIndex
                  /\ Genuine(d1.PreCommitPayloads[i], S \cup d.out)
            /\ \/ d1.CommitPayloads[i] = d.CommitPayloads[i]
               \/ Genuine(d1.CommitPayloads[i], S \cup d.out),
         r \in Correct =>
            /\ d1.PreCommitPayloads[r] = d.PreCommitPayloads[r]
            /\ d1.CommitPayloads[r] = d.CommitPayloads[r]
  PROVE  Step(r, d, d1, S)
<1> DEFINE A == S \cup d.out
<1>1. /\ PrimaryIndex(d1) = PrimaryIndex(d)
      /\ RequestSentOrReceived(d1) = RequestSentOrReceived(d)
      /\ isAntiMEVExtensionEnabled(d1) = isAntiMEVExtensionEnabled(d)
      /\ MakePreHeader(d1) = MakePreHeader(d)
  BY DEF PrimaryIndex, RequestSentOrReceived, isAntiMEVExtensionEnabled, MakePreHeader
<1>2. \A m \in d1.out : m.from = r
  BY DEF Fit
<1>3. Tidy(d1)
  BY <1>1 DEF Fit, Tidy
<1>4. HoldsGenuine(d1, A)
  <2>1. HoldsGenuine(d, A)
    BY DEF Fit
  <2> QED
    BY <2>1 DEF HoldsGenuine
<1>5. ASSUME r \in Correct
      PROVE  Consistent(r, d1, A) /\ Locked(r, d1, A)
  <2>1. Consistent(r, d, A) /\ Locked(r, d, A)
    BY <1>5 DEF Fit
  <2>2. Consistent(r, d1, A)
    BY <1>1, <2>1 DEF Consistent
  <2>3. Locked(r, d1, A)
    BY <1>1, <1>5, <2>1 DEF Locked
  <2> QED
    BY <2>2, <2>3
<1>6. Keeps(r, d, d1)
  BY DEF Keeps
<1> QED
  BY <1>2, <1>3, <1>4, <1>5, <1>6 DEF Step, Fit

LEMMA PreCommitStored ==
  ASSUME NEW r \in Nodes, NEW S \in SUBSET Payloads, NEW d, Fit(r, d, S),
         isAntiMEVExtensionEnabled(d), NEW msg \in PreCommits,
         msg.height = d.BlockIndex, Genuine(msg, S \cup d.out),
         d.PreCommitPayloads[msg.from] = Nil
  PROVE  LET d1 == [d EXCEPT !.PreCommitPayloads[msg.from] = msg]
         IN  Step(r, d, d1, S) /\ Same(d, d1)
<1> DEFINE x == [d.PreCommitPayloads EXCEPT ![msg.from] = msg]
           d1 == [d EXCEPT !.PreCommitPayloads = x]
<1>1. /\ d \in Contexts /\ d.PreCommitPayloads \in Slots(PreCommits)
      /\ Good(r, d, Due(r, S)) /\ msg.from \in Validators
  <2>1. d \in Contexts /\ Good(r, d, Due(r, S))
    BY FitContext
  <2> QED
    BY <2>1 DEF Contexts, PreCommits
<1>2. /\ x \in Slots(PreCommits)
      /\ \A i \in Validators : x[i] = IF i = msg.from THEN msg ELSE d.PreCommitPayloads[i]
  BY <1>1 DEF Slots, PreCommits
<1>3. d1 = [d EXCEPT !.PreCommitPayloads[msg.from] = msg]
  OBVIOUS
<1> HIDE DEF x
<1>4. Same(d, d1)
  BY <1>1, <1>2, FieldSame
<1>5. Good(r, d1, Due(r, S))
  BY <1>1, <1>4, SameKeepsGood
<1>6. /\ d1.BlockIndex = d.BlockIndex
      /\ d1.ViewNumber = d.ViewNumber
      /\ d1.PreparationPayloads = d.PreparationPayloads
      /\ d1.proposal = d.proposal
      /\ d1.preBlockProcessed = d.preBlockProcessed
      /\ d1.cache = d.cache /\ d1.todo = d.todo /\ d1.out = d.out
      /\ d1.CommitPayloads = d.CommitPayloads
      /\ d1.PreCommitPayloads = x
  BY <1>1 DEF Contexts
<1>7. r \in Correct => r # msg.from
  <2>1. SUFFICES ASSUME r \in Correct, r = msg.from
                 PROVE  FALSE
    OBVIOUS
  <2>2. Signed(S \cup d.out, "PreCommit", r, d.BlockIndex, msg.sign)
    BY <2>1 DEF Genuine, PreCommits
  <2>3. d.BlockIndex < d.BlockIndex \/ d.PreCommitPayloads[r] # Nil
    BY <2>1, <2>2, OwnCommit
  <2>4. d.BlockIndex \in Nat
    BY <1>1 DEF Contexts
  <2> QED
    BY <2>1, <2>3, <2>4
<1>8. r \in Correct =>
          /\ d1.PreCommitPayloads[r] = d.PreCommitPayloads[r]
          /\ d1.CommitPayloads[r] = d.CommitPayloads[r]
  BY <1>2, <1>6, <1>7, CorrectFacts
<1>9. \A i \in Validators :
          \/ d1.PreCommitPayloads[i] = d.PreCommitPayloads[i]
          \/ /\ d1.PreCommitPayloads[i].from = i
             /\ d1.PreCommitPayloads[i].height = d.BlockIndex
             /\ Genuine(d1.PreCommitPayloads[i], S \cup d.out)
  BY <1>2, <1>6
<1> HIDE DEF d1
<1>10. Step(r, d, d1, S)
  BY <1>5, <1>6, <1>8, <1>9, StoredStep
<1> QED
  BY <1>3, <1>4, <1>10

LEMMA onPreCommitStep ==
  ASSUME NEW r \in Nodes, NEW S \in SUBSET Payloads, NEW d, Fit(r, d, S),
         isAntiMEVExtensionEnabled(d), NEW msg \in PreCommits,
         msg.height = d.BlockIndex, Genuine(msg, S \cup d.out), NEW e
  PROVE  Step(r, d, onPreCommit(r, d, msg, e), S)
<1> DEFINE d1 == [d EXCEPT !.PreCommitPayloads[msg.from] = msg]
           d2 == extendTimer(r, d1, "extend4")
           d3 == [d2 EXCEPT !.PreCommitPayloads = d.PreCommitPayloads]
<1>1. SUFFICES ASSUME d.PreCommitPayloads[msg.from] = Nil
               PROVE  Step(r, d, onPreCommit(r, d, msg, e), S)
  BY StepReflexive DEF onPreCommit
<1>2. onPreCommit(r, d, msg, e)
        \in {d, d1, d2, d3, IF MakePreHeader(d) = Nil THEN d2 ELSE checkPreCommit(r, d2, e)}
  BY DEF onPreCommit
<1>3. Step(r, d, d1, S) /\ Fit(r, d1, S) /\ Same(d, d1) /\ d \in Contexts
  BY <1>1, PreCommitStored, FitContext DEF Step
<1>4. Still(r, d1, d2, S)
  BY <1>3, Names, extendTimerStill
<1>5. d2 \in {d1, Call(d1, "extend4")}
  BY DEF extendTimer
<1> HIDE DEF d2
<1>6. /\ Step(r, d1, d2, S) /\ Fit(r, d2, S) /\ d2 \in Contexts /\ Same(d1, d2)
  BY <1>3, <1>4, StillFacts
<1>7. /\ isAntiMEVExtensionEnabled(d2)
      /\ RequestSentOrReceived(d2) = RequestSentOrReceived(d)
  BY <1>3, <1>6, SameTransitive, SameFacts
<1>8. Step(r, d, d3, S)
  <2> DEFINE calls == d2.calls
             d4 == [d EXCEPT !.calls = calls]
  <2>1. d3 = d4
    BY <1>3, <1>5 DEF d1, Contexts, Call
  <2>2. calls \in Seq(TimerCalls)
    BY <1>6 DEF Contexts
  <2> HIDE DEF calls
  <2>3. Still(r, d, d4, S)
    BY <2>2, FieldStill
  <2> QED
    BY <2>1, <2>3 DEF Still
<1>9. ASSUME MakePreHeader(d) # Nil
      PROVE  Step(r, d2, checkPreCommit(r, d2, e), S)
  <2>1. RequestSentOrReceived(d2)
    BY <1>7, <1>9 DEF MakePreHeader
  <2> QED
    BY <1>6, <1>7, <2>1, checkPreCommitStep
<1> HIDE DEF d1, d3
<1> QED
  BY <1>2, <1>3, <1>6, <1>8, <1>9, StepReflexive, StepTransitive

LEMMA onCommitStep ==
  ASSUME NEW r \in Nodes, NEW S \in SUBSET Payloads, NEW d, Fit(r, d, S),
         NEW msg \in Commits, msg.height = d.BlockIndex, Genuine(msg, S \cup d.out), NEW e
  PROVE  Step(r, d, onCommit(r, d, msg, e), S)
<1> DEFINE x == [d.CommitPayloads EXCEPT ![msg.from] = msg]
           d1 == [d EXCEPT !.CommitPayloads = x]
           d2 == extendTimer(r, d1, "extend4")
           d3 == [d2 EXCEPT !.CommitPayloads = d.CommitPayloads]
<1>1. /\ d \in Contexts /\ Sane(d) /\ d.CommitPayloads \in Slots(Commits)
      /\ Good(r, d, Due(r, S)) /\ Due(r, S) \in SUBSET Payloads
      /\ msg.from \in Validators /\ d.BlockIndex \in Nat
  <2>1. d \in Contexts /\ Sane(d) /\ Good(r, d, Due(r, S))
    BY FitContext
  <2> QED
    BY <2>1, DueType DEF Contexts, Commits
<1>2. SUFFICES ASSUME d.CommitPayloads[msg.from] = Nil
               PROVE  Step(r, d, onCommit(r, d, msg, e), S)
  BY StepReflexive DEF onCommit
<1>3. /\ x \in Slots(Commits)
      /\ \A i \in Validators : x[i] = IF i = msg.from THEN msg ELSE d.CommitPayloads[i]
  BY <1>1 DEF Slots
<1>4. d1 = [d EXCEPT !.CommitPayloads[msg.from] = msg]
  OBVIOUS
<1>5. onCommit(r, d, msg, e)
        \in {d, d1, d2, d3, IF MakeHeader(d) = Nil THEN d2 ELSE checkCommit(d2, e)}
  BY <1>4 DEF onCommit
<1> HIDE DEF x
<1>6. \A i \in Validators : x[i] # Nil => x[i].from = i /\ x[i].height = d.BlockIndex
  BY <1>1, <1>3 DEF Sane
<1>7. r \in Correct => r # msg.from
  <2>1. SUFFICES ASSUME r \in Correct, r = msg.from
                 PROVE  FALSE
    OBVIOUS
  <2>2. Signed(S \cup d.out, "Commit", r, d.BlockIndex, msg.sign)
    BY <2>1 DEF Genuine, Commits
  <2>3. d.BlockIndex < d.BlockIndex \/ d.CommitPayloads[r] # Nil
    BY <2>1, <2>2, OwnCommit
  <2> QED
    BY <1>1, <1>2, <2>1, <2>3
<1>8. Good(r, d1, Due(r, S)) /\ HeaderReady(d1) = HeaderReady(d)
  <2>1. Loose(r, d, Due(r, S)) \/ x[r] = d.CommitPayloads[r]
    <3>1. SUFFICES ASSUME ~Loose(r, d, Due(r, S))
                   PROVE  x[r] = d.CommitPayloads[r]
      OBVIOUS
    <3>2. Bound(r, d, Due(r, S)) /\ ~WatchOnly(r)
      BY <1>1, <3>1 DEF Good, Loose, Sworn
    <3>3. r \in Validators /\ d.CommitPayloads[r] # Nil
      BY <3>2, NodeFacts DEF Bound
    <3> QED
      BY <1>2, <1>3, <3>3
  <2>2. Good(r, d1, Due(r, S))
    BY <1>1, <1>3, <1>6, <2>1, CommitsGood
  <2>3. HeaderReady(d1) = HeaderReady(d)
    BY <1>1, <1>3, CommitsField, Zenon
  <2> QED
    BY <2>2, <2>3
<1>9. /\ d1.BlockIndex = d.BlockIndex
      /\ d1.ViewNumber = d.ViewNumber
      /\ d1.PreparationPayloads = d.PreparationPayloads
      /\ d1.proposal = d.proposal
      /\ d1.preBlockProcessed = d.preBlockProcessed
      /\ d1.cache = d.cache /\ d1.todo = d.todo /\ d1.out = d.out
      /\ d1.PreCommitPayloads = d.PreCommitPayloads
      /\ d1.CommitPayloads = x
  BY <1>1 DEF Contexts
<1>10. r \in Correct =>
          /\ d1.PreCommitPayloads[r] = d.PreCommitPayloads[r]
          /\ d1.CommitPayloads[r] = d.CommitPayloads[r]
  BY <1>3, <1>7, <1>9, CorrectFacts
<1>11. \A i \in Validators :
          \/ d1.CommitPayloads[i] = d.CommitPayloads[i]
          \/ Genuine(d1.CommitPayloads[i], S \cup d.out)
  BY <1>3, <1>9
<1> HIDE DEF d1
<1>12. Step(r, d, d1, S) /\ Fit(r, d1, S)
  BY <1>8, <1>9, <1>10, <1>11, StoredStep DEF Step
<1>13. Still(r, d1, d2, S)
  BY <1>12, Names, extendTimerStill
<1>14. d2 \in {d1, Call(d1, "extend4")}
  BY DEF extendTimer
<1> HIDE DEF d2
<1>15. /\ Step(r, d1, d2, S) /\ Fit(r, d2, S) /\ d2 \in Contexts /\ Same(d1, d2)
  BY <1>12, <1>13, StillFacts
<1>16. HeaderReady(d2) = HeaderReady(d)
  BY <1>8, <1>15, SameFacts DEF HeaderReady, Same
<1>17. Step(r, d, d3, S)
  <2> DEFINE calls == d2.calls
             d4 == [d EXCEPT !.calls = calls]
  <2>1. d3 = d4
    BY <1>1, <1>14 DEF d1, Contexts, Call
  <2>2. calls \in Seq(TimerCalls)
    BY <1>15 DEF Contexts
  <2> HIDE DEF calls
  <2>3. Still(r, d, d4, S)
    BY <2>2, FieldStill
  <2> QED
    BY <2>1, <2>3 DEF Still
<1>18. ASSUME MakeHeader(d) # Nil
       PROVE  Step(r, d2, checkCommit(d2, e), S)
  <2>1. HeaderReady(d2)
    BY <1>1, <1>16, <1>18, HeaderFacts
  <2> QED
    BY <1>15, <2>1, checkCommitStep
<1> HIDE DEF d3
<1> QED
  BY <1>5, <1>12, <1>15, <1>17, <1>18, StepReflexive, StepTransitive

LEMMA onChangeViewStep ==
  ASSUME NEW r \in Nodes, NEW S \in SUBSET Payloads, NEW d, Fit(r, d, S),
         ~d.blockProcessed, NEW msg \in ChangeViews
  PROVE  Step(r, d, onChangeView(r, d, msg), S)
<1> DEFINE x == [d.ChangeViewPayloads EXCEPT ![msg.from] = msg]
           d1 == [d EXCEPT !.ChangeViewPayloads = x]
<1>1. d.ChangeViewPayloads \in Slots(ChangeViews) /\ msg.newView \in Views
  BY FitTypes DEF ChangeViews
<1>2. x \in Slots(ChangeViews)
  BY <1>1 DEF Slots, ChangeViews
<1>3. d1 = [d EXCEPT !.ChangeViewPayloads[msg.from] = msg]
  OBVIOUS
<1> HIDE DEF x
<1>4. Still(r, d, d1, S)
  BY <1>2, FieldStill
<1> HIDE DEF d1
<1>5. Step(r, d, onRecoveryRequest(r, d, msg), S)
  BY onRecoveryRequestStill DEF Still
<1>6. ASSUME CommitSent(r, d) \/ PreCommitSent(r, d)
      PROVE  Step(r, d, sendRecoveryMessage(r, d), S)
  <2>1. r \in Validators
    BY <1>6, NodeFacts DEF CommitSent, PreCommitSent
  <2> QED
    BY <2>1, sendRecoveryMessageStill DEF Still
<1>7. ASSUME ~CommitSent(r, d), ~PreCommitSent(r, d)
      PROVE  Step(r, d, checkChangeView(r, d1, msg.newView), S)
  <2>1. Unlocked(r, d) /\ Loose(r, d, Due(r, S))
    BY <1>7, NothingSentUnlocked
  <2>2. /\ Step(r, d, d1, S) /\ Fit(r, d1, S) /\ Unlocked(r, d1)
        /\ Loose(r, d1, Due(r, S)) /\ ~d1.blockProcessed
    BY <1>4, <2>1, StillFacts
  <2>3. Step(r, d1, checkChangeView(r, d1, msg.newView), S)
    BY <1>1, <2>2, checkChangeViewStep
  <2> QED
    BY <2>2, <2>3, StepTransitive
<1> QED
  BY <1>3, <1>5, <1>6, <1>7, StepReflexive DEF onChangeView

\* What is rebuilt from a recovery message that does not lie does not either.
LEMMA RecoveredGenuine ==
  ASSUME NEW A, NEW msg \in RecoveryMessages, Genuine(msg, A), NEW i
  PROVE  \A m \in GetPrepareRequest(msg, i) \cup GetPrepareResponses(msg)
                    \cup GetChangeViews(msg) \cup GetPreCommits(msg) \cup GetCommits(msg) :
            Genuine(m, A)
<1>1. msg.type = "RecoveryMessage"
  BY DEF RecoveryMessages
<1>2. /\ \A c \in msg.preCommitPayloads :
            c.from \in Correct => Signed(A, "PreCommit", c.from, msg.height, c.sign)
      /\ \A c \in msg.commitPayloads :
            c.from \in Correct => Signed(A, "Commit", c.from, msg.height, c.sign)
  BY <1>1 DEF Genuine
<1>3. \A m \in GetPrepareRequest(msg, i) \cup GetPrepareResponses(msg) \cup GetChangeViews(msg) :
        m.type \notin {"PreCommit", "Commit", "RecoveryMessage"}
  BY DEF GetPrepareRequest, PrepareRequestMsg, GetPrepareResponses, PrepareResponseMsg,
         GetChangeViews, ChangeViewMsg
<1>4. ASSUME NEW m \in GetPreCommits(msg)
      PROVE  Genuine(m, A)
  <2>1. PICK c \in msg.preCommitPayloads : m = PreCommitMsg(msg.height, msg.view, c.from, c.sign)
    BY <1>4 DEF GetPreCommits
  <2>2. /\ m.type = "PreCommit" /\ m.from = c.from /\ m.height = msg.height
        /\ m.sign = c.sign
    BY <2>1 DEF PreCommitMsg
  <2> QED
    BY <1>2, <2>2 DEF Genuine
<1>5. ASSUME NEW m \in GetCommits(msg)
      PROVE  Genuine(m, A)
  <2>1. PICK c \in msg.commitPayloads : m = CommitMsg(msg.height, msg.view, c.from, c.sign)
    BY <1>5 DEF GetCommits
  <2>2. /\ m.type = "Commit" /\ m.from = c.from /\ m.height = msg.height
        /\ m.sign = c.sign
    BY <2>1 DEF CommitMsg
  <2> QED
    BY <1>2, <2>2 DEF Genuine
<1> QED
  BY <1>3, <1>4, <1>5 DEF Genuine

LEMMA ReplayGenuine ==
  ASSUME NEW A, NEW B, \A m \in B : Genuine(m, A)
  PROVE  GenuineItem(Replay(B), A)
  BY DEF GenuineItem, Replay

LEMMA onRecoveryMessageStill ==
  ASSUME NEW r, NEW S, NEW d, Fit(r, d, S), NEW msg \in RecoveryMessages,
         Genuine(msg, S \cup d.out)
  PROVE  Still(r, d, onRecoveryMessage(r, d, msg), S)
<1> DEFINE A == S \cup d.out
           first == [op |-> "preparations", msg |-> msg]
           second == [op |-> "commits", msg |-> msg]
           stages == <<first, second>>
           votes == Replay(GetChangeViews(msg))
<1>1. first \in WorkItems /\ second \in WorkItems
  BY DEF WorkItems
<1>2. GenuineItem(first, A) /\ GenuineItem(second, A)
  BY DEF GenuineItem
<1>3. 0 \in Validators
  BY NAssumption DEF Validators
<1>4. votes \in WorkItems
  BY <1>3, RecoveredType, ReplayType
<1>5. GenuineItem(votes, A)
  BY <1>3, RecoveredGenuine, ReplayGenuine
<1>6. onRecoveryMessage(r, d, msg) \in {d, Push(d, stages), Push(d, <<votes>> \o stages)}
  BY DEF onRecoveryMessage
<1> HIDE DEF first, second, votes
<1>7. stages \in Seq(WorkItems) /\ RangeOf(stages) = {first, second}
  BY <1>1 DEF RangeOf
<1>8. <<votes>> \in Seq(WorkItems) /\ RangeOf(<<votes>>) = {votes}
  BY <1>4 DEF RangeOf
<1> HIDE DEF stages
<1>9. /\ <<votes>> \o stages \in Seq(WorkItems)
      /\ \A item \in RangeOf(<<votes>> \o stages) : item \in {votes, first, second}
  BY <1>7, <1>8, ConcatRange
<1>10. Still(r, d, Push(d, stages), S)
  BY <1>2, <1>7, PushStill
<1>11. Still(r, d, Push(d, <<votes>> \o stages), S)
  BY <1>2, <1>5, <1>9, PushStill
<1> QED
  BY <1>6, <1>10, <1>11, StepReflexive

LEMMA recoverPreparationsStill ==
  ASSUME NEW r, NEW S, NEW d, Fit(r, d, S), NEW msg \in RecoveryMessages,
         Genuine(msg, S \cup d.out)
  PROVE  Still(r, d, recoverPreparations(r, d, msg), S)
<1> DEFINE A == S \cup d.out
           request == IF RequestSentOrReceived(d)
                      THEN {}
                      ELSE GetPrepareRequest(msg, PrimaryIndex(d))
           first == Replay(request)
           second == Replay(GetPrepareResponses(msg))
           items == <<first, second>>
<1>1. PrimaryIndex(d) \in Validators
  BY FitContext, NodeFacts
<1>2. request \in SUBSET Restorable /\ GetPrepareResponses(msg) \in SUBSET Restorable
  BY <1>1, RecoveredType
<1>3. recoverPreparations(r, d, msg) \in {d, Push(d, items)}
  BY DEF recoverPreparations
<1>4. /\ \A m \in request : Genuine(m, A)
      /\ \A m \in GetPrepareResponses(msg) : Genuine(m, A)
  BY RecoveredGenuine
<1> HIDE DEF request
<1>5. first \in WorkItems /\ second \in WorkItems
  BY <1>2, ReplayType
<1>6. GenuineItem(first, A) /\ GenuineItem(second, A)
  BY <1>4, ReplayGenuine
<1> HIDE DEF first, second
<1>7. items \in Seq(WorkItems) /\ RangeOf(items) = {first, second}
  BY <1>5 DEF RangeOf
<1>8. Still(r, d, Push(d, items), S)
  BY <1>6, <1>7, PushStill
<1> QED
  BY <1>3, <1>8, StepReflexive

LEMMA recoverCommitsStill ==
  ASSUME NEW r, NEW S, NEW d, Fit(r, d, S), NEW msg \in RecoveryMessages,
         Genuine(msg, S \cup d.out)
  PROVE  Still(r, d, recoverCommits(d, msg), S)
<1> DEFINE A == S \cup d.out
           first == Replay(GetPreCommits(msg))
           second == Replay(GetCommits(msg))
           items == <<first, second>>
<1>1. 0 \in Validators
  BY NAssumption DEF Validators
<1>2. GetPreCommits(msg) \in SUBSET Restorable /\ GetCommits(msg) \in SUBSET Restorable
  BY <1>1, RecoveredType
<1>3. recoverCommits(d, msg) \in {d, Push(d, items)}
  BY DEF recoverCommits
<1>4. /\ \A m \in GetPreCommits(msg) : Genuine(m, A)
      /\ \A m \in GetCommits(msg) : Genuine(m, A)
  BY RecoveredGenuine
<1>5. first \in WorkItems /\ second \in WorkItems
  BY <1>2, ReplayType
<1>6. GenuineItem(first, A) /\ GenuineItem(second, A)
  BY <1>4, ReplayGenuine
<1> HIDE DEF first, second
<1>7. items \in Seq(WorkItems) /\ RangeOf(items) = {first, second}
  BY <1>5 DEF RangeOf
<1>8. Still(r, d, Push(d, items), S)
  BY <1>6, <1>7, PushStill
<1> QED
  BY <1>3, <1>8, StepReflexive

LEMMA dispatchStep ==
  ASSUME NEW r \in Nodes, NEW S \in SUBSET Payloads, NEW d, Fit(r, d, S),
         NEW msg \in Payloads, msg.height = d.BlockIndex, Genuine(msg, S \cup d.out),
         d.blockProcessed => msg.type = "RecoveryRequest", NEW e
  PROVE  Step(r, d, dispatch(r, d, msg, e), S)
<1>1. CASE msg.type = "ChangeView"
  <2>1. dispatch(r, d, msg, e) = onChangeView(r, d, msg)
    BY <1>1 DEF dispatch
  <2> QED
    BY <1>1, <2>1, PayloadTypes, onChangeViewStep
<1>2. CASE msg.type = "PrepareRequest"
  <2>1. dispatch(r, d, msg, e) = onPrepareRequest(r, d, msg, e)
    BY <1>2 DEF dispatch
  <2> QED
    BY <1>2, <2>1, PayloadTypes, onPrepareRequestStep
<1>3. CASE msg.type = "PrepareResponse"
  <2>1. dispatch(r, d, msg, e) = onPrepareResponse(r, d, msg, e)
    BY <1>3 DEF dispatch
  <2> QED
    BY <1>3, <2>1, PayloadTypes, onPrepareResponseStep
<1>4. CASE msg.type = "Commit"
  <2>1. dispatch(r, d, msg, e) = onCommit(r, d, msg, e)
    BY <1>4 DEF dispatch
  <2> QED
    BY <1>4, <2>1, PayloadTypes, onCommitStep
<1>5. CASE msg.type = "PreCommit"
  <2>1. dispatch(r, d, msg, e)
            = IF isAntiMEVExtensionEnabled(d) THEN onPreCommit(r, d, msg, e) ELSE d
    BY <1>5 DEF dispatch
  <2> QED
    BY <1>5, <2>1, PayloadTypes, onPreCommitStep, StepReflexive
<1>6. CASE msg.type = "RecoveryRequest"
  <2>1. dispatch(r, d, msg, e) = onRecoveryRequest(r, d, msg)
    BY <1>6 DEF dispatch
  <2> QED
    BY <2>1, onRecoveryRequestStill DEF Still
<1>7. CASE msg.type \notin {"PrepareRequest", "PrepareResponse", "PreCommit", "Commit",
                            "ChangeView", "RecoveryRequest"}
  <2>1. dispatch(r, d, msg, e) = onRecoveryMessage(r, d, msg)
    BY <1>7 DEF dispatch
  <2>2. msg \in RecoveryMessages
    BY <1>7, PayloadTypes
  <2> QED
    BY <2>1, <2>2, onRecoveryMessageStill DEF Still
<1> QED
  BY <1>1, <1>2, <1>3, <1>4, <1>5, <1>6, <1>7

\* Whatever a node receives, as long as it does not lie about the signatures of
\* a correct validator, the node stays in order.
LEMMA OnReceiveStep ==
  ASSUME NEW r \in Nodes, NEW S \in SUBSET Payloads, NEW d, Fit(r, d, S),
         NEW msg \in Payloads, Genuine(msg, S \cup d.out), NEW e
  PROVE  Step(r, d, OnReceive(r, d, msg, e), S)
<1> DEFINE x == [d.LastSeenMessage EXCEPT ![msg.from] =
                    IF d.LastSeenMessage[msg.from] < msg.view
                    THEN msg.view
                    ELSE d.LastSeenMessage[msg.from]]
           seen == [d EXCEPT !.LastSeenMessage = x]
<1>1. d \in Contexts /\ d.LastSeenMessage \in [Validators -> Views \cup {-1}]
      /\ d.BlockIndex \in Nat
  BY FitContext, FitTypes
<1>2. msg.view \in Views /\ msg.from \in Validators /\ msg.height \in Nat
  BY PayloadTypes
<1>3. x \in [Validators -> Views \cup {-1}]
  BY <1>1, <1>2
<1>4. seen = [d EXCEPT !.LastSeenMessage[msg.from] =
                IF d.LastSeenMessage[msg.from] < msg.view
                THEN msg.view
                ELSE d.LastSeenMessage[msg.from]]
  OBVIOUS
<1> HIDE DEF x
<1>5. Still(r, d, seen, S) /\ seen.out = d.out
  <2>1. Still(r, d, seen, S)
    BY <1>3, FieldStill
  <2>2. seen.out = d.out
    BY <1>1 DEF Contexts
  <2> QED
    BY <2>1, <2>2
<1> HIDE DEF seen
<1>6. /\ Step(r, d, seen, S) /\ Fit(r, seen, S)
      /\ seen.BlockIndex = d.BlockIndex /\ seen.blockProcessed = d.blockProcessed
  BY <1>5, StillFacts
<1>7. Step(r, d, addMessage(d, msg), S)
  BY addMessageStill DEF Still
<1>8. ASSUME msg.height = d.BlockIndex, BlockSent(d) => msg.type = "RecoveryRequest"
      PROVE  Step(r, d, dispatch(r, seen, msg, e), S)
  <2>1. msg.height = seen.BlockIndex /\ (seen.blockProcessed => msg.type = "RecoveryRequest")
        /\ Genuine(msg, S \cup seen.out)
    BY <1>5, <1>6, <1>8 DEF BlockSent
  <2>2. Step(r, seen, dispatch(r, seen, msg, e), S)
    BY <1>6, <2>1, dispatchStep
  <2> QED
    BY <1>6, <2>2, StepTransitive
<1>9. ~(msg.height < d.BlockIndex) /\ ~(msg.height > d.BlockIndex) => msg.height = d.BlockIndex
  BY <1>1, <1>2
<1> QED
  BY <1>4, <1>6, <1>7, <1>8, <1>9, StepReflexive DEF OnReceive, isForeignOrOld

LEMMA onTimeoutStep ==
  ASSUME NEW r \in Nodes, NEW S \in SUBSET Payloads, NEW d, Fit(r, d, S),
         NEW height, NEW view, NEW force,
         NEW e, e.fill \in Proposals, e.refill \in Proposals
  PROVE  Step(r, d, onTimeout(r, d, height, view, force, e), S)
<1>1. SUFFICES ASSUME ~WatchOnly(r), ~BlockSent(d)
               PROVE  Step(r, d, onTimeout(r, d, height, view, force, e), S)
  BY StepReflexive DEF onTimeout
<1>2. r \in Validators /\ ~d.blockProcessed
  BY <1>1, NodeFacts DEF BlockSent
<1>3. ASSUME IsPrimary(r, d), ~RequestSentOrReceived(d)
      PROVE  Step(r, d, sendPrepareRequest(r, d, d.ViewNumber # 0 \/ d.txSubscriptionOn \/ force, e), S)
  BY <1>3, sendPrepareRequestStep DEF IsPrimary
<1>4. Step(r, d, changeTimer(sendRecoveryMessage(r, d), "resend"), S)
  <2> DEFINE d1 == sendRecoveryMessage(r, d)
  <2>1. Still(r, d, d1, S) /\ Fit(r, d1, S)
    BY <1>2, sendRecoveryMessageStill, StillFacts
  <2> HIDE DEF d1
  <2>2. Still(r, d1, changeTimer(d1, "resend"), S)
    BY <2>1, Names, changeTimerStill
  <2>3. Step(r, d, changeTimer(d1, "resend"), S)
    BY <2>1, <2>2, StepTransitive DEF Still
  <2> QED
    BY <2>3 DEF d1
<1>5. Step(r, d, [changeTimer(d, "forced") EXCEPT !.txSubscriptionOn = FALSE], S)
  <2> DEFINE d1 == changeTimer(d, "forced")
  <2>1. Still(r, d, d1, S) /\ Fit(r, d1, S)
    BY Names, changeTimerStill, StillFacts
  <2> HIDE DEF d1
  <2>2. Still(r, d1, [d1 EXCEPT !.txSubscriptionOn = FALSE], S)
    BY <2>1, FieldStill
  <2>3. Step(r, d, [d1 EXCEPT !.txSubscriptionOn = FALSE], S)
    BY <2>1, <2>2, StepTransitive DEF Still
  <2> QED
    BY <2>3 DEF d1
<1>6. Step(r, d, waitForTransactions(d, "subscribeBackup"), S)
  BY Names, waitForTransactionsStill DEF Still
<1>7. ASSUME ~CommitSent(r, d), ~PreCommitSent(r, d)
      PROVE  Step(r, d, sendChangeView(r, d, e, "CVTimeout"), S)
  BY <1>2, <1>7, NothingSentUnlocked, sendChangeViewStep
<1> QED
  BY <1>3, <1>4, <1>5, <1>6, <1>7, StepReflexive DEF onTimeout

-----------------------------------------------------------------------------
(* The network.                                                             *)

\* The inductive invariant.
PInv == IInv /\ PromisesKept

\* No step makes a correct validator go back on its own (pre)commit while it
\* is at the same height.
Locks ==
    \A r \in Correct :
        ctx'[r].BlockIndex = ctx[r].BlockIndex => Keeps(r, ctx[r], ctx'[r])

\* Between two steps every node is in order.
LEMMA StateFit ==
  ASSUME PInv, NEW r \in Running
  PROVE  /\ Fit(r, ctx[r], msgs)
         /\ ctx[r] \in Contexts /\ ctx[r].out = {}
         /\ msgs \in SUBSET Payloads
         /\ r \in Nodes
<1>1. /\ Good(r, ctx[r], Owed(r)) /\ ctx[r] \in Contexts /\ r \in Nodes
      /\ ctx[r].out = {} /\ msgs \in SUBSET Payloads
  BY StateGood DEF PInv, IInv, TypeOK
<1>2. Owed(r) = Due(r, msgs) /\ msgs \cup ctx[r].out = msgs
  BY <1>1 DEF Owed, Due
<1> QED
  BY <1>1, <1>2 DEF Fit, PInv, PromisesKept

\* What of the network the promises are about: a lost payload is none of it.
LEMMA LostPayloads ==
  ASSUME NEW A, NEW lost, \A m \in lost : m.type = "RecoveryMessage"
  PROVE  LET B == A \ lost
         IN  /\ \A type, i, h, s : type # "RecoveryMessage" =>
                    Signed(B, type, i, h, s) = Signed(A, type, i, h, s)
             /\ \A m : Genuine(m, B) = Genuine(m, A)
             /\ \A item : GenuineItem(item, B) = GenuineItem(item, A)
             /\ \A r : Prepared(r, B) = Prepared(r, A)
             /\ \A m \in A : m.type # "RecoveryMessage" => m \in B
<1> DEFINE B == A \ lost
<1>1. \A type, i, h, s : type # "RecoveryMessage" =>
        Signed(B, type, i, h, s) = Signed(A, type, i, h, s)
  BY DEF Signed
<1>2. \A m \in A : m.type # "RecoveryMessage" => m \in B
  OBVIOUS
<1>3. \A r : Prepared(r, B) = Prepared(r, A)
  BY <1>2 DEF Prepared
<1> HIDE DEF B
<1>4. \A h, i, s : /\ Signed(B, "PreCommit", i, h, s) = Signed(A, "PreCommit", i, h, s)
                   /\ Signed(B, "Commit", i, h, s) = Signed(A, "Commit", i, h, s)
  BY <1>1
<1>5. ASSUME NEW m PROVE Genuine(m, B) = Genuine(m, A)
  BY <1>4 DEF Genuine
<1>6. \A item : GenuineItem(item, B) = GenuineItem(item, A)
  BY <1>5 DEF GenuineItem
<1> QED
  BY <1>1, <1>2, <1>3, <1>5, <1>6 DEF B

\* A correct validator is bound by its own payloads only.
LEMMA OthersPayloads ==
  ASSUME NEW r \in Correct, NEW d \in Contexts, NEW A, NEW B \in SUBSET Payloads,
         A \subseteq B, \A m \in B \ A : m.from # r,
         Consistent(r, d, A), Locked(r, d, A)
  PROVE  Consistent(r, d, B) /\ Locked(r, d, B)
<1>1. Prepared(r, B) = Prepared(r, A)
  BY DEF Prepared
<1>2. Consistent(r, d, B)
  BY <1>1 DEF Consistent
<1>3. \A m \in B : m.from = r => m \in A
  OBVIOUS
<1>4. Locked(r, d, B)
  BY <1>3 DEF Locked
<1> QED
  BY <1>2, <1>4

\* What the promises say of a context does not depend on its broadcasts once
\* they are on the network, nor on its fields for the timer.
LEMMA QuietContext ==
  ASSUME NEW r, NEW S \in SUBSET Payloads, NEW d, Fit(r, d, S), NEW d1 \in Contexts,
         d1.BlockIndex = d.BlockIndex, d1.ViewNumber = d.ViewNumber,
         d1.PreparationPayloads = d.PreparationPayloads,
         d1.PreCommitPayloads = d.PreCommitPayloads,
         d1.CommitPayloads = d.CommitPayloads,
         d1.proposal = d.proposal, d1.preBlockProcessed = d.preBlockProcessed,
         d1.cache = d.cache, d1.todo = d.todo, d1.out = {},
         NEW lost, \A m \in lost : m.type = "RecoveryMessage"
  PROVE  LET A == (S \cup d.out) \ lost
         IN  /\ Tidy(d1) /\ HoldsGenuine(d1, A)
             /\ \A m \in d.out : Genuine(m, A)
             /\ r \in Correct => Consistent(r, d1, A) /\ Locked(r, d1, A)
             /\ Keeps(r, d, d1)
<1> DEFINE B == S \cup d.out
           A == B \ lost
<1>1. /\ PrimaryIndex(d1) = PrimaryIndex(d)
      /\ RequestSentOrReceived(d1) = RequestSentOrReceived(d)
      /\ isAntiMEVExtensionEnabled(d1) = isAntiMEVExtensionEnabled(d)
      /\ MakePreHeader(d1) = MakePreHeader(d)
  BY DEF PrimaryIndex, RequestSentOrReceived, isAntiMEVExtensionEnabled, MakePreHeader
<1>2. Tidy(d) /\ HoldsGenuine(d, B) /\ (r \in Correct => Consistent(r, d, B) /\ Locked(r, d, B))
  BY DEF Fit
<1> HIDE DEF B
<1>3. /\ \A m : Genuine(m, A) = Genuine(m, B)
      /\ \A item : GenuineItem(item, A) = GenuineItem(item, B)
      /\ Prepared(r, A) = Prepared(r, B)
      /\ \A m \in B : m.type # "RecoveryMessage" => m \in A
  <2> DEFINE C == B \ lost
  <2>1. /\ \A m : Genuine(m, C) = Genuine(m, B)
        /\ \A item : GenuineItem(item, C) = GenuineItem(item, B)
        /\ \A i : Prepared(i, C) = Prepared(i, B)
        /\ \A m \in B : m.type # "RecoveryMessage" => m \in C
    BY ONLY \A m \in lost : m.type = "RecoveryMessage", LostPayloads
  <2> QED
    BY <2>1
<1>4. A \subseteq B
  OBVIOUS
<1> HIDE DEF A
<1>5. Tidy(d1)
  BY <1>1, <1>2 DEF Tidy
<1>6. HoldsGenuine(d1, A)
  BY <1>2, <1>3 DEF HoldsGenuine
<1>7. \A m \in d.out : Genuine(m, A)
  BY <1>2, <1>3 DEF HoldsGenuine
<1>8. ASSUME r \in Correct
      PROVE  Consistent(r, d1, A) /\ Locked(r, d1, A)
  <2>1. Consistent(r, d1, A)
    BY <1>1, <1>2, <1>3, <1>8 DEF Consistent
  <2>2. Locked(r, d, B)
    BY <1>2, <1>8
  <2>3. r \in Validators
    BY <1>8, CorrectFacts
  <2>4. d.CommitPayloads[r] # Nil => d.CommitPayloads[r].type = "Commit"
    BY <2>3, FitContext DEF Contexts, Slots, Commits
  <2>5. d.CommitPayloads[r] # Nil => d.CommitPayloads[r] \in A
    BY <1>3, <2>2, <2>4 DEF Locked
  <2>6. d.PreCommitPayloads[r] # Nil =>
          /\ RequestSentOrReceived(d)
          /\ d.PreCommitPayloads[r]
              = PreCommitMsg(d.BlockIndex, d.ViewNumber, r, MakePreHeader(d))
          /\ d.PreCommitPayloads[r] \in A
    <3>1. SUFFICES ASSUME d.PreCommitPayloads[r] # Nil
                   PROVE  /\ RequestSentOrReceived(d)
                          /\ d.PreCommitPayloads[r]
                              = PreCommitMsg(d.BlockIndex, d.ViewNumber, r, MakePreHeader(d))
                          /\ d.PreCommitPayloads[r] \in A
      OBVIOUS
    <3>2. /\ RequestSentOrReceived(d)
          /\ d.PreCommitPayloads[r]
              = PreCommitMsg(d.BlockIndex, d.ViewNumber, r, MakePreHeader(d))
          /\ d.PreCommitPayloads[r] \in B
      BY <2>2, <3>1 DEF Locked
    <3>3. d.PreCommitPayloads[r].type = "PreCommit"
      BY <3>2 DEF PreCommitMsg
    <3> QED
      BY <1>3, <3>2, <3>3
  <2>7. \A m \in A :
          m.type = "PreCommit" /\ m.from = r =>
              \/ m.height < d.BlockIndex
              \/ m.height = d.BlockIndex /\ d.PreCommitPayloads[r] # Nil
    BY <1>4, <2>2 DEF Locked
  <2>8. ASSUME NEW m \in A, m.type = "Commit", m.from = r,
               0 <= AntiMEVExtensionEnablingHeight,
               AntiMEVExtensionEnablingHeight <= m.height
        PROVE  PreCommitMsg(m.height, m.view, m.from, m.sign) \in A
    <3>1. PreCommitMsg(m.height, m.view, m.from, m.sign) \in B
      BY <1>4, <2>2, <2>8 DEF Locked
    <3>2. PreCommitMsg(m.height, m.view, m.from, m.sign).type = "PreCommit"
      BY DEF PreCommitMsg
    <3> QED
      BY <1>3, <3>1, <3>2
  <2>9. Locked(r, d1, A)
    BY <1>1, <2>5, <2>6, <2>7, <2>8 DEF Locked
  <2> QED
    BY <2>1, <2>9
<1>9. Keeps(r, d, d1)
  BY DEF Keeps
<1> QED
  BY <1>5, <1>6, <1>7, <1>8, <1>9 DEF A, B

\* A step that leaves the stepping node in order keeps the promises.
LEMMA BecomesPromises ==
  ASSUME PInv, NEW r \in Running, NEW d, Fit(r, d, msgs), Becomes(r, d)
  PROVE  /\ PromisesKept'
         /\ ctx'[r].BlockIndex = d.BlockIndex
         /\ Keeps(r, ctx[r], d) => Locks
<1> DEFINE d0 == [d EXCEPT !.out = {}]
           d1 == [d0 EXCEPT !.calls = <<>>]
<1>1. /\ d \in Contexts /\ d.out \in SUBSET Payloads
      /\ \A m \in d.out : m.from = r
  <2>1. d \in Contexts
    BY FitContext
  <2>2. d.out \in SUBSET Payloads
    BY <2>1 DEF Contexts
  <2> QED
    BY <2>1, <2>2 DEF Fit
<1>2. ctx \in [Running -> Contexts] /\ msgs \in SUBSET Payloads
  BY DEF PInv, IInv, TypeOK
<1>3. d0 \in Contexts /\ d1 \in Contexts
  <2>1. d0 \in Contexts
    BY <1>1, FieldTypes
  <2> HIDE DEF d0
  <2>2. <<>> \in Seq(TimerCalls)
    OBVIOUS
  <2>3. [d0 EXCEPT !.calls = <<>>] \in Contexts
    BY <2>1, <2>2, FieldTypes
  <2> QED
    BY <2>1, <2>3
<1>4. /\ d1.BlockIndex = d.BlockIndex
      /\ d1.ViewNumber = d.ViewNumber
      /\ d1.PreparationPayloads = d.PreparationPayloads
      /\ d1.PreCommitPayloads = d.PreCommitPayloads
      /\ d1.CommitPayloads = d.CommitPayloads
      /\ d1.proposal = d.proposal
      /\ d1.preBlockProcessed = d.preBlockProcessed
      /\ d1.cache = d.cache
      /\ d1.todo = d.todo
      /\ d1.out = {}
  BY <1>1, <1>3 DEF Contexts
<1>5. ctx' = [ctx EXCEPT ![r] = d1]
  BY DEF Becomes
<1> HIDE DEF d1
<1>6. ctx'[r] = d1 /\ (\A s \in Running \ {r} : ctx'[s] = ctx[s])
  BY <1>2, <1>5
<1>7. PICK lost \in SUBSET RecoveriesOf(d.out) : msgs' = msgs \cup (d.out \ lost)
  BY DEF Becomes, Send
<1> DEFINE gone == lost \ msgs
           A == (msgs \cup d.out) \ gone
<1>8. msgs' = A /\ msgs \subseteq A /\ \A m \in gone : m.type = "RecoveryMessage"
  BY <1>7 DEF RecoveriesOf
<1>9. A \in SUBSET Payloads /\ \A m \in A \ msgs : m \in d.out
  BY <1>1, <1>2
<1>10. /\ Tidy(d1) /\ HoldsGenuine(d1, A)
       /\ \A m \in d.out : Genuine(m, A)
       /\ r \in Correct => Consistent(r, d1, A) /\ Locked(r, d1, A)
       /\ Keeps(r, d, d1)
  BY <1>2, <1>3, <1>4, <1>8, QuietContext
<1> HIDE DEF A, gone
<1>11. /\ \A m : Genuine(m, msgs) => Genuine(m, A)
       /\ \A item : GenuineItem(item, msgs) => GenuineItem(item, A)
  BY <1>8, GenuineGrows
<1>12. \A m \in A : Genuine(m, A)
  BY <1>9, <1>10, <1>11 DEF PInv, PromisesKept
<1>13. ASSUME NEW s \in Running
       PROVE  Tidy(ctx'[s]) /\ HoldsGenuine(ctx'[s], A)
  <2>1. CASE s = r
    BY <1>6, <1>10, <2>1
  <2>2. CASE s # r
    <3>1. Tidy(ctx[s]) /\ HoldsGenuine(ctx[s], msgs)
      BY DEF PInv, PromisesKept
    <3>2. HoldsGenuine(ctx[s], A)
      BY <1>11, <3>1 DEF HoldsGenuine
    <3> QED
      BY <1>6, <2>2, <3>1, <3>2
  <2> QED
    BY <2>1, <2>2
<1>14. ASSUME NEW s \in Correct
       PROVE  Consistent(s, ctx'[s], A) /\ Locked(s, ctx'[s], A)
  <2>1. s \in Running
    BY RunningFacts
  <2>2. CASE s = r
    BY <1>6, <1>10, <1>14, <2>2
  <2>3. CASE s # r
    <3>1. Consistent(s, ctx[s], msgs) /\ Locked(s, ctx[s], msgs) /\ ctx[s] \in Contexts
      BY <1>2, <2>1 DEF PInv, PromisesKept
    <3>2. \A m \in A \ msgs : m.from # s
      BY <1>1, <1>9, <2>3
    <3>3. Consistent(s, ctx[s], A) /\ Locked(s, ctx[s], A)
      BY <1>8, <1>9, <3>1, <3>2, OthersPayloads
    <3> QED
      BY <1>6, <2>1, <2>3, <3>3
  <2> QED
    BY <2>2, <2>3
<1>15. PromisesKept'
  BY <1>8, <1>12, <1>13, <1>14 DEF PromisesKept, Correct, Running
<1>16. ASSUME Keeps(r, ctx[r], d) PROVE Locks
  <2>1. ASSUME NEW s \in Correct PROVE Keeps(s, ctx[s], ctx'[s])
    <3>1. CASE s = r
      BY <1>6, <1>10, <1>16, <3>1, KeepsTransitive
    <3>2. CASE s # r
      BY <1>6, <3>2, RunningFacts, KeepsReflexive
    <3> QED
      BY <3>1, <3>2
  <2> QED
    BY <2>1 DEF Locks
<1> QED
  BY <1>4, <1>6, <1>15, <1>16

-----------------------------------------------------------------------------
(* The initial states.                                                      *)

LEMMA NewContextPromises ==
  /\ Tidy(NewContext)
  /\ \A A : HoldsGenuine(NewContext, A)
  /\ \A r \in Validators :
        NewContext.CommitPayloads[r] = Nil /\ NewContext.PreCommitPayloads[r] = Nil
<1>1. NewContext \in Contexts /\ NewContext.out = {} /\ NewContext.cache = {}
      /\ NewContext.todo = <<>> /\ NewContext.preBlockProcessed = FALSE
      /\ NewContext.PreCommitPayloads = NoPayloads
      /\ NewContext.PreparationPayloads = NoPayloads
      /\ NewContext.CommitPayloads = NoPayloads
  BY NewContextSane DEF Sane, NewContext
<1>2. PrimaryIndex(NewContext) \in Validators
  BY <1>1, NodeFacts
<1>3. ~RequestSentOrReceived(NewContext)
  BY <1>1, <1>2 DEF RequestSentOrReceived, NoPayloads
<1>4. Tidy(NewContext)
  BY <1>1, <1>3 DEF Tidy
<1>5. RangeOf(NewContext.todo) = {}
  BY <1>1 DEF RangeOf
<1>6. \A i \in Validators :
        NewContext.CommitPayloads[i] = Nil /\ NewContext.PreCommitPayloads[i] = Nil
  BY <1>1 DEF NoPayloads
<1>7. \A A : HoldsGenuine(NewContext, A)
  BY <1>1, <1>5, <1>6 DEF HoldsGenuine
<1> QED
  BY <1>4, <1>6, <1>7

LEMMA InitPromises == Init => PInv
<1>1. SUFFICES ASSUME Init PROVE PInv
  OBVIOUS
<1>2. msgs = {} /\ \A r \in Running : ctx[r] = NewContext
  BY <1>1 DEF Init
<1>3. \A r \in Running : Tidy(ctx[r]) /\ HoldsGenuine(ctx[r], msgs)
  BY <1>2, NewContextPromises
<1>4. ASSUME NEW r \in Correct
      PROVE  Consistent(r, ctx[r], msgs) /\ Locked(r, ctx[r], msgs)
  <2>1. ctx[r].CommitPayloads[r] = Nil /\ ctx[r].PreCommitPayloads[r] = Nil
    BY <1>2, RunningFacts, CorrectFacts, NewContextPromises
  <2>2. Prepared(r, msgs) = {}
    BY <1>2 DEF Prepared
  <2> QED
    BY <1>2, <2>1, <2>2 DEF Consistent, Locked
<1> QED
  BY <1>1, <1>2, <1>3, <1>4, InitInv DEF PInv, PromisesKept

-----------------------------------------------------------------------------
(* The steps.                                                               *)

\* The step of a node that ends in a context in order.
LEMMA StepPromises ==
  ASSUME PInv, NEW r \in Running, NEW d, Step(r, ctx[r], d, msgs), Becomes(r, d)
  PROVE  PromisesKept' /\ Locks
  BY BecomesPromises DEF Step

\* Whatever is delivered, the commits of correct validators in it are theirs.
LEMMA DeliveredGenuine ==
  ASSUME PInv, NEW r \in Running, NEW m \in msgs \cup Injected, Deliver(r, m)
  PROVE  Genuine(m, msgs)
<1>1. CASE m \in msgs
  BY <1>1 DEF PInv, PromisesKept
<1>2. CASE m \notin msgs
  <2>1. Authentic(m) /\ m \in Injected
    BY <1>2 DEF Deliver
  <2>2. m.from \notin Correct
    BY <2>1, FaultAssumption DEF Correct
  <2>3. ASSUME m.type = "RecoveryMessage"
        PROVE  /\ \A c \in m.preCommitPayloads :
                    c.from \in Correct => Signed(msgs, "PreCommit", c.from, m.height, c.sign)
               /\ \A c \in m.commitPayloads :
                    c.from \in Correct => Signed(msgs, "Commit", c.from, m.height, c.sign)
    BY <2>1, <2>3, CorrectFacts DEF Authentic, Signed
  <2> QED
    BY <2>2, <2>3 DEF Genuine
<1> QED
  BY <1>1, <1>2

LEMMA DeliverPromises ==
  ASSUME PInv, NEW r \in Running, NEW m \in msgs \cup Injected, Deliver(r, m)
  PROVE  PromisesKept' /\ Locks
<1>1. Fit(r, ctx[r], msgs) /\ ctx[r].out = {} /\ msgs \in SUBSET Payloads /\ r \in Nodes
  BY StateFit
<1>2. m \in Payloads
  BY <1>1, RunningFacts
<1>3. PICK e \in Callbacks : Becomes(r, OnReceive(r, ctx[r], m, e))
  BY DEF Deliver
<1>4. Genuine(m, msgs)
  BY DeliveredGenuine
<1>5. Genuine(m, msgs \cup ctx[r].out)
  BY <1>4, GenuineGrows
<1>6. Step(r, ctx[r], OnReceive(r, ctx[r], m, e), msgs)
  BY <1>1, <1>2, <1>5, OnReceiveStep
<1> QED
  BY <1>3, <1>6, StepPromises

LEMMA OnTransactionPromises ==
  ASSUME PInv, NEW r \in Running, NEW tx \in Tx, OnTransaction(r, tx)
  PROVE  PromisesKept' /\ Locks
<1>1. Fit(r, ctx[r], msgs) /\ msgs \in SUBSET Payloads /\ r \in Nodes
  BY StateFit
<1>2. PICK e \in Callbacks : Becomes(r, onTransaction(r, ctx[r], tx, e))
  BY DEF OnTransaction
<1>3. Step(r, ctx[r], onTransaction(r, ctx[r], tx, e), msgs)
  BY <1>1, onTransactionStep
<1> QED
  BY <1>2, <1>3, StepPromises

LEMMA OnTimeoutPromises ==
  ASSUME PInv, NEW r \in Running, OnTimeout(r) \/ OnNewTransaction(r)
  PROVE  PromisesKept' /\ Locks
<1> DEFINE stopped == [ctx[r].timer EXCEPT !.armed = FALSE]
           d == [ctx[r] EXCEPT !.timer = stopped]
<1>1. Fit(r, ctx[r], msgs) /\ msgs \in SUBSET Payloads /\ r \in Nodes /\ ctx[r] \in Contexts
  BY StateFit
<1>2. \A e \in FillCallbacks : e.fill \in Proposals /\ e.refill \in Proposals
  BY RunningFacts DEF FillCallbacks
<1>3. stopped \in [height : Nat, view : Views, armed : BOOLEAN]
  BY <1>1 DEF Contexts
<1> HIDE DEF stopped
<1>4. Step(r, ctx[r], d, msgs) /\ Fit(r, d, msgs)
  BY <1>1, <1>3, FieldStill, StillFacts
<1> HIDE DEF d
<1>5. CASE OnTimeout(r)
  <2>1. PICK e \in FillCallbacks :
            Becomes(r, onTimeout(r, d, ctx[r].timer.height, ctx[r].timer.view, FALSE, e))
    BY <1>5 DEF OnTimeout, d, stopped
  <2>2. Step(r, d, onTimeout(r, d, ctx[r].timer.height, ctx[r].timer.view, FALSE, e), msgs)
    BY <1>1, <1>2, <1>4, onTimeoutStep
  <2> QED
    BY <1>4, <2>1, <2>2, StepTransitive, StepPromises
<1>6. CASE OnNewTransaction(r)
  <2>1. PICK e \in FillCallbacks :
            Becomes(r, onTimeout(r, ctx[r], ctx[r].timer.height, ctx[r].timer.view, TRUE, e))
    BY <1>6 DEF OnNewTransaction
  <2>2. Step(r, ctx[r], onTimeout(r, ctx[r], ctx[r].timer.height, ctx[r].timer.view, TRUE, e),
             msgs)
    BY <1>1, <1>2, onTimeoutStep
  <2> QED
    BY <2>1, <2>2, StepPromises
<1> QED
  BY <1>5, <1>6

\* A step to another height.
LEMMA NewHeightLocks ==
  ASSUME PInv, NEW r \in Running, NEW d, Becomes(r, d),
         ctx'[r].BlockIndex # ctx[r].BlockIndex
  PROVE  Locks
<1>1. \A s \in Running \ {r} : ctx'[s] = ctx[s]
  BY DEF Becomes, PInv, IInv, TypeOK
<1> QED
  BY <1>1, RunningFacts, KeepsReflexive DEF Locks

\* A new height binds nobody yet.
LEMMA StartPromises ==
  ASSUME PInv, RInv, NEW r \in Running, Start(r)
  PROVE  PromisesKept' /\ Locks
<1>1. PICK e \in FillCallbacks :
        LET d == initializeConsensus(r, ctx[r], 0, Len(ledger[r]) + 1)
        IN  Becomes(r, IF IsPrimary(r, d) THEN sendPrepareRequest(r, d, TRUE, e) ELSE d)
  BY DEF Start
<1> DEFINE d == initializeConsensus(r, ctx[r], 0, Len(ledger[r]) + 1)
           d1 == IF IsPrimary(r, d) THEN sendPrepareRequest(r, d, TRUE, e) ELSE d
<1>2. Fit(r, ctx[r], msgs) /\ msgs \in SUBSET Payloads /\ r \in Nodes /\ ctx[r].BlockIndex = 0
  BY StateFit DEF Start
<1>3. Len(ledger[r]) + 1 \in Nat /\ Len(ledger[r]) + 1 > ctx[r].BlockIndex
  BY <1>2 DEF PInv, IInv, TypeOK
<1>4. Fit(r, d, msgs) /\ ~RequestSentOrReceived(d)
  BY <1>2, <1>3, ViewFacts, initializeConsensusFit
<1>5. Becomes(r, d1)
  BY <1>1
<1>6. e.fill \in Proposals /\ e.refill \in Proposals
  BY <1>1, RunningFacts DEF FillCallbacks
<1> HIDE DEF d
<1>7. ASSUME IsPrimary(r, d) PROVE Fit(r, sendPrepareRequest(r, d, TRUE, e), msgs)
  BY <1>2, <1>4, <1>6, <1>7, sendPrepareRequestStep DEF IsPrimary, Step
<1>8. Fit(r, d1, msgs)
  BY <1>4, <1>7
<1> HIDE DEF d1
<1>9. PromisesKept'
  BY <1>5, <1>8, BecomesPromises
<1>10. Locks
  <2>1. ctx'[r].BlockIndex > ctx[r].BlockIndex
    BY StartAlert
  <2> QED
    BY <1>2, <1>5, <2>1, NewHeightLocks
<1> QED
  BY <1>9, <1>10

LEMMA ResetPromises ==
  ASSUME PInv, RInv, NEW r \in Running, Reset(r)
  PROVE  PromisesKept' /\ Locks
<1> DEFINE d == initializeConsensus(r, ctx[r], 0, Len(ledger[r]) + 1)
<1>1. Fit(r, ctx[r], msgs) /\ msgs \in SUBSET Payloads /\ r \in Nodes
      /\ ctx[r].BlockIndex \in Nat
  BY StateFit DEF Contexts
<1>2. Len(ledger[r]) + 1 \in Nat /\ Len(ledger[r]) + 1 > ctx[r].BlockIndex
  BY <1>1 DEF PInv, IInv, TypeOK, Reset
<1>3. Fit(r, d, msgs)
  BY <1>1, <1>2, ViewFacts, initializeConsensusFit
<1>4. Becomes(r, d)
  BY DEF Reset
<1> HIDE DEF d
<1>5. PromisesKept'
  BY <1>3, <1>4, BecomesPromises
<1>6. Locks
  <2>1. ctx'[r].BlockIndex > ctx[r].BlockIndex
    BY ResetAlert
  <2> QED
    BY <1>1, <1>4, <2>1, NewHeightLocks
<1> QED
  BY <1>5, <1>6

LEMMA ContinuePromises ==
  ASSUME PInv, NEW r \in Running, Continue(r)
  PROVE  PromisesKept' /\ Locks
<1> DEFINE item == Head(ctx[r].todo)
           d == Pop(ctx[r])
<1>1. ctx[r].todo # <<>>
  BY DEF Continue, ContinueReplay, ContinueArmTimer, ContinuePreparations,
         ContinueCommits, ContinueDeleteMissing, Pending
<1>2. item \in WorkItems
  BY <1>1, PopFacts DEF PInv
<1>3. /\ Fit(r, ctx[r], msgs) /\ msgs \in SUBSET Payloads /\ r \in Nodes
      /\ ctx[r] \in Contexts /\ ctx[r].out = {}
  BY StateFit
<1>4. Tail(ctx[r].todo) \in Seq(WorkItems) /\ item \in RangeOf(ctx[r].todo)
      /\ RangeOf(Tail(ctx[r].todo)) \subseteq RangeOf(ctx[r].todo)
  <2> DEFINE s == ctx[r].todo
  <2>1. s \in Seq(WorkItems) /\ s # <<>>
    BY <1>1, <1>3 DEF Contexts
  <2>2. Head(s) = s[1] /\ 1 \in DOMAIN s /\ Tail(s) \in Seq(WorkItems)
    BY <2>1
  <2>3. \A i \in DOMAIN Tail(s) : i + 1 \in DOMAIN s /\ Tail(s)[i] = s[i + 1]
    BY <2>1
  <2> HIDE DEF s
  <2>4. Head(s) \in RangeOf(s) /\ RangeOf(Tail(s)) \subseteq RangeOf(s)
    BY <2>2, <2>3 DEF RangeOf
  <2> QED
    BY <2>2, <2>4 DEF s
<1>5. Step(r, ctx[r], d, msgs) /\ Fit(r, d, msgs) /\ d \in Contexts
  <2>1. \A x \in RangeOf(Tail(ctx[r].todo)) :
          x \in RangeOf(ctx[r].todo) \/ GenuineItem(x, msgs \cup ctx[r].out)
    BY <1>4
  <2>2. Still(r, ctx[r], [ctx[r] EXCEPT !.todo = Tail(ctx[r].todo)], msgs)
    BY <1>3, <1>4, <2>1, TodoStill
  <2>3. d = [ctx[r] EXCEPT !.todo = Tail(ctx[r].todo)]
    BY DEF Pop
  <2> HIDE DEF d
  <2> QED
    BY <2>2, <2>3, StillFacts
<1>6. GenuineItem(item, msgs)
  BY <1>4 DEF PInv, PromisesKept, HoldsGenuine
<1>7. \A x : GenuineItem(item, msgs \cup x)
  BY <1>6, GenuineGrows
<1> HIDE DEF d
<1>8. ASSUME NEW d1, Step(r, d, d1, msgs), Becomes(r, d1)
      PROVE  PromisesKept' /\ Locks
  BY <1>5, <1>8, StepTransitive, StepPromises
<1>9. CASE ContinueReplay(r)
  <2>1. item.op = "replay"
    BY <1>9 DEF ContinueReplay, Pending
  <2>2. item.payloads \subseteq Payloads /\ \A m \in item.payloads : Genuine(m, msgs)
    BY <1>2, <1>6, <2>1, WorkItemTypes DEF Payloads, GenuineItem
  <2>3. \/ Becomes(r, d)
        \/ \E m \in item.payloads, e \in Callbacks :
             LET rest == [item EXCEPT !.payloads = item.payloads \ {m}]
                 d1 == Push(d, <<rest>>)
             IN  Becomes(r, IF Beyond(m) THEN d1 ELSE OnReceive(r, d1, m, e))
    BY <1>9 DEF ContinueReplay, d
  <2>4. CASE Becomes(r, d)
    BY <1>5, <1>8, <2>4, StepReflexive
  <2>5. ASSUME NEW m \in item.payloads, NEW e \in Callbacks,
               LET rest == [item EXCEPT !.payloads = item.payloads \ {m}]
                   d1 == Push(d, <<rest>>)
               IN  Becomes(r, IF Beyond(m) THEN d1 ELSE OnReceive(r, d1, m, e))
        PROVE  PromisesKept' /\ Locks
    <3> DEFINE rest == [item EXCEPT !.payloads = item.payloads \ {m}]
               d1 == Push(d, <<rest>>)
               d2 == IF Beyond(m) THEN d1 ELSE OnReceive(r, d1, m, e)
    <3>1. rest \in WorkItems
      BY <1>2, <2>1, WorkItemTypes
    <3>2. GenuineItem(rest, msgs)
      <4>1. rest.op = item.op /\ rest.payloads \subseteq item.payloads
        BY <1>2, <2>1 DEF WorkItems
      <4> HIDE DEF rest
      <4> QED
        BY <2>1, <2>2, <4>1 DEF GenuineItem
    <3>3. Becomes(r, d2)
      BY <2>5
    <3> HIDE DEF rest
    <3>4. <<rest>> \in Seq(WorkItems) /\ RangeOf(<<rest>>) = {rest}
      BY <3>1 DEF RangeOf
    <3>5. \A i \in RangeOf(<<rest>>) : GenuineItem(i, msgs \cup d.out)
      BY <3>2, <3>4, GenuineGrows
    <3>6. Still(r, d, d1, msgs)
      BY <1>5, <3>4, <3>5, PushStill
    <3> HIDE DEF d1
    <3>7. Step(r, d, d1, msgs) /\ Fit(r, d1, msgs)
      BY <3>6, StillFacts
    <3>8. m \in Payloads /\ Genuine(m, msgs \cup d1.out)
      BY <2>2, GenuineGrows
    <3>9. Step(r, d1, OnReceive(r, d1, m, e), msgs)
      BY <1>3, <3>7, <3>8, OnReceiveStep
    <3>10. Step(r, d, d2, msgs)
      BY <3>7, <3>9, StepTransitive
    <3> HIDE DEF d2
    <3> QED
      BY <1>8, <3>3, <3>10
  <2> QED
    BY <2>3, <2>4, <2>5
<1>10. CASE ContinueArmTimer(r)
  <2>1. Step(r, d, armTimer(r, d, item.view), msgs)
    BY <1>5, armTimerStill, StillFacts
  <2> QED
    BY <1>8, <1>10, <2>1 DEF ContinueArmTimer, d
<1>11. CASE ContinuePreparations(r)
  <2>1. item.msg \in RecoveryMessages /\ Genuine(item.msg, msgs \cup d.out)
    BY <1>2, <1>7, <1>11, WorkItemTypes DEF ContinuePreparations, Pending, GenuineItem
  <2>2. Step(r, d, recoverPreparations(r, d, item.msg), msgs)
    BY <1>5, <2>1, recoverPreparationsStill, StillFacts
  <2> QED
    BY <1>8, <1>11, <2>2 DEF ContinuePreparations, d
<1>12. CASE ContinueCommits(r)
  <2>1. item.msg \in RecoveryMessages /\ Genuine(item.msg, msgs \cup d.out)
    BY <1>2, <1>7, <1>12, WorkItemTypes DEF ContinueCommits, Pending, GenuineItem
  <2>2. Step(r, d, recoverCommits(d, item.msg), msgs)
    BY <1>5, <2>1, recoverCommitsStill, StillFacts
  <2> QED
    BY <1>8, <1>12, <2>2 DEF ContinueCommits, d
<1>13. CASE ContinueDeleteMissing(r)
  <2>1. item.index \in Nat
    BY <1>2, <1>13, WorkItemTypes DEF ContinueDeleteMissing, Pending
  <2>2. Step(r, d, deleteMissing(d, item.index), msgs)
    BY <1>5, <2>1, deleteMissingStill, StillFacts
  <2> QED
    BY <1>8, <1>13, <2>2 DEF ContinueDeleteMissing, d
<1> QED
  BY <1>9, <1>10, <1>11, <1>12, <1>13 DEF Continue

LEMMA EnvironmentPromises ==
  ASSUME PInv, NEW r \in Running, SyncBlock(r) \/ Crash(r)
  PROVE  PromisesKept' /\ Locks
<1>1. msgs' = msgs
  BY DEF SyncBlock, Crash
<1>2. CASE SyncBlock(r)
  <2>1. ctx' = ctx
    BY <1>2 DEF SyncBlock
  <2> QED
    BY <1>1, <2>1, KeepsReflexive DEF PInv, PromisesKept, Locks, Running, Correct
<1>3. CASE Crash(r)
  <2>1. r \notin Correct
    BY <1>3 DEF Crash, Correct
  <2>2. ctx'[r] = NewContext /\ \A s \in Running \ {r} : ctx'[s] = ctx[s]
    BY <1>3 DEF Crash, PInv, IInv, TypeOK
  <2>3. \A s \in Running : Tidy(ctx'[s]) /\ HoldsGenuine(ctx'[s], msgs)
    BY <2>2, NewContextPromises DEF PInv, PromisesKept
  <2>4. \A s \in Correct : ctx'[s] = ctx[s]
    BY <2>1, <2>2, RunningFacts
  <2>5. PromisesKept'
    BY <1>1, <2>3, <2>4 DEF PInv, PromisesKept, Running, Correct
  <2>6. Locks
    BY <2>4, KeepsReflexive DEF Locks
  <2> QED
    BY <2>5, <2>6
<1> QED
  BY <1>2, <1>3

LEMMA NextPromises ==
  ASSUME PInv, RInv, [Next]_vars
  PROVE  PInv' /\ Locks
<1>1. IInv'
  BY NextInv DEF PInv
<1>2. CASE UNCHANGED vars
  <2>1. ctx' = ctx /\ msgs' = msgs
    BY <1>2 DEF vars
  <2> QED
    BY <1>1, <2>1, KeepsReflexive DEF PInv, PromisesKept, Locks, Running, Correct
<1>3. CASE Next
  <2>1. PICK r \in Running :
            \/ Start(r)
            \/ Reset(r)
            \/ \E m \in msgs \cup Injected : Deliver(r, m)
            \/ \E tx \in Tx : OnTransaction(r, tx)
            \/ OnTimeout(r)
            \/ OnNewTransaction(r)
            \/ Continue(r)
            \/ SyncBlock(r)
            \/ Crash(r)
    BY <1>3 DEF Next
  <2>2. PromisesKept' /\ Locks
    BY <2>1, StartPromises, ResetPromises, DeliverPromises, OnTransactionPromises,
       OnTimeoutPromises, ContinuePromises, EnvironmentPromises
  <2> QED
    BY <1>1, <2>2 DEF PInv
<1> QED
  BY <1>2, <1>3

-----------------------------------------------------------------------------
(* The results.                                                             *)

LEMMA SpecPromises == Spec => [](PInv /\ RInv)
<1>1. (PInv /\ RInv) /\ [Next]_vars => (PInv /\ RInv)'
  BY NextPromises, NextAlert
<1>2. Init => PInv /\ RInv
  BY InitPromises, InitAlert
<1> QED
  BY <1>1, <1>2, PTL DEF Spec

\* No payload on the network, in a slot, in the cache or in a recovery message
\* lies about the signatures of a correct validator, and a correct validator
\* holds in its context what it has prepared, pre-committed and committed at its
\* height (OnReceive, onRecoveryMessage, makePreCommit, checkPreCommit).
THEOREM PromisesAreKept == Spec => []PromisesKept
<1>1. PInv => PromisesKept
  BY DEF PInv
<1> QED
  BY <1>1, SpecPromises, PTL

\* Once a correct validator has sent a Commit or a PreCommit it stays in its
\* view until the height changes and keeps its own payload, whatever requests,
\* ChangeViews and recovery messages the others send (PreCommitSent and
\* CommitSent, context.go:170-180; onChangeView, onRecoveryMessage, reset,
\* verifyCommitPayloadsAgainstHeader, verifyPreCommitPayloadsAgainstPreBlock).
THEOREM CommitsLock == Spec => CommitLocks
<1>1. ASSUME Locks, NEW r \in Correct,
             CommitSent(r, ctx[r]) \/ PreCommitSent(r, ctx[r]),
             ctx'[r].BlockIndex = ctx[r].BlockIndex
      PROVE  /\ ctx'[r].ViewNumber = ctx[r].ViewNumber
             /\ CommitSent(r, ctx[r]) =>
                  ctx'[r].CommitPayloads[r] = ctx[r].CommitPayloads[r]
             /\ PreCommitSent(r, ctx[r]) =>
                  ctx'[r].PreCommitPayloads[r] = ctx[r].PreCommitPayloads[r]
  BY <1>1 DEF Locks, Keeps, CommitSent, PreCommitSent
<1>2. (PInv /\ RInv) /\ [Next]_vars =>
        [\A r \in Correct :
          /\ CommitSent(r, ctx[r]) \/ PreCommitSent(r, ctx[r])
          /\ ctx'[r].BlockIndex = ctx[r].BlockIndex
          => /\ ctx'[r].ViewNumber = ctx[r].ViewNumber
             /\ CommitSent(r, ctx[r]) =>
                  ctx'[r].CommitPayloads[r] = ctx[r].CommitPayloads[r]
             /\ PreCommitSent(r, ctx[r]) =>
                  ctx'[r].PreCommitPayloads[r] = ctx[r].PreCommitPayloads[r]]_vars
  BY <1>1, NextPromises
<1> QED
  BY <1>2, SpecPromises, PTL DEF Spec, CommitLocks

\* A commit that a node holds of a correct validator carries a signature which
\* that validator has made for this height, however the commit came to it: from
\* its sender, through recovery messages of others, through the cache
\* (onCommit, GetCommits, getHeight).
THEOREM CommitsAreGenuine == Spec => []CommitsGenuine
<1>1. ASSUME PInv, NEW r \in Running, NEW i \in Correct, ctx[r].CommitPayloads[i] # Nil
      PROVE  \E m \in msgs :
                /\ m.type = "Commit" /\ m.from = i
                /\ m.height = ctx[r].BlockIndex
                /\ m.sign = ctx[r].CommitPayloads[i].sign
  <2> DEFINE c == ctx[r].CommitPayloads[i]
  <2>1. i \in Validators
    BY CorrectFacts
  <2>2. c.from = i /\ c.height = ctx[r].BlockIndex /\ ctx[r] \in Contexts
    BY <1>1, <2>1 DEF PInv, IInv, CommitsBind, Sane
  <2>3. c.type = "Commit"
    BY <1>1, <2>1, <2>2 DEF Contexts, Slots, Commits
  <2>4. Genuine(c, msgs)
    BY <1>1, <2>1 DEF PInv, PromisesKept, HoldsGenuine
  <2> QED
    BY <2>2, <2>3, <2>4 DEF Genuine, Signed
<1>2. PInv => CommitsGenuine
  BY <1>1 DEF CommitsGenuine
<1> QED
  BY <1>2, SpecPromises, PTL

\* A correct validator backs at most one proposal per height and view, be it by
\* its PrepareRequest or its PrepareResponse, also after a recovery, a replay of
\* the cache or a late transaction (sendPrepareRequest, onPrepareRequest,
\* addTransaction, sendPrepareResponse).
THEOREM PreparesOnce == Spec => []PrepareOnce
<1>1. ASSUME PInv, NEW m1 \in msgs, NEW m2 \in msgs,
             {m1.type, m2.type} \subseteq {"PrepareRequest", "PrepareResponse"},
             m1.from \in Correct, m1.from = m2.from,
             m1.height = m2.height, m1.view = m2.view
      PROVE  m1.proposal = m2.proposal
  <2>1. Consistent(m1.from, ctx[m1.from], msgs)
    BY <1>1 DEF PInv, PromisesKept
  <2>2. m1 \in Prepared(m1.from, msgs) /\ m2 \in Prepared(m1.from, msgs)
    BY <1>1 DEF Prepared
  <2> QED
    BY <1>1, <2>1, <2>2 DEF Consistent
<1>2. PInv => PrepareOnce
  BY <1>1 DEF PrepareOnce
<1> QED
  BY <1>2, SpecPromises, PTL

\* With the anti-MEV extension a correct validator commits only a block whose
\* PreBlock it has pre-committed itself, in the same view: "Require PreCommit
\* sent by self" (check.go:89-93).
THEOREM CommitsFollowPreCommits == Spec => []CommitAfterPreCommit
<1>1. PInv => CommitAfterPreCommit
  BY DEF PInv, PromisesKept, Locked, CommitAfterPreCommit
<1> QED
  BY <1>1, SpecPromises, PTL
=============================================================================
