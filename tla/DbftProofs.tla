----------------------------- MODULE DbftProofs -----------------------------
(***************************************************************************)
(* What every operator of DbftHandlers preserves: the type of the context, *)
(* Sane, and what binds a node to its commits (module DbftProperties).     *)
(* Then that a correct validator commits to one header per height,         *)
(* whatever number of the others is faulty and whatever they send, and     *)
(* that every node that waits for its block has a timer and has replayed   *)
(* what came early.                                                        *)
(***************************************************************************)
EXTENDS DbftProperties, FiniteSetTheorems, SequenceTheorems,
        WellFoundedInduction, TLAPS

-----------------------------------------------------------------------------
(* Types.                                                                   *)

\* A stored payload is not the nil payload.
LEMMA PayloadNotNil == \A m \in Payloads : m # Nil
  BY NilAssumption

\* The views of a node are naturals and start at 0 (ViewNumber is a byte).
LEMMA ViewFacts == /\ 0 \in Views
                   /\ Views \subseteq Nat
                   /\ \A v \in Nat : v % ViewSize \in Views
  BY ViewSizeAssumption DEF Views

\* The remainder of Go is between -(b-1) and b-1.
LEMMA GoRemRange ==
  ASSUME NEW a \in Int, NEW b \in Nat \ {0}
  PROVE  GoRem(a, b) \in Int /\ -b < GoRem(a, b) /\ GoRem(a, b) < b
  BY DEF GoRem

\* The primary is a validator (GetPrimaryIndex, context.go:112).
LEMMA PrimaryIsValidator ==
  ASSUME NEW h \in Int, NEW v \in Int
  PROVE  GetPrimaryIndex(h, v) \in Validators
<1>1. h - v \in Int /\ N \in Nat \ {0}
  BY NAssumption
<1>2. GoRem(h - v, N) \in Int /\ -N < GoRem(h - v, N) /\ GoRem(h - v, N) < N
  BY <1>1, GoRemRange
<1> QED
  BY <1>1, <1>2 DEF GetPrimaryIndex, Validators

\* A payload of a given type is a record of that type.
LEMMA PayloadTypes ==
  ASSUME NEW m \in Payloads
  PROVE  /\ m.type = "PrepareRequest" => m \in PrepareRequests
         /\ m.type = "PrepareResponse" => m \in PrepareResponses
         /\ m.type = "PreCommit" => m \in PreCommits
         /\ m.type = "Commit" => m \in Commits
         /\ m.type = "ChangeView" => m \in ChangeViews
         /\ m.type = "RecoveryRequest" => m \in RecoveryRequests
         /\ m.type = "RecoveryMessage" => m \in RecoveryMessages
         /\ m.type \notin {"PrepareRequest", "PrepareResponse", "PreCommit", "Commit",
                           "ChangeView", "RecoveryRequest"} => m \in RecoveryMessages
         /\ m.type \notin {"RecoveryRequest", "RecoveryMessage"} => m \in Restorable
         /\ m.height \in Nat
         /\ m.view \in Views
         /\ m.from \in Validators
  BY DEF Payloads, Restorable, PrepareRequests, PrepareResponses, PreCommits,
         Commits, ChangeViews, RecoveryRequests, RecoveryMessages

\* Storing one value of the right type in one field of a context.
LEMMA FieldTypes ==
  ASSUME NEW d \in Contexts
  PROVE  /\ \A x \in Nat : [d EXCEPT !.BlockIndex = x] \in Contexts
         /\ \A x \in Views : [d EXCEPT !.ViewNumber = x] \in Contexts
         /\ \A x \in Slots(PrepareRequests \cup PrepareResponses) :
                [d EXCEPT !.PreparationPayloads = x] \in Contexts
         /\ \A x \in Slots(PreCommits) : [d EXCEPT !.PreCommitPayloads = x] \in Contexts
         /\ \A x \in Slots(Commits) : [d EXCEPT !.CommitPayloads = x] \in Contexts
         /\ \A x \in Slots(ChangeViews) : [d EXCEPT !.ChangeViewPayloads = x] \in Contexts
         /\ \A x \in Slots(ChangeViews) :
                [d EXCEPT !.LastChangeViewPayloads = x] \in Contexts
         /\ \A x \in [Validators -> Views \cup {-1}] :
                [d EXCEPT !.LastSeenMessage = x] \in Contexts
         /\ \A x \in Proposals \cup {Nil} : [d EXCEPT !.proposal = x] \in Contexts
         /\ \A x \in SUBSET Tx : [d EXCEPT !.Transactions = x] \in Contexts
         /\ \A x \in Seq(Tx) : [d EXCEPT !.MissingTransactions = x] \in Contexts
         /\ \A x \in BOOLEAN : [d EXCEPT !.blockProcessed = x] \in Contexts
         /\ \A x \in BOOLEAN : [d EXCEPT !.preBlockProcessed = x] \in Contexts
         /\ \A x \in BOOLEAN : [d EXCEPT !.txSubscriptionOn = x] \in Contexts
         /\ \A x \in SUBSET Restorable : [d EXCEPT !.cache = x] \in Contexts
         /\ \A x \in [height : Nat, view : Views, armed : BOOLEAN] :
                [d EXCEPT !.timer = x] \in Contexts
         /\ \A x \in Seq(WorkItems) : [d EXCEPT !.todo = x] \in Contexts
         /\ \A x \in BOOLEAN : [d EXCEPT !.panicked = x] \in Contexts
         /\ \A x \in Seq(TimerCalls) : [d EXCEPT !.calls = x] \in Contexts
         /\ \A x \in SUBSET Payloads : [d EXCEPT !.out = x] \in Contexts
  BY ZenonT(30) DEF Contexts

-----------------------------------------------------------------------------
(* Most calls change nothing that matters to the commits of a node.         *)

Same(d, d1) ==
    /\ d1 \in Contexts
    /\ d1.BlockIndex = d.BlockIndex
    /\ d1.ViewNumber = d.ViewNumber
    /\ d1.PreparationPayloads = d.PreparationPayloads
    /\ d1.CommitPayloads = d.CommitPayloads
    /\ d1.proposal = d.proposal
    /\ d1.blockProcessed = d.blockProcessed
    /\ d1.preBlockProcessed = d.preBlockProcessed
    /\ \A m \in Commits : m \in d1.out <=> m \in d.out

\* A node broadcasts its own commits only.
OwnOut(r, d) == \A m \in d.out : m.type = "Commit" => m.from = r

\* CommitSent is always false of a node that only watches, and its commits
\* bind it to nothing.
Good(r, d, S) ==
    /\ Sane(d)
    /\ OwnOut(r, d)
    /\ WatchOnly(r) \/ Sworn(r, d, S)

Loose(r, d, S) == WatchOnly(r) \/ Free(r, d, S)

LEMMA SameFacts ==
  ASSUME NEW d, NEW d1, Same(d, d1)
  PROVE  /\ PrimaryIndex(d1) = PrimaryIndex(d)
         /\ RequestSentOrReceived(d1) = RequestSentOrReceived(d)
         /\ isAntiMEVExtensionEnabled(d1) = isAntiMEVExtensionEnabled(d)
         /\ MakePreHeader(d1) = MakePreHeader(d)
         /\ MakeHeader(d1) = MakeHeader(d)
  BY DEF Same, PrimaryIndex, RequestSentOrReceived, isAntiMEVExtensionEnabled,
         MakePreHeader, MakeHeader

LEMMA SameTransitive ==
  ASSUME NEW d, NEW d1, NEW d2, Same(d, d1), Same(d1, d2)
  PROVE  Same(d, d2)
  BY DEF Same

LEMMA SameReflexive ==
  ASSUME NEW d \in Contexts
  PROVE  Same(d, d)
  BY DEF Same

LEMMA SameSent ==
  ASSUME NEW r, NEW S, NEW d \in Contexts, NEW d1, Same(d, d1)
  PROVE  Sent(r, d1, S) = Sent(r, d, S)
<1>1. d.out \subseteq Payloads /\ d1.out \subseteq Payloads
  BY DEF Same, Contexts
<1>2. \A m \in d.out \cup d1.out : m.type = "Commit" => m \in Commits
  BY <1>1, PayloadTypes
<1> QED
  BY <1>2 DEF Same, Sent

LEMMA SameKeepsGood ==
  ASSUME NEW r, NEW S, NEW d, NEW d1, Good(r, d, S), Same(d, d1)
  PROVE  Good(r, d1, S) /\ (Loose(r, d, S) => Loose(r, d1, S))
<1>0. d \in Contexts /\ d1 \in Contexts
  BY DEF Good, Sane, Same
<1>1. Sane(d1)
  BY <1>0, SameFacts DEF Good, Sane, Same
<1>2. d.out \subseteq Payloads /\ d1.out \subseteq Payloads
  BY <1>0 DEF Contexts
<1>3. OwnOut(r, d1)
  BY <1>2, PayloadTypes DEF Good, OwnOut, Same
<1>4. Sent(r, d1, S) = Sent(r, d, S)
  BY <1>0, SameSent
<1>5. (Free(r, d, S) => Free(r, d1, S)) /\ (Bound(r, d, S) => Bound(r, d1, S))
  BY <1>4, SameFacts DEF Free, Bound, Same
<1> QED
  BY <1>1, <1>3, <1>4, <1>5 DEF Good, Sworn, Loose

\* The fields whose change is none to the commits.
LEMMA FieldSame ==
  ASSUME NEW d \in Contexts
  PROVE  /\ \A x \in Slots(PreCommits) : Same(d, [d EXCEPT !.PreCommitPayloads = x])
         /\ \A x \in Slots(ChangeViews) : Same(d, [d EXCEPT !.ChangeViewPayloads = x])
         /\ \A x \in [Validators -> Views \cup {-1}] :
                Same(d, [d EXCEPT !.LastSeenMessage = x])
         /\ \A x \in SUBSET Tx : Same(d, [d EXCEPT !.Transactions = x])
         /\ \A x \in Seq(Tx) : Same(d, [d EXCEPT !.MissingTransactions = x])
         /\ \A x \in BOOLEAN : Same(d, [d EXCEPT !.txSubscriptionOn = x])
         /\ \A x \in SUBSET Restorable : Same(d, [d EXCEPT !.cache = x])
         /\ \A x \in [height : Nat, view : Views, armed : BOOLEAN] :
                Same(d, [d EXCEPT !.timer = x])
         /\ \A x \in Seq(WorkItems) : Same(d, [d EXCEPT !.todo = x])
         /\ \A x \in BOOLEAN : Same(d, [d EXCEPT !.panicked = x])
         /\ \A x \in Seq(TimerCalls) : Same(d, [d EXCEPT !.calls = x])
<1>1. ASSUME NEW x \in Slots(PreCommits)
       PROVE  Same(d, [d EXCEPT !.PreCommitPayloads = x])
  <2>1. [d EXCEPT !.PreCommitPayloads = x] \in Contexts
    BY FieldTypes
  <2> QED
    BY <2>1 DEF Contexts, Same
<1>2. ASSUME NEW x \in Slots(ChangeViews)
       PROVE  Same(d, [d EXCEPT !.ChangeViewPayloads = x])
  <2>1. [d EXCEPT !.ChangeViewPayloads = x] \in Contexts
    BY FieldTypes
  <2> QED
    BY <2>1 DEF Contexts, Same
<1>3. ASSUME NEW x \in [Validators -> Views \cup {-1}]
       PROVE  Same(d, [d EXCEPT !.LastSeenMessage = x])
  <2>1. [d EXCEPT !.LastSeenMessage = x] \in Contexts
    BY FieldTypes
  <2> QED
    BY <2>1 DEF Contexts, Same
<1>4. ASSUME NEW x \in SUBSET Tx
       PROVE  Same(d, [d EXCEPT !.Transactions = x])
  <2>1. [d EXCEPT !.Transactions = x] \in Contexts
    BY FieldTypes
  <2> QED
    BY <2>1 DEF Contexts, Same
<1>5. ASSUME NEW x \in Seq(Tx)
       PROVE  Same(d, [d EXCEPT !.MissingTransactions = x])
  <2>1. [d EXCEPT !.MissingTransactions = x] \in Contexts
    BY FieldTypes
  <2> QED
    BY <2>1 DEF Contexts, Same
<1>6. ASSUME NEW x \in BOOLEAN
       PROVE  Same(d, [d EXCEPT !.txSubscriptionOn = x])
  <2>1. [d EXCEPT !.txSubscriptionOn = x] \in Contexts
    BY FieldTypes
  <2> QED
    BY <2>1 DEF Contexts, Same
<1>7. ASSUME NEW x \in SUBSET Restorable
       PROVE  Same(d, [d EXCEPT !.cache = x])
  <2>1. [d EXCEPT !.cache = x] \in Contexts
    BY FieldTypes
  <2> QED
    BY <2>1 DEF Contexts, Same
<1>8. ASSUME NEW x \in [height : Nat, view : Views, armed : BOOLEAN]
       PROVE  Same(d, [d EXCEPT !.timer = x])
  <2>1. [d EXCEPT !.timer = x] \in Contexts
    BY FieldTypes
  <2> QED
    BY <2>1 DEF Contexts, Same
<1>9. ASSUME NEW x \in Seq(WorkItems)
       PROVE  Same(d, [d EXCEPT !.todo = x])
  <2>1. [d EXCEPT !.todo = x] \in Contexts
    BY FieldTypes
  <2> QED
    BY <2>1 DEF Contexts, Same
<1>10. ASSUME NEW x \in BOOLEAN
       PROVE  Same(d, [d EXCEPT !.panicked = x])
  <2>1. [d EXCEPT !.panicked = x] \in Contexts
    BY FieldTypes
  <2> QED
    BY <2>1 DEF Contexts, Same
<1>11. ASSUME NEW x \in Seq(TimerCalls)
       PROVE  Same(d, [d EXCEPT !.calls = x])
  <2>1. [d EXCEPT !.calls = x] \in Contexts
    BY FieldTypes
  <2> QED
    BY <2>1 DEF Contexts, Same
<1> QED
  BY <1>1, <1>2, <1>3, <1>4, <1>5, <1>6, <1>7, <1>8, <1>9, <1>10, <1>11

LEMMA BroadcastSame ==
  ASSUME NEW d \in Contexts, NEW m \in Payloads, m.type # "Commit"
  PROVE  Same(d, Broadcast(d, m))
<1>1. d.out \cup {m} \in SUBSET Payloads
  BY DEF Contexts
<1>2. Broadcast(d, m) \in Contexts
  BY <1>1, FieldTypes DEF Broadcast
<1>3. m \notin Commits
  BY DEF Commits
<1> QED
  BY <1>2, <1>3 DEF Same, Broadcast, Contexts

\* The delays of the timer are names.
LEMMA Names == /\ Resets \subseteq CallNames
               /\ {"extend2", "extend4", "reset", "checkPrepare", "prepareSent",
                   "prepareResponse"} \subseteq CallNames
               /\ {"propose", "await", "request", "subscribe", "subscribeBackup",
                   "forced", "resend", "changeView", "commit", "proposeAtOnce"} \subseteq CallNames
  BY DEF CallNames, Resets

\* What a handler asks of the timer is none of the commits' business.
LEMMA CallSame ==
  ASSUME NEW d \in Contexts, NEW op \in CallNames
  PROVE  Same(d, Call(d, op))
<1> DEFINE call == [op |-> op, height |-> d.BlockIndex, view |-> d.ViewNumber]
<1>1. call \in TimerCalls /\ d.calls \in Seq(TimerCalls)
  BY DEF Contexts, TimerCalls
<1> HIDE DEF call
<1>2. Append(d.calls, call) \in Seq(TimerCalls)
  BY <1>1
<1> QED
  BY <1>2, FieldSame DEF Call, call

LEMMA changeTimerSame ==
  ASSUME NEW d \in Contexts, NEW op \in CallNames
  PROVE  Same(d, changeTimer(d, op))
<1> DEFINE timer == [height |-> d.BlockIndex, view |-> d.ViewNumber, armed |-> TRUE]
<1>1. timer \in [height : Nat, view : Views, armed : BOOLEAN]
  BY DEF Contexts
<1> HIDE DEF timer
<1>2. Same(d, Call(d, op)) /\ Call(d, op) \in Contexts
  BY CallSame DEF Same
<1>3. Same(Call(d, op), [Call(d, op) EXCEPT !.timer = timer])
  BY <1>1, <1>2, FieldSame
<1> QED
  BY <1>2, <1>3, SameTransitive DEF changeTimer, timer

LEMMA extendTimerSame ==
  ASSUME NEW r, NEW d \in Contexts, NEW op \in CallNames
  PROVE  Same(d, extendTimer(r, d, op)) /\ extendTimer(r, d, op) \in Contexts
<1>1. Same(d, extendTimer(r, d, op))
  BY SameReflexive, CallSame DEF extendTimer
<1> QED
  BY <1>1 DEF Same

LEMMA PushSame ==
  ASSUME NEW d \in Contexts, NEW items \in Seq(WorkItems)
  PROVE  Same(d, Push(d, items))
<1>1. items \o d.todo \in Seq(WorkItems)
  BY DEF Contexts
<1> QED
  BY <1>1, FieldSame DEF Push

-----------------------------------------------------------------------------
(* Sequences of transactions.                                               *)

\* A set of naturals that is not empty has a least element.
LEMMA LeastNatural ==
  ASSUME NEW T \in SUBSET Nat, T # {}
  PROVE  \E x \in T : \A y \in T : x <= y
<1>1. IsWellFoundedOn(OpToRel(<, Nat), Nat)
  BY NatLessThanWellFounded
<1>2. PICK x \in T : \A y \in T : ~(<<y, x>> \in OpToRel(<, Nat))
  BY <1>1, WFMin, Zenon
<1>3. \A y \in T : ~(y < x)
  BY <1>2 DEF OpToRel
<1> QED
  BY <1>3

\* Among the numbers of I there is one that is the k-th.
LEMMA KthExists ==
  ASSUME NEW n \in Nat, NEW I \in SUBSET (1 .. n), NEW k \in 1 .. Cardinality(I)
  PROVE  \E i \in I : Cardinality({j \in I : j <= i}) = k
<1> DEFINE Upto(i) == {j \in I : j <= i}
           T == {i \in 0 .. n : Cardinality(Upto(i)) >= k}
<1>1. IsFiniteSet(1 .. n)
  BY FS_Interval
<1>2. IsFiniteSet(I) /\ Cardinality(I) \in Nat
  BY <1>1, FS_Subset, FS_CardinalityType
<1>3. \A i \in 0 .. n : IsFiniteSet(Upto(i)) /\ Cardinality(Upto(i)) \in Nat
  BY <1>2, FS_Subset, FS_CardinalityType
<1>4. Upto(n) = I /\ Upto(0) = {}
  <2>1. \A j \in I : j \in Nat /\ j <= n /\ ~(j <= 0)
    OBVIOUS
  <2> QED
    BY <2>1
<1>5. ASSUME NEW x \in 1 .. n
      PROVE  Upto(x) = IF x \in I THEN Upto(x - 1) \cup {x} ELSE Upto(x - 1)
  <2>1. \A j \in I : j \in Nat /\ (j <= x <=> j <= x - 1 \/ j = x)
    OBVIOUS
  <2> QED
    BY <2>1
<1>6. \A x \in 1 .. n : x \notin Upto(x - 1)
  OBVIOUS
<1> HIDE DEF Upto
<1>7. Cardinality(Upto(0)) = 0 /\ n \in T
  BY <1>2, <1>4, FS_EmptySet
<1>8. T \in SUBSET Nat /\ T # {}
  BY <1>7
<1>9. PICK x \in T : \A y \in T : x <= y
  BY <1>8, LeastNatural
<1>10. x \in 1 .. n
  BY <1>7, <1>9
<1>11. x - 1 \in 0 .. n /\ x - 1 \notin T
  BY <1>9, <1>10
<1>12. Cardinality(Upto(x - 1)) \in Nat /\ Cardinality(Upto(x - 1)) < k
  BY <1>3, <1>11
<1>13. Cardinality(Upto(x)) \in Nat /\ Cardinality(Upto(x)) >= k
  BY <1>3, <1>9
<1>14. x \in I
  BY <1>5, <1>10, <1>12, <1>13
<1>15. Cardinality(Upto(x)) = Cardinality(Upto(x - 1)) + 1
  BY <1>3, <1>5, <1>6, <1>10, <1>11, <1>14, FS_AddElement
<1>16. Cardinality(Upto(x)) = k
  BY <1>12, <1>13, <1>15
<1> QED
  BY <1>14, <1>16 DEF Upto

LEMMA EntriesAtType ==
  ASSUME NEW A, NEW s \in Seq(A), NEW I \in SUBSET DOMAIN s
  PROVE  EntriesAt(s, I) \in Seq(A)
<1> DEFINE Kth(k) == CHOOSE i \in I : Cardinality({j \in I : j <= i}) = k
<1>1. Len(s) \in Nat /\ DOMAIN s = 1 .. Len(s)
  OBVIOUS
<1>2. IsFiniteSet(I) /\ Cardinality(I) \in Nat
  <2>1. IsFiniteSet(DOMAIN s)
    BY <1>1, FS_Interval
  <2> QED
    BY <2>1, FS_Subset, FS_CardinalityType
<1>3. ASSUME NEW k \in 1 .. Cardinality(I)
      PROVE  s[Kth(k)] \in A
  <2>1. \E i \in I : Cardinality({j \in I : j <= i}) = k
    BY <1>1, KthExists
  <2>2. Kth(k) \in I
    BY <2>1
  <2> QED
    BY <2>2
<1>4. EntriesAt(s, I) = [k \in 1 .. Cardinality(I) |-> s[Kth(k)]]
  BY DEF EntriesAt
<1> HIDE DEF Kth
<1>5. [k \in 1 .. Cardinality(I) |-> s[Kth(k)]] \in [1 .. Cardinality(I) -> A]
  BY <1>3
<1> QED
  BY <1>2, <1>4, <1>5

LEMMA FirstIndexType ==
  ASSUME NEW A, NEW s \in Seq(A), NEW x \in RangeOf(s)
  PROVE  FirstIndex(s, x) \in Nat
<1> DEFINE T == {i \in DOMAIN s : s[i] = x}
<1>1. DOMAIN s = 1 .. Len(s) /\ Len(s) \in Nat
  OBVIOUS
<1>2. T # {} /\ T \in SUBSET Nat
  BY <1>1 DEF RangeOf
<1>3. PICK i \in T : \A y \in T : i <= y
  BY <1>2, LeastNatural
<1>4. i \in DOMAIN s /\ s[i] = x /\ \A j \in 1 .. i - 1 : s[j] # x
  BY <1>1, <1>3
<1>5. FirstIndex(s, x) \in DOMAIN s
  BY <1>4 DEF FirstIndex
<1> QED
  BY <1>1, <1>5

-----------------------------------------------------------------------------
(* Calls that leave the preparations and the commits alone.                 *)

LEMMA NodeFacts ==
  /\ \A r \in Nodes : ~WatchOnly(r) => r \in Validators
  /\ \A d \in Contexts : PrimaryIndex(d) \in Validators
<1>1. \A r \in Nodes : ~WatchOnly(r) => r \in Validators
  BY DEF Nodes, WatchOnly
<1>2. ASSUME NEW d \in Contexts PROVE PrimaryIndex(d) \in Validators
  <2>1. d.BlockIndex \in Nat /\ d.ViewNumber \in Views
    BY DEF Contexts
  <2>2. d.BlockIndex \in Int /\ d.ViewNumber \in Int
    BY <2>1 DEF Views
  <2> QED
    BY <2>2, PrimaryIsValidator DEF PrimaryIndex
<1> QED
  BY <1>1, <1>2

LEMMA PayloadsOfType ==
  ASSUME NEW A, NEW slots \in Slots(A)
  PROVE  PayloadsOf(slots) \subseteq A
  BY DEF Slots, PayloadsOf

\* A recovery message only holds the parts of payloads of the node.
LEMMA makeRecoveryMessageType ==
  ASSUME NEW r \in Validators, NEW d \in Contexts
  PROVE  makeRecoveryMessage(r, d) \in RecoveryMessages
<1> DEFINE preparations == PayloadsOf(d.PreparationPayloads)
           requests == {m \in preparations : m.type = "PrepareRequest"}
           msg == makeRecoveryMessage(r, d)
<1>1. d.BlockIndex \in Nat /\ d.ViewNumber \in Views
  BY DEF Contexts
<1>2. preparations \subseteq PrepareRequests \cup PrepareResponses
  BY PayloadsOfType DEF Contexts
<1>3. \A m \in preparations : m.from \in Validators /\ m.proposal \in Proposals
  BY <1>2 DEF PrepareRequests, PrepareResponses
<1>4. (IF requests = {} THEN Nil ELSE (CHOOSE m \in requests : TRUE).proposal)
        \in Proposals \cup {Nil}
  BY <1>3
<1>5. {m.from : m \in preparations \ requests} \in SUBSET Validators
  BY <1>3
<1>6. {[from |-> m.from, view |-> m.view] : m \in PayloadsOf(d.LastChangeViewPayloads)}
        \in SUBSET [from : Validators, view : Views]
  <2>1. PayloadsOf(d.LastChangeViewPayloads) \subseteq ChangeViews
    BY PayloadsOfType DEF Contexts
  <2> QED
    BY <2>1 DEF ChangeViews
<1>7. {[from |-> m.from, sign |-> m.sign] : m \in PayloadsOf(d.PreCommitPayloads)}
        \in SUBSET [from : Validators, sign : Headers]
  <2>1. PayloadsOf(d.PreCommitPayloads) \subseteq PreCommits
    BY PayloadsOfType DEF Contexts
  <2> QED
    BY <2>1 DEF PreCommits
<1>8. {[from |-> m.from, sign |-> m.sign] : m \in PayloadsOf(d.CommitPayloads)}
        \in SUBSET [from : Validators, sign : Headers]
  <2>1. PayloadsOf(d.CommitPayloads) \subseteq Commits
    BY PayloadsOfType DEF Contexts
  <2> QED
    BY <2>1 DEF Commits
<1>9. (IF PreCommitSent(r, d)
       THEN {[from |-> m.from, sign |-> m.sign] : m \in PayloadsOf(d.PreCommitPayloads)}
       ELSE {}) \in SUBSET [from : Validators, sign : Headers]
  BY <1>7
<1>10. (IF CommitSent(r, d)
        THEN {[from |-> m.from, sign |-> m.sign] : m \in PayloadsOf(d.CommitPayloads)}
        ELSE {}) \in SUBSET [from : Validators, sign : Headers]
  BY <1>8
<1> QED
  BY <1>1, <1>4, <1>5, <1>6, <1>9, <1>10, Zenon
     DEF makeRecoveryMessage, RecoveryMessages

LEMMA sendRecoveryMessageSame ==
  ASSUME NEW r \in Validators, NEW d \in Contexts
  PROVE  Same(d, sendRecoveryMessage(r, d))
<1>1. makeRecoveryMessage(r, d) \in RecoveryMessages
  BY makeRecoveryMessageType
<1>2. makeRecoveryMessage(r, d) \in Payloads /\ makeRecoveryMessage(r, d).type # "Commit"
  BY <1>1 DEF Payloads, RecoveryMessages
<1> QED
  BY <1>2, BroadcastSame DEF sendRecoveryMessage

LEMMA onRecoveryRequestSame ==
  ASSUME NEW r \in Nodes, NEW d \in Contexts, NEW msg
  PROVE  Same(d, onRecoveryRequest(r, d, msg))
  BY NodeFacts, SameReflexive, sendRecoveryMessageSame DEF onRecoveryRequest

LEMMA processMissingTxSame ==
  ASSUME NEW d \in Contexts, NEW e
  PROVE  Same(d, processMissingTx(d, e))
<1> DEFINE hashes == TransactionHashes(d)
           missing == {i \in DOMAIN hashes : hashes[i] \notin d.Transactions \cup e.avail}
           listed == d.MissingTransactions \o EntriesAt(hashes, missing)
           known == d.Transactions \cup (RangeOf(hashes) \cap e.avail)
           d1 == [d EXCEPT !.MissingTransactions = listed]
<1>1. hashes \in Seq(Tx)
  BY TxAssumption DEF TransactionHashes, Contexts
<1>2. EntriesAt(hashes, missing) \in Seq(Tx)
  BY <1>1, EntriesAtType
<1>3. listed \in Seq(Tx)
  BY <1>2 DEF Contexts
<1>4. RangeOf(hashes) \subseteq Tx
  BY <1>1 DEF RangeOf
<1>5. known \in SUBSET Tx
  BY <1>4 DEF Contexts
<1> HIDE DEF listed, known
<1>6. Same(d, d1)
  BY <1>3, FieldSame
<1>7. d1 \in Contexts
  BY <1>6 DEF Same
<1>8. Same(d1, [d1 EXCEPT !.Transactions = known])
  BY <1>5, <1>7, FieldSame
<1>9. processMissingTx(d, e) = [d1 EXCEPT !.Transactions = known]
  BY DEF processMissingTx, listed, known, Contexts
<1> QED
  BY <1>6, <1>8, <1>9, SameTransitive

LEMMA sendRecoveryRequestSame ==
  ASSUME NEW r \in Validators, NEW d \in Contexts, NEW e
  PROVE  Same(d, sendRecoveryRequest(r, d, e))
<1> DEFINE d1 == IF RequestSentOrReceived(d) /\ ~hasAllTransactions(d)
                 THEN processMissingTx(d, e)
                 ELSE d
           msg == RecoveryRequestMsg(d1.BlockIndex, d1.ViewNumber, r)
<1>1. Same(d, d1)
  BY SameReflexive, processMissingTxSame
<1> HIDE DEF d1
<1>2. d1 \in Contexts
  BY <1>1 DEF Same
<1>3. msg \in Payloads /\ msg.type # "Commit"
  BY <1>2 DEF RecoveryRequestMsg, RecoveryRequests, Payloads, Contexts
<1>4. Same(d1, Broadcast(d1, msg))
  BY <1>2, <1>3, BroadcastSame
<1> QED
  BY <1>1, <1>4, SameTransitive DEF sendRecoveryRequest, d1

LEMMA waitForTransactionsSame ==
  ASSUME NEW d \in Contexts, NEW op \in CallNames
  PROVE  Same(d, waitForTransactions(d, op))
<1> DEFINE d1 == [d EXCEPT !.txSubscriptionOn = TRUE]
<1>1. Same(d, d1)
  BY FieldSame
<1>2. Same(d1, changeTimer(d1, op))
  BY <1>1, changeTimerSame DEF Same
<1> QED
  BY <1>1, <1>2, SameTransitive DEF waitForTransactions

LEMMA addMessageSame ==
  ASSUME NEW d \in Contexts, NEW m \in Payloads
  PROVE  Same(d, addMessage(d, m))
<1>1. CASE m.type \in {"RecoveryRequest", "RecoveryMessage"}
  BY <1>1, SameReflexive DEF addMessage
<1>2. CASE m.type \notin {"RecoveryRequest", "RecoveryMessage"}
  <2>1. {x \in d.cache : ~SameSlot(x, m)} \cup {m} \in SUBSET Restorable
    BY <1>2, PayloadTypes DEF Contexts
  <2> QED
    BY <1>2, <2>1, FieldSame DEF addMessage
<1> QED
  BY <1>1, <1>2

LEMMA panicSame ==
  ASSUME NEW d \in Contexts
  PROVE  Same(d, panic(d))
<1> DEFINE d1 == [d EXCEPT !.panicked = TRUE]
<1>1. Same(d, d1)
  BY FieldSame
<1>2. <<>> \in Seq(WorkItems)
  OBVIOUS
<1>3. Same(d1, [d1 EXCEPT !.todo = <<>>])
  BY <1>1, <1>2, FieldSame, ZenonT(30) DEF Same
<1>4. panic(d) = [d1 EXCEPT !.todo = <<>>]
  BY DEF panic, Contexts
<1> QED
  BY <1>1, <1>3, <1>4, SameTransitive

LEMMA deleteMissingSame ==
  ASSUME NEW d \in Contexts, NEW i \in Nat
  PROVE  Same(d, deleteMissing(d, i))
<1> DEFINE s == d.MissingTransactions
           rest == SubSeq(s, 1, i - 1) \o SubSeq(s, i + 1, Len(s))
<1>1. s \in Seq(Tx) /\ Len(s) \in Nat /\ \A j \in 1 .. Len(s) : s[j] \in Tx
  BY DEF Contexts
<1>2. ASSUME i <= Len(s)
      PROVE  rest \in Seq(Tx)
  <2>1. i - 1 \in Int /\ \A j \in 1 .. i - 1 : s[j] \in Tx
    BY <1>1, <1>2
  <2>2. SubSeq(s, 1, i - 1) \in Seq(Tx)
    BY <2>1, SubSeqProperties
  <2>3. i + 1 \in Int /\ \A j \in i + 1 .. Len(s) : s[j] \in Tx
    BY <1>1
  <2>4. SubSeq(s, i + 1, Len(s)) \in Seq(Tx)
    BY <1>1, <2>3, SubSeqProperties
  <2> QED
    BY <2>2, <2>4
<1>3. ~(i > Len(s)) => i <= Len(s)
  BY <1>1
<1> QED
  BY <1>2, <1>3, SameReflexive, panicSame, FieldSame DEF deleteMissing

LEMMA verifyPreCommitsSame ==
  ASSUME NEW d \in Contexts
  PROVE  Same(d, verifyPreCommitPayloadsAgainstPreBlock(d))
<1> DEFINE preBlock == MakePreHeader(d)
           Bad(m) == m # Nil /\ m.view = d.ViewNumber /\ preBlock # Nil /\ m.sign # preBlock
           kept == [i \in Validators |-> IF Bad(d.PreCommitPayloads[i]) THEN Nil
                                         ELSE d.PreCommitPayloads[i]]
<1>1. d.PreCommitPayloads \in Slots(PreCommits)
  BY DEF Contexts
<1> HIDE DEF Bad
<1>2. kept \in Slots(PreCommits)
  BY <1>1 DEF Slots
<1> HIDE DEF kept
<1>3. Same(d, [d EXCEPT !.PreCommitPayloads = kept])
  BY <1>2, FieldSame
<1> QED
  BY <1>3, SameReflexive DEF verifyPreCommitPayloadsAgainstPreBlock, kept, Bad

-----------------------------------------------------------------------------
(* Commits.                                                                 *)

\* A node can build the header of its proposal.
HeaderReady(d) ==
    /\ RequestSentOrReceived(d)
    /\ isAntiMEVExtensionEnabled(d) => d.preBlockProcessed

LEMMA HeaderFacts ==
  ASSUME NEW d, Sane(d)
  PROVE  /\ RequestSentOrReceived(d) => MakePreHeader(d) \in Headers /\ MakePreHeader(d) # Nil
         /\ HeaderReady(d) => MakeHeader(d) = MakePreHeader(d)
         /\ MakePreHeader(d) # Nil => RequestSentOrReceived(d)
         /\ MakeHeader(d) # Nil => HeaderReady(d) /\ MakeHeader(d) \in Headers
<1>1. d.ViewNumber \in Views
  BY DEF Sane, Contexts
<1>2. RequestSentOrReceived(d) => MakePreHeader(d) \in Headers
  BY <1>1 DEF Sane, MakePreHeader, Headers
<1>3. RequestSentOrReceived(d) => MakePreHeader(d) # Nil
  BY <1>2, NilAssumption
<1> QED
  BY <1>2, <1>3 DEF MakeHeader, MakePreHeader, HeaderReady

\* A node that has not committed in its view is not bound.
LEMMA NotBound ==
  ASSUME NEW r, NEW S, NEW d, Good(r, d, S),
         ~CommitSent(r, d) \/ ~RequestSentOrReceived(d)
  PROVE  Loose(r, d, S)
  BY DEF Good, Loose, Sworn, Bound, CommitSent

\* As long as a node is not bound its height may grow.
LEMMA LooseGood ==
  ASSUME NEW r, NEW S \in SUBSET Payloads, NEW d, NEW d1, Good(r, d, S), Loose(r, d, S),
         Sane(d1), d1.BlockIndex >= d.BlockIndex, d1.out = d.out
  PROVE  Good(r, d1, S) /\ Loose(r, d1, S)
<1>1. d.BlockIndex \in Nat /\ d1.BlockIndex \in Nat /\ d.out \subseteq Payloads
  BY DEF Good, Sane, Contexts
<1>2. Sent(r, d1, S) = Sent(r, d, S)
  BY DEF Sent
<1>3. \A m \in Sent(r, d, S) : m.height \in Nat
  BY <1>1, PayloadTypes DEF Sent
<1>4. Free(r, d, S) => Free(r, d1, S)
  BY <1>1, <1>2, <1>3 DEF Free
<1>5. OwnOut(r, d1)
  BY DEF Good, OwnOut
<1> QED
  BY <1>2, <1>4, <1>5 DEF Good, Loose, Sworn

\* A new height frees the node of its commits.
LEMMA NewHeightLoose ==
  ASSUME NEW r, NEW S \in SUBSET Payloads, NEW d, NEW d1, Good(r, d, S),
         Sane(d1), d1.BlockIndex > d.BlockIndex, d1.out = d.out
  PROVE  Good(r, d1, S) /\ Loose(r, d1, S)
<1>1. d.BlockIndex \in Nat /\ d1.BlockIndex \in Nat /\ d.out \subseteq Payloads
  BY DEF Good, Sane, Contexts
<1>2. Sent(r, d1, S) = Sent(r, d, S)
  BY DEF Sent
<1>3. \A m \in Sent(r, d, S) : m.height \in Nat
  BY <1>1, PayloadTypes DEF Sent
<1>4. ASSUME Sworn(r, d, S)
      PROVE  Free(r, d1, S)
  <2>1. \A m \in Sent(r, d, S) : m.height <= d.BlockIndex
    BY <1>1, <1>3, <1>4 DEF Sworn, Free, Bound
  <2> QED
    BY <1>1, <1>2, <1>3, <2>1 DEF Free
<1>5. OwnOut(r, d1)
  BY DEF Good, OwnOut
<1> QED
  BY <1>2, <1>4, <1>5 DEF Good, Loose, Sworn

LEMMA blockProcessedGood ==
  ASSUME NEW r, NEW S, NEW d, Good(r, d, S), HeaderReady(d)
  PROVE  Good(r, [d EXCEPT !.blockProcessed = TRUE], S)
<1> DEFINE d1 == [d EXCEPT !.blockProcessed = TRUE]
<1>1. d \in Contexts /\ d1 \in Contexts
  BY FieldTypes DEF Good, Sane
<1>2. /\ d1.BlockIndex = d.BlockIndex
      /\ d1.ViewNumber = d.ViewNumber
      /\ d1.PreparationPayloads = d.PreparationPayloads
      /\ d1.CommitPayloads = d.CommitPayloads
      /\ d1.proposal = d.proposal
      /\ d1.preBlockProcessed = d.preBlockProcessed
      /\ d1.out = d.out
      /\ d1.blockProcessed = TRUE
  BY <1>1 DEF Contexts
<1> HIDE DEF d1
<1>3. /\ PrimaryIndex(d1) = PrimaryIndex(d)
      /\ RequestSentOrReceived(d1) = RequestSentOrReceived(d)
      /\ isAntiMEVExtensionEnabled(d1) = isAntiMEVExtensionEnabled(d)
      /\ MakePreHeader(d1) = MakePreHeader(d)
  BY <1>2 DEF PrimaryIndex, RequestSentOrReceived, isAntiMEVExtensionEnabled, MakePreHeader
<1>4. Sane(d1)
  BY <1>1, <1>2, <1>3 DEF Good, Sane, HeaderReady
<1>5. Sworn(r, d, S) => Sworn(r, d1, S)
  BY <1>2, <1>3 DEF Sworn, Free, Bound, Sent
<1>6. OwnOut(r, d1)
  BY <1>2 DEF Good, OwnOut
<1> QED
  BY <1>4, <1>5, <1>6 DEF Good, d1

LEMMA preBlockProcessedGood ==
  ASSUME NEW r, NEW S, NEW d, Good(r, d, S), RequestSentOrReceived(d)
  PROVE  LET d1 == [d EXCEPT !.preBlockProcessed = TRUE]
         IN  /\ Good(r, d1, S)
             /\ HeaderReady(d1)
             /\ isAntiMEVExtensionEnabled(d1) = isAntiMEVExtensionEnabled(d)
<1> DEFINE d1 == [d EXCEPT !.preBlockProcessed = TRUE]
<1>1. d \in Contexts /\ d1 \in Contexts
  BY FieldTypes DEF Good, Sane
<1>2. /\ d1.BlockIndex = d.BlockIndex
      /\ d1.ViewNumber = d.ViewNumber
      /\ d1.PreparationPayloads = d.PreparationPayloads
      /\ d1.CommitPayloads = d.CommitPayloads
      /\ d1.proposal = d.proposal
      /\ d1.blockProcessed = d.blockProcessed
      /\ d1.out = d.out
      /\ d1.preBlockProcessed = TRUE
  BY <1>1 DEF Contexts
<1> HIDE DEF d1
<1>3. /\ PrimaryIndex(d1) = PrimaryIndex(d)
      /\ RequestSentOrReceived(d1) = RequestSentOrReceived(d)
      /\ isAntiMEVExtensionEnabled(d1) = isAntiMEVExtensionEnabled(d)
      /\ MakePreHeader(d1) = MakePreHeader(d)
  BY <1>2 DEF PrimaryIndex, RequestSentOrReceived, isAntiMEVExtensionEnabled, MakePreHeader
<1>4. Sane(d1)
  BY <1>1, <1>2, <1>3 DEF Good, Sane
<1>5. Sworn(r, d, S) => Sworn(r, d1, S)
  BY <1>2, <1>3 DEF Sworn, Free, Bound, Sent
<1>6. OwnOut(r, d1)
  BY <1>2 DEF Good, OwnOut
<1>7. HeaderReady(d1)
  BY <1>2, <1>3 DEF HeaderReady
<1> QED
  BY <1>3, <1>4, <1>5, <1>6, <1>7 DEF Good, d1

LEMMA checkCommitGood ==
  ASSUME NEW r, NEW S, NEW d, Good(r, d, S), HeaderReady(d), NEW e
  PROVE  Good(r, checkCommit(d, e), S)
  BY blockProcessedGood DEF checkCommit

\* The fields of a context whose commits alone are replaced.
LEMMA CommitsField ==
  ASSUME NEW d \in Contexts, NEW x \in Slots(Commits)
  PROVE  LET d1 == [d EXCEPT !.CommitPayloads = x]
         IN  /\ d1 \in Contexts
             /\ d1.CommitPayloads = x
             /\ d1.BlockIndex = d.BlockIndex
             /\ d1.ViewNumber = d.ViewNumber
             /\ d1.PreparationPayloads = d.PreparationPayloads
             /\ d1.proposal = d.proposal
             /\ d1.blockProcessed = d.blockProcessed
             /\ d1.preBlockProcessed = d.preBlockProcessed
             /\ d1.out = d.out
             /\ PrimaryIndex(d1) = PrimaryIndex(d)
             /\ RequestSentOrReceived(d1) = RequestSentOrReceived(d)
             /\ isAntiMEVExtensionEnabled(d1) = isAntiMEVExtensionEnabled(d)
             /\ MakePreHeader(d1) = MakePreHeader(d)
             /\ HeaderReady(d1) = HeaderReady(d)
<1> DEFINE d1 == [d EXCEPT !.CommitPayloads = x]
<1>1. d1 \in Contexts
  BY FieldTypes
<1>2. /\ d1.CommitPayloads = x
      /\ d1.BlockIndex = d.BlockIndex
      /\ d1.ViewNumber = d.ViewNumber
      /\ d1.PreparationPayloads = d.PreparationPayloads
      /\ d1.proposal = d.proposal
      /\ d1.blockProcessed = d.blockProcessed
      /\ d1.preBlockProcessed = d.preBlockProcessed
      /\ d1.out = d.out
  BY DEF Contexts
<1> HIDE DEF d1
<1>3. /\ PrimaryIndex(d1) = PrimaryIndex(d)
      /\ RequestSentOrReceived(d1) = RequestSentOrReceived(d)
      /\ isAntiMEVExtensionEnabled(d1) = isAntiMEVExtensionEnabled(d)
      /\ MakePreHeader(d1) = MakePreHeader(d)
  BY <1>2 DEF PrimaryIndex, RequestSentOrReceived, isAntiMEVExtensionEnabled, MakePreHeader
<1>4. HeaderReady(d1) = HeaderReady(d)
  BY <1>2, <1>3 DEF HeaderReady
<1> QED
  BY <1>1, <1>2, <1>3, <1>4 DEF d1

\* Replacing commits other than the one that binds the node.
LEMMA CommitsGood ==
  ASSUME NEW r, NEW S, NEW d, Good(r, d, S), NEW x \in Slots(Commits),
         \A i \in Validators :
            x[i] # Nil => x[i].from = i /\ x[i].height = d.BlockIndex,
         Loose(r, d, S) \/ x[r] = d.CommitPayloads[r]
  PROVE  LET d1 == [d EXCEPT !.CommitPayloads = x]
         IN  Good(r, d1, S) /\ (Loose(r, d, S) => Loose(r, d1, S))
<1> DEFINE d1 == [d EXCEPT !.CommitPayloads = x]
<1>1. d \in Contexts
  BY DEF Good, Sane
<1>2. /\ d1 \in Contexts
      /\ d1.CommitPayloads = x
      /\ d1.BlockIndex = d.BlockIndex
      /\ d1.ViewNumber = d.ViewNumber
      /\ d1.PreparationPayloads = d.PreparationPayloads
      /\ d1.proposal = d.proposal
      /\ d1.blockProcessed = d.blockProcessed
      /\ d1.preBlockProcessed = d.preBlockProcessed
      /\ d1.out = d.out
      /\ PrimaryIndex(d1) = PrimaryIndex(d)
      /\ RequestSentOrReceived(d1) = RequestSentOrReceived(d)
      /\ isAntiMEVExtensionEnabled(d1) = isAntiMEVExtensionEnabled(d)
      /\ MakePreHeader(d1) = MakePreHeader(d)
  BY <1>1, CommitsField, Zenon
<1> HIDE DEF d1
<1>3. Sane(d1)
  BY <1>2 DEF Good, Sane
<1>4. Sent(r, d1, S) = Sent(r, d, S)
  BY <1>2 DEF Sent
<1>5. Free(r, d, S) => Free(r, d1, S)
  BY <1>2, <1>4 DEF Free
<1>6. ASSUME x[r] = d.CommitPayloads[r], Bound(r, d, S)
      PROVE  Bound(r, d1, S)
  BY <1>2, <1>4, <1>6 DEF Bound
<1>7. OwnOut(r, d1)
  BY <1>2 DEF Good, OwnOut
<1> QED
  BY <1>3, <1>4, <1>5, <1>6, <1>7 DEF Good, Sworn, Loose, d1

\* Checking the commits of the view against the header never drops the one
\* that binds the node, and leaves none for another header.
LEMMA verifyCommitsGood ==
  ASSUME NEW r \in Nodes, NEW S, NEW d, Good(r, d, S),
         Loose(r, d, S) \/ isAntiMEVExtensionEnabled(d)
  PROVE  LET d1 == verifyCommitPayloadsAgainstHeader(d)
         IN  /\ Good(r, d1, S)
             /\ Loose(r, d, S) => Loose(r, d1, S)
             /\ HeaderReady(d) =>
                    /\ HeaderReady(d1)
                    /\ \A i \in Validators :
                        LET m == d1.CommitPayloads[i]
                        IN  m # Nil /\ m.view = d1.ViewNumber => m.sign = MakePreHeader(d1)
             /\ isAntiMEVExtensionEnabled(d1) = isAntiMEVExtensionEnabled(d)
             /\ d1.blockProcessed = d.blockProcessed
             /\ d1.BlockIndex = d.BlockIndex
<1> DEFINE header == MakeHeader(d)
           Bad(m) == m # Nil /\ m.view = d.ViewNumber /\ header # Nil /\ m.sign # header
           x == [i \in Validators |-> IF Bad(d.CommitPayloads[i]) THEN Nil
                                      ELSE d.CommitPayloads[i]]
           d1 == [d EXCEPT !.CommitPayloads = x]
<1>1. d \in Contexts /\ d.CommitPayloads \in Slots(Commits) /\ Sane(d)
  BY DEF Good, Sane, Contexts
<1>2. \A i \in Validators : x[i] = IF Bad(d.CommitPayloads[i]) THEN Nil
                                   ELSE d.CommitPayloads[i]
  OBVIOUS
<1>3. x \in Slots(Commits)
  <2> HIDE DEF Bad
  <2> QED
    BY <1>1 DEF Slots
<1>4. \A i \in Validators : x[i] # Nil => x[i].from = i /\ x[i].height = d.BlockIndex
  BY <1>1, <1>2 DEF Sane
<1>5. ASSUME ~Loose(r, d, S)
      PROVE  x[r] = d.CommitPayloads[r]
  <2>1. Bound(r, d, S) /\ isAntiMEVExtensionEnabled(d) /\ ~WatchOnly(r)
    BY <1>5 DEF Good, Loose, Sworn
  <2>2. ~Bad(d.CommitPayloads[r])
    BY <2>1, <1>1, HeaderFacts DEF Bound, HeaderReady
  <2> QED
    BY <1>2, <2>1, <2>2, NodeFacts
<1> HIDE DEF x
<1>6. Good(r, d1, S) /\ (Loose(r, d, S) => Loose(r, d1, S))
  BY <1>3, <1>4, <1>5, CommitsGood
<1>7. /\ d1.CommitPayloads = x
      /\ d1.ViewNumber = d.ViewNumber
      /\ d1.BlockIndex = d.BlockIndex
      /\ d1.blockProcessed = d.blockProcessed
      /\ MakePreHeader(d1) = MakePreHeader(d)
      /\ HeaderReady(d1) = HeaderReady(d)
      /\ isAntiMEVExtensionEnabled(d1) = isAntiMEVExtensionEnabled(d)
  BY <1>1, <1>3, CommitsField, Zenon
<1>8. d1 = verifyCommitPayloadsAgainstHeader(d)
  BY DEF verifyCommitPayloadsAgainstHeader, x
<1> HIDE DEF d1
<1>9. ASSUME HeaderReady(d), NEW i \in Validators, d1.CommitPayloads[i] # Nil,
             d1.CommitPayloads[i].view = d1.ViewNumber
      PROVE  d1.CommitPayloads[i].sign = MakePreHeader(d1)
  <2>1. header = MakePreHeader(d) /\ header # Nil
    BY <1>1, <1>9, HeaderFacts DEF HeaderReady
  <2> QED
    BY <1>2, <1>7, <1>9, <2>1
<1> QED
  BY <1>6, <1>7, <1>8, <1>9, Zenon

\* A node that stores and sends its commit is bound by it.
LEMMA CommitSworn ==
  ASSUME NEW r \in Validators, NEW S \in SUBSET Payloads, NEW d, Good(r, d, S),
         NEW m \in Commits, m.from = r, m.height = d.BlockIndex,
         d.CommitPayloads[r] \in {Nil, m},
         RequestSentOrReceived(d),
         isAntiMEVExtensionEnabled(d) /\ m.view = d.ViewNumber =>
            d.preBlockProcessed /\ m.sign = MakePreHeader(d)
  PROVE  LET d2 == Broadcast([d EXCEPT !.CommitPayloads[r] = m], m)
         IN  Good(r, d2, S) /\ (HeaderReady(d) => HeaderReady(d2))
<1> DEFINE x == [d.CommitPayloads EXCEPT ![r] = m]
           d1 == [d EXCEPT !.CommitPayloads = x]
           d2 == [d1 EXCEPT !.out = d1.out \cup {m}]
<1>1. d \in Contexts /\ d.CommitPayloads \in Slots(Commits) /\ d.out \subseteq Payloads
      /\ d.BlockIndex \in Nat /\ Sane(d) /\ m # Nil /\ m \in Payloads
  BY PayloadNotNil DEF Good, Sane, Contexts, Payloads, Restorable
<1>2. x \in Slots(Commits) /\ \A i \in Validators : x[i] = IF i = r THEN m
                                                           ELSE d.CommitPayloads[i]
  BY <1>1 DEF Slots
<1> HIDE DEF x
<1>3. /\ d1 \in Contexts
      /\ d1.CommitPayloads = x
      /\ d1.BlockIndex = d.BlockIndex
      /\ d1.ViewNumber = d.ViewNumber
      /\ d1.PreparationPayloads = d.PreparationPayloads
      /\ d1.proposal = d.proposal
      /\ d1.blockProcessed = d.blockProcessed
      /\ d1.preBlockProcessed = d.preBlockProcessed
      /\ d1.out = d.out
  BY <1>1, <1>2, CommitsField, ZenonT(30)
<1>4. d2 = Broadcast([d EXCEPT !.CommitPayloads[r] = m], m)
  BY DEF Broadcast, x
<1> HIDE DEF d1
<1>5. d1.out \cup {m} \in SUBSET Payloads
  BY <1>1, <1>3
<1>6. d2 \in Contexts
  BY <1>3, <1>5, FieldTypes
<1>7. /\ d2.CommitPayloads = x
      /\ d2.BlockIndex = d.BlockIndex
      /\ d2.ViewNumber = d.ViewNumber
      /\ d2.PreparationPayloads = d.PreparationPayloads
      /\ d2.proposal = d.proposal
      /\ d2.blockProcessed = d.blockProcessed
      /\ d2.preBlockProcessed = d.preBlockProcessed
      /\ d2.out = d.out \cup {m}
  BY <1>3 DEF Contexts
<1> HIDE DEF d2
<1>8. /\ PrimaryIndex(d2) = PrimaryIndex(d)
      /\ RequestSentOrReceived(d2) = RequestSentOrReceived(d)
      /\ isAntiMEVExtensionEnabled(d2) = isAntiMEVExtensionEnabled(d)
      /\ MakePreHeader(d2) = MakePreHeader(d)
  BY <1>7 DEF PrimaryIndex, RequestSentOrReceived, isAntiMEVExtensionEnabled, MakePreHeader
<1>9. Sane(d2)
  BY <1>1, <1>2, <1>6, <1>7, <1>8 DEF Sane
<1>10. OwnOut(r, d2)
  BY <1>7 DEF Good, OwnOut
<1>11. Sent(r, d2, S) = Sent(r, d, S) \cup {m}
  BY <1>7 DEF Sent, Commits
<1>12. \A k \in Sent(r, d, S) : k.height \in Nat
  BY <1>1, PayloadTypes DEF Sent
<1>13. ASSUME Sworn(r, d, S)
       PROVE  Sworn(r, d2, S)
  <2>1. \A k \in Sent(r, d, S) :
            k.height < d.BlockIndex \/ (k.height = d.BlockIndex /\ k.sign = m.sign)
    <3>1. CASE Free(r, d, S)
      BY <3>1 DEF Free
    <3>2. CASE Bound(r, d, S)
      <4>1. d.CommitPayloads[r] = m
        BY <3>2 DEF Bound
      <4> QED
        BY <3>2, <4>1 DEF Bound
    <3> QED
      BY <1>13, <3>1, <3>2 DEF Sworn
  <2>2. d2.CommitPayloads[r] = m
    BY <1>2, <1>7
  <2>3. Bound(r, d2, S)
    BY <1>1, <1>7, <1>8, <1>11, <2>1, <2>2 DEF Bound
  <2>4. \A k1, k2 \in Sent(r, d2, S) : k1.height = k2.height => k1.sign = k2.sign
    BY <1>1, <1>11, <1>12, <1>13, <2>1 DEF Sworn
  <2> QED
    BY <2>3, <2>4 DEF Sworn
<1>14. HeaderReady(d) => HeaderReady(d2)
  BY <1>7, <1>8 DEF HeaderReady
<1> QED
  BY <1>4, <1>9, <1>10, <1>13, <1>14 DEF Good

\* sendCommit binds a node to one header per height: to the one it has signed
\* at this height, or else to that of the view it is in.
LEMMA sendCommitGood ==
  ASSUME NEW r \in Validators, NEW S \in SUBSET Payloads, NEW d, Good(r, d, S),
         HeaderReady(d),
         LET own == d.CommitPayloads[r]
         IN  isAntiMEVExtensionEnabled(d) /\ own # Nil /\ own.view = d.ViewNumber =>
                own.sign = MakePreHeader(d)
  PROVE  Good(r, sendCommit(r, d), S) /\ HeaderReady(sendCommit(r, d))
<1> DEFINE own == d.CommitPayloads[r]
           new == CommitMsg(d.BlockIndex, d.ViewNumber, r, MakeHeader(d))
<1>1. Sane(d) /\ d.CommitPayloads \in Slots(Commits) /\ d.BlockIndex \in Nat
      /\ d.ViewNumber \in Views
  BY DEF Good, Sane, Contexts
<1>2. MakeHeader(d) = MakePreHeader(d) /\ MakePreHeader(d) \in Headers /\ MakeHeader(d) # Nil
  BY <1>1, HeaderFacts DEF HeaderReady
<1>3. CASE own # Nil
  <2>1. own \in Commits /\ own.from = r /\ own.height = d.BlockIndex
    BY <1>1, <1>3 DEF Sane, Slots
  <2>2. sendCommit(r, d) = Broadcast([d EXCEPT !.CommitPayloads[r] = own], own)
    BY <1>3 DEF sendCommit, makeCommit
  <2>3. isAntiMEVExtensionEnabled(d) /\ own.view = d.ViewNumber =>
            d.preBlockProcessed /\ own.sign = MakePreHeader(d)
    BY <1>3 DEF HeaderReady
  <2> QED
    BY <2>1, <2>2, <2>3, CommitSworn DEF HeaderReady
<1>4. CASE own = Nil
  <2>1. new \in Commits /\ new.from = r /\ new.height = d.BlockIndex
        /\ new.sign = MakePreHeader(d)
    BY <1>1, <1>2 DEF CommitMsg, Commits
  <2>2. new # Nil
    BY <2>1, PayloadNotNil DEF Payloads, Restorable
  <2>3. sendCommit(r, d) = Broadcast([d EXCEPT !.CommitPayloads[r] = new], new)
    BY <1>2, <1>4, <2>2 DEF sendCommit, makeCommit
  <2>4. isAntiMEVExtensionEnabled(d) => d.preBlockProcessed
    BY DEF HeaderReady
  <2> HIDE DEF new
  <2> QED
    BY <1>4, <2>1, <2>3, <2>4, CommitSworn DEF HeaderReady
<1> QED
  BY <1>3, <1>4

LEMMA sendPreCommitSame ==
  ASSUME NEW r \in Validators, NEW d, Sane(d)
  PROVE  Same(d, sendPreCommit(r, d))
<1> DEFINE msg == makePreCommit(r, d)
           x == [d.PreCommitPayloads EXCEPT ![r] = msg]
           d1 == [d EXCEPT !.PreCommitPayloads = x]
<1>1. d \in Contexts /\ d.PreCommitPayloads \in Slots(PreCommits) /\ d.BlockIndex \in Nat
      /\ d.ViewNumber \in Views
  BY DEF Sane, Contexts
<1>2. CASE msg = Nil
  BY <1>1, <1>2, SameReflexive DEF sendPreCommit
<1>3. CASE msg # Nil
  <2>1. msg \in PreCommits
    <3>1. CASE d.PreCommitPayloads[r] # Nil
      BY <1>1, <3>1 DEF makePreCommit, Slots
    <3>2. CASE d.PreCommitPayloads[r] = Nil
      <4>1. MakePreHeader(d) # Nil /\ msg = PreCommitMsg(d.BlockIndex, d.ViewNumber, r,
                                                          MakePreHeader(d))
        BY <1>3, <3>2 DEF makePreCommit
      <4>2. MakePreHeader(d) \in Headers
        BY <4>1, HeaderFacts
      <4> QED
        BY <1>1, <4>1, <4>2 DEF PreCommitMsg, PreCommits
    <3> QED
      BY <3>1, <3>2
  <2>2. sendPreCommit(r, d) = Broadcast(d1, msg)
    BY <1>3 DEF sendPreCommit
  <2> HIDE DEF msg
  <2>3. x \in Slots(PreCommits)
    BY <1>1, <2>1 DEF Slots
  <2> HIDE DEF x
  <2>4. Same(d, d1)
    BY <1>1, <2>3, FieldSame
  <2> HIDE DEF d1
  <2>5. msg \in Payloads /\ msg.type # "Commit"
    BY <2>1 DEF PreCommits, Payloads, Restorable
  <2>6. Same(d1, Broadcast(d1, msg))
    BY <2>4, <2>5, BroadcastSame DEF Same
  <2> QED
    BY <2>2, <2>4, <2>6, SameTransitive
<1> QED
  BY <1>2, <1>3

LEMMA SameHeaderReady ==
  ASSUME NEW d, NEW d1, Same(d, d1)
  PROVE  HeaderReady(d1) = HeaderReady(d)
  BY SameFacts DEF Same, HeaderReady

\* A call that is the same for the commits keeps a node in order.
LEMMA changeTimerGood ==
  ASSUME NEW r, NEW S, NEW d, Good(r, d, S), NEW op \in CallNames
  PROVE  LET d1 == changeTimer(d, op)
         IN  /\ Same(d, d1)
             /\ Good(r, d1, S)
             /\ Loose(r, d, S) => Loose(r, d1, S)
             /\ HeaderReady(d1) = HeaderReady(d)
<1>1. Same(d, changeTimer(d, op))
  BY changeTimerSame DEF Good, Sane
<1> QED
  BY <1>1, SameKeepsGood, SameHeaderReady

LEMMA CallGood ==
  ASSUME NEW r, NEW S, NEW d, Good(r, d, S), NEW op \in CallNames
  PROVE  LET d1 == Call(d, op)
         IN  /\ Same(d, d1)
             /\ Good(r, d1, S)
             /\ Loose(r, d, S) => Loose(r, d1, S)
<1>1. Same(d, Call(d, op))
  BY CallSame DEF Good, Sane
<1> QED
  BY <1>1, SameKeepsGood

LEMMA extendTimerGood ==
  ASSUME NEW r, NEW S, NEW d, Good(r, d, S), NEW op \in CallNames
  PROVE  LET d1 == extendTimer(r, d, op)
         IN  /\ Same(d, d1)
             /\ Good(r, d1, S)
             /\ Loose(r, d, S) => Loose(r, d1, S)
             /\ HeaderReady(d1) = HeaderReady(d)
<1>1. Same(d, extendTimer(r, d, op))
  BY extendTimerSame DEF Good, Sane
<1> QED
  BY <1>1, SameKeepsGood, SameHeaderReady

\* Between the PreCommits and the Commit of the anti-MEV extension a node
\* drops the commits of its view that are for another header, its own too.
LEMMA checkPreCommitGood ==
  ASSUME NEW r \in Nodes, NEW S \in SUBSET Payloads, NEW d, Good(r, d, S),
         RequestSentOrReceived(d), isAntiMEVExtensionEnabled(d), NEW e
  PROVE  Good(r, checkPreCommit(r, d, e), S)
<1> DEFINE processed == [d EXCEPT !.preBlockProcessed = TRUE]
           verified == verifyCommitPayloadsAgainstHeader(processed)
           sent == sendCommit(r, verified)
<1>1. Good(r, processed, S) /\ HeaderReady(processed) /\ isAntiMEVExtensionEnabled(processed)
  BY preBlockProcessedGood
<1> HIDE DEF processed
<1>2. /\ Good(r, verified, S)
      /\ HeaderReady(verified)
      /\ \A i \in Validators :
            LET m == verified.CommitPayloads[i]
            IN  m # Nil /\ m.view = verified.ViewNumber => m.sign = MakePreHeader(verified)
  BY <1>1, verifyCommitsGood, Zenon
<1> HIDE DEF verified
<1>3. ASSUME PreCommitSent(r, d)
      PROVE  Good(r, checkCommit(changeTimer(sent, "commit"), e), S)
  <2>1. r \in Validators
    BY <1>3, NodeFacts DEF PreCommitSent
  <2>2. Good(r, sent, S) /\ HeaderReady(sent)
    BY <1>2, <2>1, sendCommitGood
  <2> HIDE DEF sent
  <2>3. LET d1 == changeTimer(sent, "commit") IN Good(r, d1, S) /\ HeaderReady(d1)
    BY <2>2, Names, changeTimerGood
  <2> QED
    BY <2>3, checkCommitGood
<1> QED
  BY <1>1, <1>3 DEF checkPreCommit, processed, verified

LEMMA checkPrepareGood ==
  ASSUME NEW r \in Validators, NEW S \in SUBSET Payloads, NEW d0, Good(r, d0, S), NEW e
  PROVE  Good(r, checkPrepare(r, d0, e), S)
<1> DEFINE d == Call(d0, "checkPrepare")
<1>0. Good(r, d, S)
  BY Names, CallGood
<1> HIDE DEF d
<1> DEFINE preparations == PayloadsOf(d.PreparationPayloads)
           hasRequest == \E m \in preparations : m.type = "PrepareRequest"
<1>1. Sane(d) /\ r \in Nodes
  BY <1>0 DEF Good, Nodes
<1>2. SUFFICES ASSUME hasRequest, checkPrepare(r, d0, e) # d
               PROVE  Good(r, checkPrepare(r, d0, e), S)
  BY <1>0 DEF checkPrepare, d
<1>3. RequestSentOrReceived(d)
  BY <1>1, <1>2 DEF Sane, RequestSentOrReceived, PayloadsOf
<1>4. CASE isAntiMEVExtensionEnabled(d)
  <2> DEFINE sent == sendPreCommit(r, d)
  <2>1. Same(d, sent)
    BY <1>1, sendPreCommitSame
  <2> HIDE DEF sent
  <2>2. Good(r, sent, S)
    BY <1>0, <2>1, SameKeepsGood
  <2> DEFINE timed == changeTimer(sent, "commit")
  <2>3. Same(sent, timed) /\ Good(r, timed, S)
    BY <2>2, Names, changeTimerGood
  <2>7. checkPrepare(r, d0, e) = checkPreCommit(r, timed, e)
    BY <1>2, <1>4 DEF checkPrepare, sent, d
  <2> HIDE DEF timed
  <2>4. Same(d, timed)
    BY <2>1, <2>3, SameTransitive
  <2>5. RequestSentOrReceived(timed) /\ isAntiMEVExtensionEnabled(timed)
    BY <1>3, <1>4, <2>4, SameFacts
  <2>6. Good(r, checkPreCommit(r, timed, e), S)
    BY <1>1, <2>3, <2>5, checkPreCommitGood
  <2> QED
    BY <2>6, <2>7
<1>5. CASE ~isAntiMEVExtensionEnabled(d)
  <2> DEFINE sent == sendCommit(r, d)
  <2>1. HeaderReady(d)
    BY <1>3, <1>5 DEF HeaderReady
  <2>2. Good(r, sent, S) /\ HeaderReady(sent)
    BY <1>0, <1>5, <2>1, sendCommitGood
  <2> DEFINE timed == changeTimer(sent, "commit")
  <2>3. checkPrepare(r, d0, e) = checkCommit(timed, e)
    BY <1>2, <1>5 DEF checkPrepare, sent, d
  <2> HIDE DEF sent
  <2>4. Good(r, timed, S) /\ HeaderReady(timed)
    BY <2>2, Names, changeTimerGood
  <2> HIDE DEF timed
  <2> QED
    BY <2>3, <2>4, checkCommitGood
<1> QED
  BY <1>4, <1>5

-----------------------------------------------------------------------------
(* Opening a height or a view.                                              *)

\* reset leaves a context of the right type that keeps its commits within a
\* height and has no preparation.
LEMMA resetFacts ==
  ASSUME NEW r \in Nodes, NEW d \in Contexts, NEW view \in Views, NEW height \in Nat
  PROVE  LET d1 == reset(r, d, view, height)
         IN  /\ d1 \in Contexts
             /\ d1.BlockIndex = IF view = 0 THEN height ELSE d.BlockIndex
             /\ d1.ViewNumber = view
             /\ d1.PreparationPayloads = NoPayloads
             /\ d1.CommitPayloads = IF view = 0 THEN NoPayloads ELSE d.CommitPayloads
             /\ d1.PreCommitPayloads =
                    IF view = 0 THEN NoPayloads ELSE d.PreCommitPayloads
             /\ d1.blockProcessed = (view # 0 /\ d.blockProcessed)
             /\ d1.preBlockProcessed = (view # 0 /\ d.preBlockProcessed)
             /\ d1.proposal = Nil
             /\ d1.cache = d.cache /\ d1.todo = d.todo
             /\ d1.timer = d.timer /\ d1.panicked = d.panicked
             /\ d1.out = d.out
<1> DEFINE lcv == [i \in Validators |->
                    IF /\ view # 0
                       /\ d.ChangeViewPayloads[i] # Nil
                       /\ d.ChangeViewPayloads[i].newView >= view
                    THEN d.ChangeViewPayloads[i]
                    ELSE Nil]
           lsm == [i \in Validators |->
                    IF i = r THEN view
                    ELSE IF view = 0 THEN -1 ELSE d.LastSeenMessage[i]]
           bi == IF view = 0 THEN height ELSE d.BlockIndex
           bp == view # 0 /\ d.blockProcessed
           pbp == view # 0 /\ d.preBlockProcessed
           pc == IF view = 0 THEN NoPayloads ELSE d.PreCommitPayloads
           c == IF view = 0 THEN NoPayloads ELSE d.CommitPayloads
<1>1. /\ d.BlockIndex \in Nat
      /\ d.PreCommitPayloads \in Slots(PreCommits)
      /\ d.CommitPayloads \in Slots(Commits)
      /\ d.ChangeViewPayloads \in Slots(ChangeViews)
      /\ d.LastSeenMessage \in [Validators -> Views \cup {-1}]
      /\ d.blockProcessed \in BOOLEAN
      /\ d.preBlockProcessed \in BOOLEAN
  BY DEF Contexts
<1>2. /\ NoPayloads \in Slots(PreCommits)
      /\ NoPayloads \in Slots(Commits)
      /\ NoPayloads \in Slots(ChangeViews)
      /\ NoPayloads \in Slots(PrepareRequests \cup PrepareResponses)
  BY DEF NoPayloads, Slots
<1>3. bi \in Nat /\ bp \in BOOLEAN /\ pbp \in BOOLEAN
  BY <1>1
<1>4. lcv \in Slots(ChangeViews)
  BY <1>1 DEF Slots
<1>5. lsm \in [Validators -> Views \cup {-1}]
  BY <1>1
<1>6. pc \in Slots(PreCommits) /\ c \in Slots(Commits)
  BY <1>1, <1>2
<1>7. Nil \in Proposals \cup {Nil} /\ {} \in SUBSET Tx /\ <<>> \in Seq(Tx)
  OBVIOUS
<1> HIDE DEF lcv, lsm, bi, bp, pbp, pc, c
<1> DEFINE a1 == [d EXCEPT !.BlockIndex = bi]
           a2 == [a1 EXCEPT !.ViewNumber = view]
           a3 == [a2 EXCEPT !.LastChangeViewPayloads = lcv]
           a4 == [a3 EXCEPT !.LastSeenMessage = lsm]
           a5 == [a4 EXCEPT !.blockProcessed = bp]
           a6 == [a5 EXCEPT !.preBlockProcessed = pbp]
           a7 == [a6 EXCEPT !.ChangeViewPayloads = NoPayloads]
           a8 == [a7 EXCEPT !.PreparationPayloads = NoPayloads]
           a9 == [a8 EXCEPT !.PreCommitPayloads = pc]
           a10 == [a9 EXCEPT !.CommitPayloads = c]
           a11 == [a10 EXCEPT !.proposal = Nil]
           a12 == [a11 EXCEPT !.Transactions = {}]
           a13 == [a12 EXCEPT !.MissingTransactions = <<>>]
           a14 == [a13 EXCEPT !.txSubscriptionOn = FALSE]
<1>8. reset(r, d, view, height) =
        [d EXCEPT !.BlockIndex = bi,
                  !.ViewNumber = view,
                  !.LastChangeViewPayloads = lcv,
                  !.LastSeenMessage = lsm,
                  !.blockProcessed = bp,
                  !.preBlockProcessed = pbp,
                  !.ChangeViewPayloads = NoPayloads,
                  !.PreparationPayloads = NoPayloads,
                  !.PreCommitPayloads = pc,
                  !.CommitPayloads = c,
                  !.proposal = Nil,
                  !.Transactions = {},
                  !.MissingTransactions = <<>>,
                  !.txSubscriptionOn = FALSE]
  BY DEF reset, lcv, lsm, bi, bp, pbp, pc, c
<1>9. reset(r, d, view, height) = a14
  BY <1>8
<1> HIDE DEF a1, a2, a3, a4, a5, a6, a7, a8, a9, a10, a11, a12, a13, a14
<1>10. a1 \in Contexts /\ a2 \in Contexts
  <2>1. a1 \in Contexts
    BY <1>3, FieldTypes DEF a1
  <2> QED
    BY <2>1, FieldTypes DEF a2
<1>11. a3 \in Contexts
  BY <1>4, <1>10, FieldTypes DEF a3
<1>12. a4 \in Contexts
  BY <1>5, <1>11, FieldTypes DEF a4
<1>13. a5 \in Contexts
  BY <1>3, <1>12, FieldTypes DEF a5
<1>14. a6 \in Contexts
  BY <1>3, <1>13, FieldTypes DEF a6
<1>15. a7 \in Contexts
  BY <1>2, <1>14, FieldTypes DEF a7
<1>16. a8 \in Contexts
  BY <1>2, <1>15, FieldTypes DEF a8
<1>17. a9 \in Contexts
  BY <1>6, <1>16, FieldTypes DEF a9
<1>18. a10 \in Contexts
  BY <1>6, <1>17, FieldTypes DEF a10
<1>19. a11 \in Contexts
  BY <1>7, <1>18, FieldTypes DEF a11
<1>20. a12 \in Contexts
  BY <1>7, <1>19, FieldTypes DEF a12
<1>21. a13 \in Contexts
  BY <1>7, <1>20, FieldTypes DEF a13
<1>22. a14 \in Contexts
  BY <1>21, FieldTypes DEF a14
<1>23. /\ a14.BlockIndex = bi
       /\ a14.ViewNumber = view
       /\ a14.blockProcessed = bp
       /\ a14.preBlockProcessed = pbp
       /\ a14.PreparationPayloads = NoPayloads
       /\ a14.PreCommitPayloads = pc
       /\ a14.CommitPayloads = c
       /\ a14.proposal = Nil
       /\ a14.cache = d.cache /\ a14.todo = d.todo
       /\ a14.timer = d.timer /\ a14.panicked = d.panicked
       /\ a14.out = d.out
  BY DEF Contexts, a1, a2, a3, a4, a5, a6, a7, a8, a9, a10, a11, a12, a13, a14
<1> QED
  BY <1>9, <1>22, <1>23 DEF bi, bp, pbp, pc, c

\* A height opens with nothing stored; a view opens with the commits of its
\* height, if the node is not bound by its own and has processed no block.
LEMMA resetGood ==
  ASSUME NEW r \in Nodes, NEW S \in SUBSET Payloads, NEW d, Good(r, d, S),
         NEW view \in Views, NEW height \in Nat,
         view = 0 => height > d.BlockIndex,
         view # 0 => Loose(r, d, S) /\ ~d.blockProcessed
  PROVE  LET d1 == reset(r, d, view, height)
         IN  /\ Good(r, d1, S) /\ Loose(r, d1, S)
             /\ ~d1.blockProcessed /\ ~RequestSentOrReceived(d1)
<1> DEFINE d1 == reset(r, d, view, height)
<1>1. d \in Contexts /\ Sane(d) /\ d.BlockIndex \in Nat
  BY DEF Good, Sane, Contexts
<1>2. /\ d1 \in Contexts
      /\ d1.BlockIndex = IF view = 0 THEN height ELSE d.BlockIndex
      /\ d1.ViewNumber = view
      /\ d1.PreparationPayloads = NoPayloads
      /\ d1.CommitPayloads = IF view = 0 THEN NoPayloads ELSE d.CommitPayloads
      /\ d1.blockProcessed = (view # 0 /\ d.blockProcessed)
      /\ d1.out = d.out
  BY <1>1, resetFacts
<1> HIDE DEF d1
<1>3. \A i \in Validators : NoPayloads[i] = Nil
  BY DEF NoPayloads
<1>4. PrimaryIndex(d1) \in Validators
  BY <1>2, NodeFacts
<1>5. ~RequestSentOrReceived(d1)
  BY <1>2, <1>3, <1>4 DEF RequestSentOrReceived
<1>6. \A i \in Validators : d1.CommitPayloads[i] # Nil =>
        /\ d1.CommitPayloads[i].from = i
        /\ d1.CommitPayloads[i].height = d1.BlockIndex
  BY <1>1, <1>2, <1>3 DEF Sane
<1>7. ~d1.blockProcessed
  BY <1>2
<1>8. Sane(d1)
  BY <1>2, <1>3, <1>5, <1>6, <1>7 DEF Sane
<1>9. CASE view = 0
  BY <1>1, <1>2, <1>5, <1>7, <1>8, <1>9, NewHeightLoose DEF d1
<1>10. CASE view # 0
  BY <1>1, <1>2, <1>5, <1>7, <1>8, <1>10, LooseGood DEF d1
<1> QED
  BY <1>9, <1>10

LEMMA armTimerSame ==
  ASSUME NEW r, NEW d \in Contexts, NEW view
  PROVE  Same(d, armTimer(r, d, view))
<1>1. /\ Same(d, changeTimer(d, "propose")) /\ Same(d, changeTimer(d, "proposeAtOnce"))
      /\ Same(d, changeTimer(d, "await"))
  BY Names, changeTimerSame
<1> QED
  BY <1>1, SameReflexive DEF armTimer

LEMMA initializeConsensusGood ==
  ASSUME NEW r \in Nodes, NEW S \in SUBSET Payloads, NEW d, Good(r, d, S),
         NEW view \in Views, NEW height \in Nat,
         view = 0 => height > d.BlockIndex,
         view # 0 => Loose(r, d, S) /\ ~d.blockProcessed
  PROVE  LET d1 == initializeConsensus(r, d, view, height)
         IN  /\ Good(r, d1, S) /\ Loose(r, d1, S)
             /\ ~d1.blockProcessed /\ ~RequestSentOrReceived(d1)
<1> DEFINE d0 == reset(r, d, view, height)
           d1 == Call(d0, "reset")
           inbox == getHeight(d1, d1.BlockIndex)
           left == d1.cache \ inbox
           d2 == [d1 EXCEPT !.cache = left]
           Mail(kind) == Replay({m \in inbox : InboxOf(m.type) = kind})
           items == <<Mail("prepare"), Mail("ChangeView"), Mail("PreCommit"),
                      Mail("Commit"), [op |-> "armTimer", view |-> view]>>
           d3 == initializeConsensus(r, d, view, height)
<1>0. /\ Good(r, d0, S) /\ Loose(r, d0, S)
      /\ ~d0.blockProcessed /\ ~RequestSentOrReceived(d0)
  BY resetGood
<1> HIDE DEF d0
<1>1. /\ Good(r, d1, S) /\ Loose(r, d1, S)
      /\ ~d1.blockProcessed /\ ~RequestSentOrReceived(d1)
  <2>1. Same(d0, d1) /\ Good(r, d1, S) /\ Loose(r, d1, S)
    BY <1>0, Names, CallGood
  <2> HIDE DEF d1
  <2> QED
    BY <1>0, <2>1, SameFacts DEF Same
<1>2. d1 \in Contexts
  BY <1>1 DEF Good, Sane
<1>3. d3 = IF inbox = {} THEN armTimer(r, d1, view) ELSE Push(d2, items)
  BY DEF initializeConsensus, d0
<1> HIDE DEF d1, d3
<1>4. d1.cache \subseteq Restorable
  BY <1>2 DEF Contexts
<1>5. Same(d1, d2)
  BY <1>2, <1>4, FieldSame
<1>6. inbox \subseteq Restorable
  BY <1>4 DEF getHeight
<1> HIDE DEF inbox, d2
<1>7. \A kind : Mail(kind) \in WorkItems
  BY <1>6 DEF Replay, WorkItems
<1>8. [op |-> "armTimer", view |-> view] \in WorkItems
  BY DEF WorkItems
<1> HIDE DEF Mail
<1>9. items \in Seq(WorkItems)
  BY <1>7, <1>8
<1> HIDE DEF items
<1>10. Same(d2, Push(d2, items))
  BY <1>5, <1>9, PushSame DEF Same
<1>11. Same(d1, d3)
  BY <1>2, <1>3, <1>5, <1>10, armTimerSame, SameTransitive
<1> QED
  BY <1>1, <1>11, SameKeepsGood, SameFacts DEF Same, d3

LEMMA broadcastChangeViewSame ==
  ASSUME NEW r \in Validators, NEW d \in Contexts
  PROVE  Same(d, broadcastChangeView(r, d))
<1> DEFINE m == makeChangeView(r, d)
           x == [d.ChangeViewPayloads EXCEPT ![r] = m]
           d1 == [d EXCEPT !.ChangeViewPayloads = x]
<1>1. d.ChangeViewPayloads \in Slots(ChangeViews) /\ d.BlockIndex \in Nat
      /\ d.ViewNumber \in Views
  BY DEF Contexts
<1>2. (d.ViewNumber + 1) % ViewSize \in Views
  <2>1. d.ViewNumber + 1 \in Nat
    BY <1>1 DEF Views
  <2> QED
    BY <2>1, ViewFacts
<1>3. m \in ChangeViews
  BY <1>1, <1>2 DEF makeChangeView, ChangeViewMsg, ChangeViews
<1>4. broadcastChangeView(r, d) = Broadcast(d1, m)
  BY DEF broadcastChangeView
<1> HIDE DEF m
<1>5. x \in Slots(ChangeViews)
  BY <1>1, <1>3 DEF Slots
<1> HIDE DEF x
<1>6. Same(d, d1)
  BY <1>5, FieldSame
<1> HIDE DEF d1
<1>7. m \in Payloads /\ m.type # "Commit"
  BY <1>3 DEF ChangeViews, Payloads, Restorable
<1>8. Same(d1, Broadcast(d1, m))
  BY <1>6, <1>7, BroadcastSame DEF Same
<1> QED
  BY <1>4, <1>6, <1>8, SameTransitive

\* Only a node that has not committed changes its view.
LEMMA checkChangeViewGood ==
  ASSUME NEW r \in Nodes, NEW S \in SUBSET Payloads, NEW d, Good(r, d, S),
         Loose(r, d, S), ~d.blockProcessed, NEW view \in Views
  PROVE  Good(r, checkChangeView(r, d, view), S)
<1> DEFINE mine == IF WatchOnly(r) THEN Nil ELSE d.ChangeViewPayloads[r]
           agree == mine # Nil /\ mine.newView < view
           d1 == IF agree THEN broadcastChangeView(r, d) ELSE d
<1>1. d \in Contexts /\ d.BlockIndex \in Nat /\ d.ViewNumber \in Nat /\ view \in Nat
  BY DEF Good, Sane, Contexts, Views
<1>2. Same(d, d1)
  BY <1>1, NodeFacts, SameReflexive, broadcastChangeViewSame
<1>3. Good(r, d1, S) /\ Loose(r, d1, S) /\ ~d1.blockProcessed
  BY <1>2, SameKeepsGood DEF Same
<1>4. \/ checkChangeView(r, d, view) = d
      \/ ~(d.ViewNumber >= view)
         /\ checkChangeView(r, d, view) = initializeConsensus(r, d1, view, d.BlockIndex)
  BY DEF checkChangeView
<1> HIDE DEF d1
<1>5. CASE ~(d.ViewNumber >= view)
           /\ checkChangeView(r, d, view) = initializeConsensus(r, d1, view, d.BlockIndex)
  <2>1. view # 0
    BY <1>1, <1>5
  <2> QED
    BY <1>1, <1>3, <1>5, <2>1, initializeConsensusGood
<1> QED
  BY <1>4, <1>5

LEMMA sendChangeViewGood ==
  ASSUME NEW r \in Nodes, NEW S \in SUBSET Payloads, NEW d, Good(r, d, S),
         Loose(r, d, S), ~d.blockProcessed, NEW e, NEW reason
  PROVE  Good(r, sendChangeView(r, d, e, reason), S)
<1> DEFINE d1 == changeTimer(d, "changeView")
           d2 == broadcastChangeView(r, d1)
           view == (d.ViewNumber + 1) % ViewSize
<1>1. Same(d, d1) /\ Good(r, d1, S) /\ Loose(r, d1, S) /\ d1 \in Contexts /\ ~d1.blockProcessed
  <2>1. "changeView" \in CallNames
    BY Names
  <2>2. Same(d, d1) /\ Good(r, d1, S) /\ Loose(r, d1, S)
    BY <2>1, changeTimerGood
  <2> HIDE DEF d1
  <2> QED
    BY <2>2 DEF Same
<1>2. SUFFICES ASSUME ~WatchOnly(r)
               PROVE  Good(r, sendChangeView(r, d, e, reason), S)
  BY DEF sendChangeView
<1>3. r \in Validators
  BY <1>2, NodeFacts
<1>4. Good(r, sendRecoveryRequest(r, d1, e), S)
  BY <1>1, <1>3, sendRecoveryRequestSame, SameKeepsGood
<1>5. Same(d1, d2)
  BY <1>1, <1>3, broadcastChangeViewSame
<1>6. Good(r, d2, S) /\ Loose(r, d2, S) /\ ~d2.blockProcessed
  BY <1>1, <1>5, SameKeepsGood DEF Same
<1>7. view \in Views
  <2>1. d.ViewNumber \in Views
    BY DEF Good, Sane, Contexts
  <2>2. d.ViewNumber + 1 \in Nat
    BY <2>1 DEF Views
  <2> QED
    BY <2>2, ViewFacts
<1> HIDE DEF d1, view
<1>8. Good(r, checkChangeView(r, d2, view), S)
  BY <1>6, <1>7, checkChangeViewGood
<1> QED
  BY <1>2, <1>4, <1>8 DEF sendChangeView, d1, view

-----------------------------------------------------------------------------
(* Preparations.                                                            *)

\* Storing a preparation: a request goes to the slot of the primary, and the
\* slot of the primary is filled only when the proposal is there.
LEMMA PreparationGood ==
  ASSUME NEW r, NEW S, NEW d, Good(r, d, S), NEW i \in Validators,
         NEW m \in PrepareRequests \cup PrepareResponses,
         m.type = "PrepareRequest" => i = PrimaryIndex(d),
         i = PrimaryIndex(d) => d.proposal \in Proposals
  PROVE  LET d1 == [d EXCEPT !.PreparationPayloads[i] = m]
         IN  /\ Good(r, d1, S)
             /\ Loose(r, d, S) => Loose(r, d1, S)
             /\ RequestSentOrReceived(d) => RequestSentOrReceived(d1)
             /\ d1.blockProcessed = d.blockProcessed
<1> DEFINE x == [d.PreparationPayloads EXCEPT ![i] = m]
           d1 == [d EXCEPT !.PreparationPayloads = x]
<1>1. d \in Contexts /\ Sane(d)
      /\ d.PreparationPayloads \in Slots(PrepareRequests \cup PrepareResponses)
  BY DEF Good, Sane, Contexts
<1>2. m # Nil
  BY PayloadNotNil DEF Payloads, Restorable
<1>3. x \in Slots(PrepareRequests \cup PrepareResponses)
      /\ \A j \in Validators : x[j] = IF j = i THEN m ELSE d.PreparationPayloads[j]
  BY <1>1 DEF Slots
<1> HIDE DEF x
<1>4. d1 \in Contexts
  BY <1>1, <1>3, FieldTypes
<1>5. /\ d1.PreparationPayloads = x
      /\ d1.BlockIndex = d.BlockIndex
      /\ d1.ViewNumber = d.ViewNumber
      /\ d1.CommitPayloads = d.CommitPayloads
      /\ d1.proposal = d.proposal
      /\ d1.blockProcessed = d.blockProcessed
      /\ d1.preBlockProcessed = d.preBlockProcessed
      /\ d1.out = d.out
  BY <1>1 DEF Contexts
<1> HIDE DEF d1
<1>6. PrimaryIndex(d1) = PrimaryIndex(d)
      /\ isAntiMEVExtensionEnabled(d1) = isAntiMEVExtensionEnabled(d)
  BY <1>5 DEF PrimaryIndex, isAntiMEVExtensionEnabled
<1>7. PrimaryIndex(d) \in Validators
  BY <1>1, NodeFacts
<1>8. RequestSentOrReceived(d1) <=> RequestSentOrReceived(d) \/ i = PrimaryIndex(d)
  BY <1>2, <1>3, <1>5, <1>6, <1>7 DEF RequestSentOrReceived
<1>9. RequestSentOrReceived(d) => MakePreHeader(d1) = MakePreHeader(d)
  BY <1>5, <1>8 DEF MakePreHeader
<1>10. Sane(d1)
  <2>1. RequestSentOrReceived(d1) => d1.proposal \in Proposals
    BY <1>1, <1>5, <1>8 DEF Sane
  <2>2. \A j \in Validators :
            d1.PreparationPayloads[j] # Nil
            /\ d1.PreparationPayloads[j].type = "PrepareRequest" => j = PrimaryIndex(d1)
    BY <1>1, <1>3, <1>5, <1>6 DEF Sane
  <2> QED
    BY <1>1, <1>4, <1>5, <1>6, <1>8, <2>1, <2>2 DEF Sane
<1>11. Sent(r, d1, S) = Sent(r, d, S)
  BY <1>5 DEF Sent
<1>12. (Free(r, d, S) => Free(r, d1, S)) /\ (Bound(r, d, S) => Bound(r, d1, S))
  BY <1>5, <1>6, <1>8, <1>9, <1>11 DEF Free, Bound
<1>13. OwnOut(r, d1)
  BY <1>5 DEF Good, OwnOut
<1>14. Good(r, d1, S) /\ (Loose(r, d, S) => Loose(r, d1, S))
  BY <1>10, <1>11, <1>12, <1>13 DEF Good, Sworn, Loose
<1> QED
  BY <1>5, <1>8, <1>14 DEF d1, x

\* The proposal may change as long as no request is stored.
LEMMA ProposalGood ==
  ASSUME NEW r, NEW S \in SUBSET Payloads, NEW d, Good(r, d, S),
         ~RequestSentOrReceived(d), NEW p \in Proposals
  PROVE  LET d1 == [d EXCEPT !.proposal = p]
         IN  /\ Good(r, d1, S) /\ Loose(r, d1, S)
             /\ d1.proposal = p
             /\ d1.BlockIndex = d.BlockIndex
             /\ d1.ViewNumber = d.ViewNumber
             /\ d1.blockProcessed = d.blockProcessed
             /\ d1.PreparationPayloads = d.PreparationPayloads
             /\ PrimaryIndex(d1) = PrimaryIndex(d)
             /\ ~RequestSentOrReceived(d1)
<1> DEFINE d1 == [d EXCEPT !.proposal = p]
<1>1. d \in Contexts /\ Sane(d) /\ d1 \in Contexts /\ d.BlockIndex \in Nat
  <2>1. d \in Contexts /\ Sane(d)
    BY DEF Good, Sane
  <2>2. d1 \in Contexts
    BY <2>1, FieldTypes
  <2> QED
    BY <2>1, <2>2 DEF Contexts
<1>2. /\ d1.proposal = p
      /\ d1.BlockIndex = d.BlockIndex
      /\ d1.ViewNumber = d.ViewNumber
      /\ d1.CommitPayloads = d.CommitPayloads
      /\ d1.PreparationPayloads = d.PreparationPayloads
      /\ d1.blockProcessed = d.blockProcessed
      /\ d1.preBlockProcessed = d.preBlockProcessed
      /\ d1.out = d.out
  BY <1>1 DEF Contexts
<1> HIDE DEF d1
<1>3. /\ PrimaryIndex(d1) = PrimaryIndex(d)
      /\ RequestSentOrReceived(d1) = RequestSentOrReceived(d)
  BY <1>2 DEF PrimaryIndex, RequestSentOrReceived
<1>4. Sane(d1)
  BY <1>1, <1>2, <1>3 DEF Sane
<1>5. Good(r, d1, S) /\ Loose(r, d1, S)
  BY <1>1, <1>2, <1>4, NotBound, LooseGood
<1> QED
  BY <1>2, <1>3, <1>5 DEF d1

LEMMA sendPrepareRequestGood ==
  ASSUME NEW r \in Nodes, NEW S \in SUBSET Payloads, NEW d, Good(r, d, S),
         ~RequestSentOrReceived(d), r = PrimaryIndex(d), NEW force,
         NEW e, e.fill \in Proposals, e.refill \in Proposals
  PROVE  Good(r, sendPrepareRequest(r, d, force, e), S)
<1> DEFINE p == IF CanFill(e.fill, force) THEN e.fill ELSE e.refill
           msg == PrepareRequestMsg(d.BlockIndex, d.ViewNumber, r, p)
           known == d.Transactions \cup RangeOf(TxOf[p])
           d1 == [d EXCEPT !.proposal = p]
           d2 == [d1 EXCEPT !.Transactions = known]
           d3 == [d2 EXCEPT !.txSubscriptionOn = FALSE]
           d4 == [d3 EXCEPT !.PreparationPayloads[r] = msg]
           filled == [d EXCEPT
                        !.proposal = p,
                        !.Transactions = d.Transactions \cup RangeOf(TxOf[p]),
                        !.txSubscriptionOn = FALSE,
                        !.PreparationPayloads[r] = msg]
<1>1. d \in Contexts /\ d.BlockIndex \in Nat /\ d.ViewNumber \in Views /\ p \in Proposals
  BY DEF Good, Sane, Contexts
<1>2. r \in Validators
  BY <1>1, NodeFacts
<1>3. known \in SUBSET Tx
  <2>1. TxOf[p] \in Seq(Tx)
    BY <1>1, TxAssumption
  <2> QED
    BY <1>1, <2>1 DEF Contexts, RangeOf
<1>4. msg \in PrepareRequests
  BY <1>1, <1>2 DEF PrepareRequestMsg, PrepareRequests
<1>5. filled = d4
  BY <1>1 DEF Contexts
<1> DEFINE Timed(x) == changeTimer(Call(Broadcast(x, msg), "prepareSent"), "request")
<1>6. checkPrepare(r, Timed(filled), e) = checkPrepare(r, Timed(d4), e)
  BY <1>5
<1>7. \/ sendPrepareRequest(r, d, force, e) = waitForTransactions(d, "subscribe")
      \/ sendPrepareRequest(r, d, force, e) = checkPrepare(r, Timed(filled), e)
  BY DEF sendPrepareRequest
<1>8. Good(r, waitForTransactions(d, "subscribe"), S)
  BY <1>1, Names, waitForTransactionsSame, SameKeepsGood
<1> HIDE DEF p, msg, known, filled, d4, Timed
<1>9. Good(r, d1, S) /\ d1.proposal = p /\ PrimaryIndex(d1) = r
  BY <1>1, ProposalGood
<1> HIDE DEF d1
<1>10. Same(d1, d2)
  BY <1>3, <1>9, FieldSame DEF Good, Sane
<1> HIDE DEF d2
<1>11. Same(d2, d3)
  BY <1>10, FieldSame DEF Same
<1> HIDE DEF d3
<1>12. Same(d1, d3)
  BY <1>10, <1>11, SameTransitive
<1>13. Good(r, d3, S) /\ d3.proposal = p /\ PrimaryIndex(d3) = r
  BY <1>9, <1>12, SameKeepsGood, SameFacts DEF Same
<1>14. Good(r, d4, S)
  BY <1>1, <1>2, <1>4, <1>13, PreparationGood DEF d4
<1>15. msg \in Payloads /\ msg.type # "Commit"
  BY <1>4 DEF PrepareRequests, Payloads, Restorable
<1>16. Good(r, Broadcast(d4, msg), S)
  <2>1. d4 \in Contexts
    BY <1>14 DEF Good, Sane
  <2> QED
    BY <1>14, <1>15, <2>1, BroadcastSame, SameKeepsGood
<1>17. Good(r, checkPrepare(r, Timed(d4), e), S)
  <2> DEFINE sent == Broadcast(d4, msg)
             noted == Call(sent, "prepareSent")
  <2>1. Good(r, sent, S)
    BY <1>16
  <2> HIDE DEF sent
  <2>2. Good(r, noted, S)
    BY <2>1, Names, CallGood
  <2> HIDE DEF noted
  <2>3. Good(r, changeTimer(noted, "request"), S)
    BY <2>2, Names, changeTimerGood
  <2>4. Timed(d4) = changeTimer(noted, "request")
    BY DEF Timed, sent, noted
  <2> QED
    BY <1>2, <2>3, <2>4, checkPrepareGood
<1> QED
  BY <1>6, <1>7, <1>8, <1>17

\* A response is stored in the node's own slot, also when that is the
\* primary's: the request stays there in name only.
LEMMA sendPrepareResponseGood ==
  ASSUME NEW r \in Validators, NEW S \in SUBSET Payloads, NEW d, Good(r, d, S),
         RequestSentOrReceived(d)
  PROVE  Good(r, sendPrepareResponse(r, d), S)
<1> DEFINE request == d.PreparationPayloads[PrimaryIndex(d)]
           msg == PrepareResponseMsg(d.BlockIndex, d.ViewNumber, r, request.proposal)
           d1 == [d EXCEPT !.PreparationPayloads[r] = msg]
<1>1. /\ d \in Contexts /\ d.BlockIndex \in Nat /\ d.ViewNumber \in Views
      /\ d.PreparationPayloads \in Slots(PrepareRequests \cup PrepareResponses)
      /\ d.proposal \in Proposals
  BY DEF Good, Sane, Contexts
<1>2. request \in PrepareRequests \cup PrepareResponses
  BY <1>1, NodeFacts DEF RequestSentOrReceived, Slots
<1>3. request.proposal \in Proposals
  BY <1>2 DEF PrepareRequests, PrepareResponses
<1>4. msg \in PrepareResponses
  BY <1>1, <1>3 DEF PrepareResponseMsg, PrepareResponses
<1>5. msg.type = "PrepareResponse"
  BY DEF PrepareResponseMsg
<1>6. sendPrepareResponse(r, d) = Broadcast(d1, msg)
  BY DEF sendPrepareResponse
<1> HIDE DEF msg
<1>7. Good(r, d1, S)
  BY <1>1, <1>4, <1>5, PreparationGood
<1> HIDE DEF d1
<1>8. msg \in Payloads
  BY <1>4 DEF Payloads, Restorable
<1>9. Same(d1, Broadcast(d1, msg))
  BY <1>5, <1>7, <1>8, BroadcastSame DEF Good, Sane
<1> QED
  BY <1>6, <1>7, <1>9, SameKeepsGood

\* Before the request is stored the payloads that came earlier are checked
\* against it; the node cannot be bound by a commit of this view yet.
LEMMA updateExistingPayloadsGood ==
  ASSUME NEW r \in Nodes, NEW S \in SUBSET Payloads, NEW d, Good(r, d, S),
         ~RequestSentOrReceived(d), NEW msg
  PROVE  LET d1 == updateExistingPayloads(d, msg)
         IN  /\ Good(r, d1, S) /\ Loose(r, d1, S)
             /\ d1.proposal = d.proposal
             /\ d1.blockProcessed = d.blockProcessed
             /\ PrimaryIndex(d1) = PrimaryIndex(d)
<1> DEFINE x == [i \in Validators |->
                    IF /\ d.PreparationPayloads[i] # Nil
                       /\ d.PreparationPayloads[i].type = "PrepareResponse"
                       /\ d.PreparationPayloads[i].proposal # msg.proposal
                    THEN Nil
                    ELSE d.PreparationPayloads[i]]
           d1 == [d EXCEPT !.PreparationPayloads = x]
           d2 == updateExistingPayloads(d, msg)
<1>1. /\ d \in Contexts /\ Sane(d) /\ d.BlockIndex \in Nat
      /\ d.PreparationPayloads \in Slots(PrepareRequests \cup PrepareResponses)
  BY DEF Good, Sane, Contexts
<1>2. /\ x \in Slots(PrepareRequests \cup PrepareResponses)
      /\ \A i \in Validators : x[i] # Nil => x[i] = d.PreparationPayloads[i]
  BY <1>1 DEF Slots
<1>3. d2 = IF isAntiMEVExtensionEnabled(d)
           THEN verifyPreCommitPayloadsAgainstPreBlock(d1)
           ELSE verifyCommitPayloadsAgainstHeader(d1)
  BY DEF updateExistingPayloads
<1> HIDE DEF x, d2
<1>4. d1 \in Contexts
  BY <1>1, <1>2, FieldTypes
<1>5. /\ d1.PreparationPayloads = x
      /\ d1.BlockIndex = d.BlockIndex
      /\ d1.ViewNumber = d.ViewNumber
      /\ d1.CommitPayloads = d.CommitPayloads
      /\ d1.proposal = d.proposal
      /\ d1.blockProcessed = d.blockProcessed
      /\ d1.preBlockProcessed = d.preBlockProcessed
      /\ d1.out = d.out
  BY <1>1 DEF Contexts
<1> HIDE DEF d1
<1>6. PrimaryIndex(d1) = PrimaryIndex(d) /\ PrimaryIndex(d) \in Validators
      /\ isAntiMEVExtensionEnabled(d1) = isAntiMEVExtensionEnabled(d)
  BY <1>1, <1>5, NodeFacts DEF PrimaryIndex, isAntiMEVExtensionEnabled
<1>7. ~RequestSentOrReceived(d1)
  BY <1>2, <1>5, <1>6 DEF RequestSentOrReceived
<1>8. Sane(d1)
  BY <1>1, <1>2, <1>4, <1>5, <1>6, <1>7 DEF Sane
<1>9. Good(r, d1, S) /\ Loose(r, d1, S)
  BY <1>1, <1>5, <1>8, NotBound, LooseGood
<1>10. CASE isAntiMEVExtensionEnabled(d)
  <2>1. Same(d1, d2)
    BY <1>3, <1>4, <1>10, verifyPreCommitsSame
  <2> QED
    BY <1>5, <1>6, <1>9, <2>1, SameKeepsGood, SameFacts DEF Same, d2
<1>11. CASE ~isAntiMEVExtensionEnabled(d)
  <2>1. d2 = verifyCommitPayloadsAgainstHeader(d1)
    BY <1>3, <1>11
  <2>2. Good(r, d2, S) /\ Loose(r, d2, S) /\ d2.blockProcessed = d1.blockProcessed
    BY <1>9, <2>1, verifyCommitsGood
  <2>3. /\ d2.proposal = d1.proposal
        /\ d2.BlockIndex = d1.BlockIndex
        /\ d2.ViewNumber = d1.ViewNumber
    BY <1>4, <2>1 DEF verifyCommitPayloadsAgainstHeader, Contexts
  <2>4. PrimaryIndex(d2) = PrimaryIndex(d1)
    BY <2>3 DEF PrimaryIndex
  <2> QED
    BY <1>5, <1>6, <2>2, <2>3, <2>4 DEF d2
<1> QED
  BY <1>10, <1>11

\* The request is stored last, with its proposal.
LEMMA acceptPrepareRequestGood ==
  ASSUME NEW r \in Nodes, NEW S \in SUBSET Payloads, NEW d, Good(r, d, S),
         ~RequestSentOrReceived(d), NEW msg \in PrepareRequests,
         msg.from = PrimaryIndex(d), NEW e
  PROVE  LET d1 == acceptPrepareRequest(d, msg, e)
         IN  /\ Good(r, d1, S) /\ Loose(r, d1, S)
             /\ RequestSentOrReceived(d1)
             /\ d1.blockProcessed = d.blockProcessed
<1> DEFINE d1 == [d EXCEPT !.proposal = msg.proposal]
           d2 == processMissingTx(d1, e)
           d3 == updateExistingPayloads(d2, msg)
           d4 == [d3 EXCEPT !.PreparationPayloads[msg.from] = msg]
<1>1. msg.proposal \in Proposals /\ msg.from \in Validators
  BY DEF PrepareRequests
<1>2. /\ Good(r, d1, S)
      /\ d1.proposal \in Proposals
      /\ d1.blockProcessed = d.blockProcessed
      /\ PrimaryIndex(d1) = PrimaryIndex(d)
      /\ ~RequestSentOrReceived(d1)
  BY <1>1, ProposalGood
<1>3. acceptPrepareRequest(d, msg, e) = d4
  BY DEF acceptPrepareRequest
<1> HIDE DEF d1, d4
<1>4. Same(d1, d2)
  BY <1>2, processMissingTxSame DEF Good, Sane
<1> HIDE DEF d2
<1>5. /\ Good(r, d2, S)
      /\ d2.proposal \in Proposals
      /\ d2.blockProcessed = d.blockProcessed
      /\ PrimaryIndex(d2) = PrimaryIndex(d)
      /\ ~RequestSentOrReceived(d2)
  BY <1>2, <1>4, SameKeepsGood, SameFacts DEF Same
<1>6. /\ Good(r, d3, S) /\ Loose(r, d3, S)
      /\ d3.proposal \in Proposals
      /\ d3.blockProcessed = d.blockProcessed
      /\ PrimaryIndex(d3) = PrimaryIndex(d)
  BY <1>5, updateExistingPayloadsGood
<1> HIDE DEF d3
<1>7. /\ Good(r, d4, S) /\ Loose(r, d4, S)
      /\ d4.blockProcessed = d.blockProcessed
  BY <1>1, <1>6, PreparationGood DEF d4
<1>8. RequestSentOrReceived(d4)
  <2>1. d3.PreparationPayloads \in Slots(PrepareRequests \cup PrepareResponses)
        /\ d3 \in Contexts
    BY <1>6 DEF Good, Sane, Contexts
  <2>2. d4.PreparationPayloads[msg.from] = msg
    BY <1>1, <2>1 DEF d4, Contexts, Slots
  <2>3. PrimaryIndex(d4) = PrimaryIndex(d3)
    BY <2>1 DEF d4, Contexts, PrimaryIndex
  <2>4. msg # Nil
    BY PayloadNotNil DEF Payloads, Restorable
  <2> QED
    BY <1>6, <2>2, <2>3, <2>4 DEF RequestSentOrReceived
<1> QED
  BY <1>3, <1>7, <1>8

LEMMA respondGood ==
  ASSUME NEW r \in Nodes, NEW S \in SUBSET Payloads, NEW d, Good(r, d, S),
         Loose(r, d, S), ~d.blockProcessed, RequestSentOrReceived(d), NEW e
  PROVE  Good(r, respond(r, d, e), S)
<1>1. Good(r, rejectBlock(r, d, e), S)
  BY sendChangeViewGood DEF rejectBlock
<1>2. ASSUME ~WatchOnly(r)
      PROVE  Good(r, checkPrepare(r, sendPrepareResponse(r, d), e), S)
  <2>1. r \in Validators
    BY <1>2, NodeFacts
  <2> QED
    BY <2>1, sendPrepareResponseGood, checkPrepareGood
<1> QED
  BY <1>1, <1>2 DEF respond

LEMMA onPrepareRequestGood ==
  ASSUME NEW r \in Nodes, NEW S \in SUBSET Payloads, NEW d, Good(r, d, S),
         ~d.blockProcessed, NEW msg \in PrepareRequests, NEW e
  PROVE  Good(r, onPrepareRequest(r, d, msg, e), S)
<1>1. SUFFICES ASSUME ~ignoresRequest(d, msg)
               PROVE  Good(r, onPrepareRequest(r, d, msg, e), S)
  BY DEF onPrepareRequest
<1>2. ~RequestSentOrReceived(d) /\ msg.from = PrimaryIndex(d)
  BY <1>1 DEF ignoresRequest
<1>3. Good(r, sendChangeView(r, d, e, "CVBlockRejectedByPolicy"), S)
  BY <1>2, NotBound, sendChangeViewGood
<1>4. Good(r, respond(r, acceptPrepareRequest(extendTimer(r, d, "extend2"), msg, e), e), S)
  <2> DEFINE d1 == extendTimer(r, d, "extend2")
             d2 == acceptPrepareRequest(d1, msg, e)
  <2>1. Same(d, d1) /\ Good(r, d1, S)
    BY Names, extendTimerGood
  <2> HIDE DEF d1
  <2>2. /\ ~RequestSentOrReceived(d1) /\ msg.from = PrimaryIndex(d1)
        /\ ~d1.blockProcessed
    BY <1>2, <2>1, SameFacts DEF Same
  <2>3. Good(r, d2, S) /\ Loose(r, d2, S) /\ RequestSentOrReceived(d2) /\ ~d2.blockProcessed
    BY <2>1, <2>2, acceptPrepareRequestGood
  <2> HIDE DEF d2
  <2>4. Good(r, respond(r, d2, e), S)
    BY <2>3, respondGood
  <2> QED
    BY <2>4 DEF d1, d2
<1> QED
  BY <1>1, <1>3, <1>4 DEF onPrepareRequest

LEMMA onPrepareResponseGood ==
  ASSUME NEW r \in Nodes, NEW S \in SUBSET Payloads, NEW d, Good(r, d, S),
         NEW msg \in PrepareResponses, NEW e
  PROVE  Good(r, onPrepareResponse(r, d, msg, e), S)
<1> DEFINE d1 == [d EXCEPT !.PreparationPayloads[msg.from] = msg]
<1>1. SUFFICES ASSUME ~ignoresResponse(r, d, msg)
               PROVE  Good(r, onPrepareResponse(r, d, msg, e), S)
  BY DEF onPrepareResponse
<1>2. msg.from # PrimaryIndex(d) /\ msg.from \in Validators /\ msg.type # "PrepareRequest"
  BY <1>1 DEF ignoresResponse, PrepareResponses
<1>3. Good(r, d1, S)
  BY <1>2, PreparationGood
<1> HIDE DEF d1
<1>4. Good(r, panic(d1), S)
  <2>1. d1 \in Contexts
    BY <1>3 DEF Good, Sane
  <2> QED
    BY <1>3, <2>1, panicSame, SameKeepsGood
<1> DEFINE d2 == IF IsPrimary(r, d) /\ ~recovering(d) THEN Call(d1, "prepareResponse") ELSE d1
           d3 == extendTimer(r, d2, "extend2")
<1>5. Good(r, d2, S)
  BY <1>3, Names, CallGood
<1>6. onPrepareResponse(r, d, msg, e)
        \in {d, panic(d1), d3, IF WatchOnly(r) THEN d3 ELSE checkPrepare(r, d3, e)}
  BY <1>1 DEF onPrepareResponse, d1
<1> HIDE DEF d2
<1>7. Good(r, d3, S)
  BY <1>5, Names, extendTimerGood
<1> HIDE DEF d3
<1>8. ASSUME ~WatchOnly(r)
      PROVE  Good(r, checkPrepare(r, d3, e), S)
  BY <1>7, <1>8, NodeFacts, checkPrepareGood
<1> QED
  BY <1>4, <1>6, <1>7, <1>8

LEMMA addTransactionGood ==
  ASSUME NEW r \in Nodes, NEW S \in SUBSET Payloads, NEW d, Good(r, d, S),
         Loose(r, d, S), ~d.blockProcessed, RequestSentOrReceived(d), NEW tx \in Tx, NEW e
  PROVE  Good(r, addTransaction(r, d, tx, e), S)
<1> DEFINE known == d.Transactions \cup {tx}
           d1 == [d EXCEPT !.Transactions = known]
           d2 == verifyPreCommitPayloadsAgainstPreBlock(d1)
<1>1. d \in Contexts /\ known \in SUBSET Tx
  BY DEF Good, Sane, Contexts
<1> HIDE DEF known
<1>2. Same(d, d1)
  BY <1>1, FieldSame
<1>3. /\ Good(r, d1, S) /\ Loose(r, d1, S) /\ ~d1.blockProcessed
      /\ RequestSentOrReceived(d1) /\ d1 \in Contexts
  BY <1>2, SameKeepsGood, SameFacts DEF Same
<1> HIDE DEF d1
<1>4. Good(r, rejectBlock(r, d1, e), S)
  BY <1>3, sendChangeViewGood DEF rejectBlock
<1>5. Same(d1, d2)
  BY <1>3, verifyPreCommitsSame
<1> HIDE DEF d2
<1>6. Good(r, d2, S) /\ RequestSentOrReceived(d2)
  BY <1>3, <1>5, SameKeepsGood, SameFacts
<1> DEFINE d3 == extendTimer(r, d2, "extend2")
<1>7. Good(r, d3, S) /\ RequestSentOrReceived(d3)
  BY <1>6, Names, extendTimerGood, SameFacts
<1> HIDE DEF d3
<1>8. ASSUME ~WatchOnly(r)
      PROVE  Good(r, checkPrepare(r, sendPrepareResponse(r, d3), e), S)
  BY <1>7, <1>8, NodeFacts, sendPrepareResponseGood, checkPrepareGood
<1> QED
  BY <1>3, <1>4, <1>8 DEF addTransaction, d1, d2, d3, known

LEMMA onTransactionGood ==
  ASSUME NEW r \in Nodes, NEW S \in SUBSET Payloads, NEW d, Good(r, d, S),
         NEW tx \in Tx, NEW e
  PROVE  Good(r, onTransaction(r, d, tx, e), S)
<1> DEFINE item == [op |-> "deleteMissing", index |-> FirstIndex(d.MissingTransactions, tx)]
           d1 == Push(d, <<item>>)
<1>1. SUFFICES ASSUME /\ RequestSentOrReceived(d)
                      /\ ~CommitSent(r, d)
                      /\ ~BlockSent(d)
                      /\ tx \in RangeOf(d.MissingTransactions)
               PROVE  Good(r, addTransaction(r, d1, tx, e), S)
  BY DEF onTransaction
<1>2. d \in Contexts /\ d.MissingTransactions \in Seq(Tx)
  BY DEF Good, Sane, Contexts
<1>3. item \in WorkItems
  BY <1>1, <1>2, FirstIndexType DEF WorkItems
<1> HIDE DEF item
<1>4. <<item>> \in Seq(WorkItems)
  BY <1>3
<1>5. Same(d, d1)
  BY <1>2, <1>4, PushSame
<1>6. /\ Good(r, d1, S) /\ Loose(r, d1, S) /\ ~d1.blockProcessed
      /\ RequestSentOrReceived(d1)
  BY <1>1, <1>5, NotBound, SameKeepsGood, SameFacts DEF Same, BlockSent
<1> QED
  BY <1>6, addTransactionGood

-----------------------------------------------------------------------------
(* Commits, view changes, recovery and dispatch.                            *)

LEMMA onPreCommitGood ==
  ASSUME NEW r \in Nodes, NEW S \in SUBSET Payloads, NEW d, Good(r, d, S),
         isAntiMEVExtensionEnabled(d), NEW msg \in PreCommits, NEW e
  PROVE  Good(r, onPreCommit(r, d, msg, e), S)
<1> DEFINE x == [d.PreCommitPayloads EXCEPT ![msg.from] = msg]
           d1 == [d EXCEPT !.PreCommitPayloads = x]
<1>1. d \in Contexts /\ d.PreCommitPayloads \in Slots(PreCommits) /\ Sane(d)
  BY DEF Good, Sane, Contexts
<1>2. x \in Slots(PreCommits)
  BY <1>1 DEF Slots, PreCommits
<1>3. d1 = [d EXCEPT !.PreCommitPayloads[msg.from] = msg]
  OBVIOUS
<1> HIDE DEF x
<1>4. Same(d, d1)
  BY <1>1, <1>2, FieldSame
<1> HIDE DEF d1
<1>5. Good(r, d1, S)
  BY <1>4, SameKeepsGood
<1> DEFINE d2 == extendTimer(r, d1, "extend4")
           d3 == [d2 EXCEPT !.PreCommitPayloads = d.PreCommitPayloads]
<1>6. onPreCommit(r, d, msg, e)
        \in {d, d1, d2, d3, IF MakePreHeader(d) = Nil THEN d2 ELSE checkPreCommit(r, d2, e)}
  BY <1>3 DEF onPreCommit
<1>7. Same(d1, d2) /\ Good(r, d2, S)
  BY <1>5, Names, extendTimerGood
<1>8. Same(d, d2)
  BY <1>4, <1>7, SameTransitive
<1> HIDE DEF d2
<1>9. Good(r, d3, S)
  <2>1. Same(d2, d3)
    BY <1>1, <1>8, FieldSame DEF Same
  <2> QED
    BY <1>7, <2>1, SameKeepsGood
<1>10. ASSUME MakePreHeader(d) # Nil
       PROVE  Good(r, checkPreCommit(r, d2, e), S)
  BY <1>1, <1>7, <1>8, <1>10, HeaderFacts, SameFacts, checkPreCommitGood
<1> HIDE DEF d3
<1> QED
  BY <1>5, <1>6, <1>7, <1>9, <1>10

\* A commit of another validator goes to its own slot: that of a bound node
\* is taken.
LEMMA onCommitGood ==
  ASSUME NEW r \in Nodes, NEW S \in SUBSET Payloads, NEW d, Good(r, d, S),
         NEW msg \in Commits, msg.height = d.BlockIndex, NEW e
  PROVE  Good(r, onCommit(r, d, msg, e), S)
<1> DEFINE x == [d.CommitPayloads EXCEPT ![msg.from] = msg]
           d1 == [d EXCEPT !.CommitPayloads = x]
<1>1. d \in Contexts /\ d.CommitPayloads \in Slots(Commits) /\ Sane(d)
      /\ msg.from \in Validators
  BY DEF Good, Sane, Contexts, Commits
<1>2. x \in Slots(Commits)
      /\ \A i \in Validators : x[i] = IF i = msg.from THEN msg ELSE d.CommitPayloads[i]
  BY <1>1 DEF Slots
<1>3. d1 = [d EXCEPT !.CommitPayloads[msg.from] = msg]
  OBVIOUS
<1>4. SUFFICES ASSUME d.CommitPayloads[msg.from] = Nil
               PROVE  Good(r, onCommit(r, d, msg, e), S)
  BY DEF onCommit
<1> HIDE DEF x
<1>5. \A i \in Validators : x[i] # Nil => x[i].from = i /\ x[i].height = d.BlockIndex
  BY <1>1, <1>2 DEF Sane
<1>6. Loose(r, d, S) \/ x[r] = d.CommitPayloads[r]
  <2>1. SUFFICES ASSUME ~Loose(r, d, S)
                 PROVE  x[r] = d.CommitPayloads[r]
    OBVIOUS
  <2>2. Bound(r, d, S) /\ ~WatchOnly(r)
    BY <2>1 DEF Good, Loose, Sworn
  <2>3. r \in Validators /\ d.CommitPayloads[r] # Nil
    BY <2>2, NodeFacts DEF Bound
  <2> QED
    BY <1>2, <1>4, <2>3
<1>7. Good(r, d1, S)
  BY <1>2, <1>5, <1>6, CommitsGood
<1>8. HeaderReady(d1) = HeaderReady(d)
  BY <1>1, <1>2, CommitsField, Zenon
<1> DEFINE d2 == extendTimer(r, d1, "extend4")
           d3 == [d2 EXCEPT !.CommitPayloads = d.CommitPayloads]
<1>9. onCommit(r, d, msg, e)
        \in {d, d1, d2, d3, IF MakeHeader(d) = Nil THEN d2 ELSE checkCommit(d2, e)}
  BY <1>3 DEF onCommit
<1>10. Same(d1, d2) /\ Good(r, d2, S) /\ HeaderReady(d2) = HeaderReady(d)
  BY <1>7, <1>8, Names, extendTimerGood
<1>11. Good(r, d3, S)
  <2>1. Same(d, d3)
    <3>1. /\ d2 \in Contexts
          /\ d2.BlockIndex = d.BlockIndex
          /\ d2.ViewNumber = d.ViewNumber
          /\ d2.PreparationPayloads = d.PreparationPayloads
          /\ d2.proposal = d.proposal
          /\ d2.blockProcessed = d.blockProcessed
          /\ d2.preBlockProcessed = d.preBlockProcessed
          /\ \A m \in Commits : m \in d2.out <=> m \in d.out
      BY <1>1, <1>10 DEF Same, d1, Contexts
    <3> HIDE DEF d2
    <3>2. d3 \in Contexts
      BY <1>1, <3>1, FieldTypes
    <3> QED
      BY <3>1, <3>2 DEF Same, Contexts
  <2> QED
    BY <2>1, SameKeepsGood
<1> HIDE DEF d1, d2, d3
<1>12. ASSUME MakeHeader(d) # Nil
       PROVE  Good(r, checkCommit(d2, e), S)
  BY <1>1, <1>10, <1>12, HeaderFacts, checkCommitGood
<1> QED
  BY <1>7, <1>9, <1>10, <1>11, <1>12

LEMMA onChangeViewGood ==
  ASSUME NEW r \in Nodes, NEW S \in SUBSET Payloads, NEW d, Good(r, d, S),
         ~d.blockProcessed, NEW msg \in ChangeViews
  PROVE  Good(r, onChangeView(r, d, msg), S)
<1> DEFINE x == [d.ChangeViewPayloads EXCEPT ![msg.from] = msg]
           d1 == [d EXCEPT !.ChangeViewPayloads = x]
<1>1. d \in Contexts /\ d.ChangeViewPayloads \in Slots(ChangeViews)
      /\ msg.newView \in Views
  BY DEF Good, Sane, Contexts, ChangeViews
<1>2. x \in Slots(ChangeViews)
  BY <1>1 DEF Slots, ChangeViews
<1>3. d1 = [d EXCEPT !.ChangeViewPayloads[msg.from] = msg]
  OBVIOUS
<1> HIDE DEF x
<1>4. Same(d, d1)
  BY <1>1, <1>2, FieldSame
<1> HIDE DEF d1
<1>5. Good(r, onRecoveryRequest(r, d, msg), S)
  BY <1>1, onRecoveryRequestSame, SameKeepsGood
<1>6. ASSUME CommitSent(r, d) \/ PreCommitSent(r, d)
      PROVE  Good(r, sendRecoveryMessage(r, d), S)
  <2>1. r \in Validators
    BY <1>6, NodeFacts DEF CommitSent, PreCommitSent
  <2> QED
    BY <1>1, <2>1, sendRecoveryMessageSame, SameKeepsGood
<1>7. ASSUME ~CommitSent(r, d)
      PROVE  Good(r, checkChangeView(r, d1, msg.newView), S)
  <2>1. Good(r, d1, S) /\ Loose(r, d1, S) /\ ~d1.blockProcessed
    BY <1>4, <1>7, NotBound, SameKeepsGood DEF Same
  <2> QED
    BY <1>1, <2>1, checkChangeViewGood
<1> QED
  BY <1>3, <1>5, <1>6, <1>7 DEF onChangeView

\* What is rebuilt from a recovery message is made of payloads.
LEMMA RecoveredType ==
  ASSUME NEW msg \in RecoveryMessages, NEW i \in Validators
  PROVE  /\ GetPrepareRequest(msg, i) \subseteq Restorable
         /\ GetPrepareResponses(msg) \subseteq Restorable
         /\ GetChangeViews(msg) \subseteq Restorable
         /\ GetPreCommits(msg) \subseteq Restorable
         /\ GetCommits(msg) \subseteq Restorable
<1>1. /\ msg.height \in Nat /\ msg.view \in Views
      /\ msg.prepareRequest \in Proposals \cup {Nil}
      /\ msg.preparationPayloads \subseteq Validators
      /\ msg.changeViewPayloads \subseteq [from : Validators, view : Views]
      /\ msg.preCommitPayloads \subseteq [from : Validators, sign : Headers]
      /\ msg.commitPayloads \subseteq [from : Validators, sign : Headers]
  BY DEF RecoveryMessages
<1>2. GetPrepareRequest(msg, i) \subseteq PrepareRequests
  BY <1>1 DEF GetPrepareRequest, PrepareRequestMsg, PrepareRequests
<1>3. GetPrepareResponses(msg) \subseteq PrepareResponses
  BY <1>1 DEF GetPrepareResponses, PrepareResponseMsg, PrepareResponses
<1>4. GetChangeViews(msg) \subseteq ChangeViews
  <2>1. \A c \in msg.changeViewPayloads : c.view + 1 \in Nat
    BY <1>1 DEF Views
  <2>2. \A c \in msg.changeViewPayloads : (c.view + 1) % ViewSize \in Views
    BY <2>1, ViewFacts
  <2> QED
    BY <1>1, <2>2 DEF GetChangeViews, ChangeViewMsg, ChangeViews
<1>5. GetPreCommits(msg) \subseteq PreCommits
  BY <1>1 DEF GetPreCommits, PreCommitMsg, PreCommits
<1>6. GetCommits(msg) \subseteq Commits
  BY <1>1 DEF GetCommits, CommitMsg, Commits
<1> QED
  BY <1>2, <1>3, <1>4, <1>5, <1>6 DEF Restorable

LEMMA ReplayType ==
  ASSUME NEW A \in SUBSET Restorable
  PROVE  Replay(A) \in WorkItems
  BY DEF Replay, WorkItems

LEMMA onRecoveryMessageSame ==
  ASSUME NEW r, NEW d \in Contexts, NEW msg \in RecoveryMessages
  PROVE  Same(d, onRecoveryMessage(r, d, msg))
<1> DEFINE stages == <<[op |-> "preparations", msg |-> msg], [op |-> "commits", msg |-> msg]>>
           votes == Replay(GetChangeViews(msg))
<1>1. [op |-> "preparations", msg |-> msg] \in WorkItems
      /\ [op |-> "commits", msg |-> msg] \in WorkItems
  BY DEF WorkItems
<1>2. stages \in Seq(WorkItems)
  BY <1>1
<1>3. 0 \in Validators
  BY NAssumption DEF Validators
<1>4. votes \in WorkItems
  BY <1>3, RecoveredType, ReplayType
<1>5. onRecoveryMessage(r, d, msg) \in {d, Push(d, stages), Push(d, <<votes>> \o stages)}
  BY DEF onRecoveryMessage
<1> HIDE DEF stages, votes
<1>6. <<votes>> \o stages \in Seq(WorkItems)
  BY <1>2, <1>4
<1> QED
  BY <1>2, <1>5, <1>6, SameReflexive, PushSame

LEMMA recoverPreparationsSame ==
  ASSUME NEW r, NEW d \in Contexts, NEW msg \in RecoveryMessages
  PROVE  Same(d, recoverPreparations(r, d, msg))
<1> DEFINE request == IF RequestSentOrReceived(d)
                      THEN {}
                      ELSE GetPrepareRequest(msg, PrimaryIndex(d))
           items == <<Replay(request), Replay(GetPrepareResponses(msg))>>
<1>1. PrimaryIndex(d) \in Validators
  BY NodeFacts
<1>2. request \in SUBSET Restorable /\ GetPrepareResponses(msg) \in SUBSET Restorable
  BY <1>1, RecoveredType
<1>3. recoverPreparations(r, d, msg) \in {d, Push(d, items)}
  BY DEF recoverPreparations
<1> HIDE DEF request
<1>4. Replay(request) \in WorkItems /\ Replay(GetPrepareResponses(msg)) \in WorkItems
  BY <1>2, ReplayType
<1>5. items \in Seq(WorkItems)
  BY <1>4
<1> QED
  BY <1>3, <1>5, SameReflexive, PushSame

LEMMA recoverCommitsSame ==
  ASSUME NEW d \in Contexts, NEW msg \in RecoveryMessages
  PROVE  Same(d, recoverCommits(d, msg))
<1> DEFINE items == <<Replay(GetPreCommits(msg)), Replay(GetCommits(msg))>>
<1>1. 0 \in Validators
  BY NAssumption DEF Validators
<1>2. GetPreCommits(msg) \in SUBSET Restorable /\ GetCommits(msg) \in SUBSET Restorable
  BY <1>1, RecoveredType
<1>3. Replay(GetPreCommits(msg)) \in WorkItems /\ Replay(GetCommits(msg)) \in WorkItems
  BY <1>2, ReplayType
<1>4. items \in Seq(WorkItems)
  BY <1>3
<1> QED
  BY <1>4, SameReflexive, PushSame DEF recoverCommits

LEMMA dispatchGood ==
  ASSUME NEW r \in Nodes, NEW S \in SUBSET Payloads, NEW d, Good(r, d, S),
         NEW msg \in Payloads, msg.height = d.BlockIndex,
         d.blockProcessed => msg.type = "RecoveryRequest", NEW e
  PROVE  Good(r, dispatch(r, d, msg, e), S)
<1>1. d \in Contexts
  BY DEF Good, Sane
<1>2. CASE msg.type = "ChangeView"
  <2>1. dispatch(r, d, msg, e) = onChangeView(r, d, msg)
    BY <1>2 DEF dispatch
  <2> QED
    BY <1>2, <2>1, PayloadTypes, onChangeViewGood
<1>3. CASE msg.type = "PrepareRequest"
  <2>1. dispatch(r, d, msg, e) = onPrepareRequest(r, d, msg, e)
    BY <1>3 DEF dispatch
  <2> QED
    BY <1>3, <2>1, PayloadTypes, onPrepareRequestGood
<1>4. CASE msg.type = "PrepareResponse"
  <2>1. dispatch(r, d, msg, e) = onPrepareResponse(r, d, msg, e)
    BY <1>4 DEF dispatch
  <2> QED
    BY <1>4, <2>1, PayloadTypes, onPrepareResponseGood
<1>5. CASE msg.type = "Commit"
  <2>1. dispatch(r, d, msg, e) = onCommit(r, d, msg, e)
    BY <1>5 DEF dispatch
  <2> QED
    BY <1>5, <2>1, PayloadTypes, onCommitGood
<1>6. CASE msg.type = "PreCommit"
  <2>1. dispatch(r, d, msg, e)
            = IF isAntiMEVExtensionEnabled(d) THEN onPreCommit(r, d, msg, e) ELSE d
    BY <1>6 DEF dispatch
  <2> QED
    BY <1>6, <2>1, PayloadTypes, onPreCommitGood
<1>7. CASE msg.type = "RecoveryRequest"
  <2>1. dispatch(r, d, msg, e) = onRecoveryRequest(r, d, msg)
    BY <1>7 DEF dispatch
  <2> QED
    BY <1>1, <2>1, onRecoveryRequestSame, SameKeepsGood
<1>8. CASE msg.type \notin {"PrepareRequest", "PrepareResponse", "PreCommit", "Commit",
                            "ChangeView", "RecoveryRequest"}
  <2>1. dispatch(r, d, msg, e) = onRecoveryMessage(r, d, msg)
    BY <1>8 DEF dispatch
  <2>2. msg \in RecoveryMessages
    BY <1>8, PayloadTypes
  <2> QED
    BY <1>1, <2>1, <2>2, onRecoveryMessageSame, SameKeepsGood
<1> QED
  BY <1>2, <1>3, <1>4, <1>5, <1>6, <1>7, <1>8

\* Whatever a node receives, it stays bound by its commit.
LEMMA OnReceiveGood ==
  ASSUME NEW r \in Nodes, NEW S \in SUBSET Payloads, NEW d, Good(r, d, S),
         NEW msg \in Payloads, NEW e
  PROVE  Good(r, OnReceive(r, d, msg, e), S)
<1> DEFINE x == [d.LastSeenMessage EXCEPT ![msg.from] =
                    IF d.LastSeenMessage[msg.from] < msg.view
                    THEN msg.view
                    ELSE d.LastSeenMessage[msg.from]]
           seen == [d EXCEPT !.LastSeenMessage = x]
<1>1. d \in Contexts /\ d.LastSeenMessage \in [Validators -> Views \cup {-1}]
      /\ d.BlockIndex \in Nat
  BY DEF Good, Sane, Contexts
<1>2. msg.view \in Views /\ msg.from \in Validators /\ msg.height \in Nat
  BY PayloadTypes
<1>3. x \in [Validators -> Views \cup {-1}]
  BY <1>1, <1>2
<1>4. seen = [d EXCEPT !.LastSeenMessage[msg.from] =
                IF d.LastSeenMessage[msg.from] < msg.view
                THEN msg.view
                ELSE d.LastSeenMessage[msg.from]]
  OBVIOUS
<1> HIDE DEF x
<1>5. Same(d, seen)
  BY <1>1, <1>3, FieldSame
<1> HIDE DEF seen
<1>6. Good(r, seen, S)
  BY <1>5, SameKeepsGood
<1>7. Good(r, addMessage(d, msg), S)
  BY <1>1, addMessageSame, SameKeepsGood
<1>8. ASSUME msg.height = d.BlockIndex, BlockSent(d) => msg.type = "RecoveryRequest"
      PROVE  Good(r, dispatch(r, seen, msg, e), S)
  <2>1. msg.height = seen.BlockIndex /\ (seen.blockProcessed => msg.type = "RecoveryRequest")
    BY <1>5, <1>8 DEF Same, BlockSent
  <2> QED
    BY <1>6, <2>1, dispatchGood
<1>9. ~(msg.height < d.BlockIndex) /\ ~(msg.height > d.BlockIndex) => msg.height = d.BlockIndex
  BY <1>1, <1>2
<1> QED
  BY <1>4, <1>6, <1>7, <1>8, <1>9 DEF OnReceive, isForeignOrOld

LEMMA onTimeoutGood ==
  ASSUME NEW r \in Nodes, NEW S \in SUBSET Payloads, NEW d, Good(r, d, S),
         NEW height, NEW view, NEW force,
         NEW e, e.fill \in Proposals, e.refill \in Proposals
  PROVE  Good(r, onTimeout(r, d, height, view, force, e), S)
<1>1. SUFFICES ASSUME ~WatchOnly(r), ~BlockSent(d)
               PROVE  Good(r, onTimeout(r, d, height, view, force, e), S)
  BY DEF onTimeout
<1>2. d \in Contexts /\ r \in Validators /\ ~d.blockProcessed
  BY <1>1, NodeFacts DEF Good, Sane, BlockSent
<1>3. ASSUME IsPrimary(r, d), ~RequestSentOrReceived(d)
      PROVE  Good(r, sendPrepareRequest(r, d, d.ViewNumber # 0 \/ d.txSubscriptionOn \/ force, e), S)
  BY <1>3, sendPrepareRequestGood DEF IsPrimary
<1>4. Good(r, changeTimer(sendRecoveryMessage(r, d), "resend"), S)
  BY <1>2, Names, sendRecoveryMessageSame, SameKeepsGood, changeTimerGood
<1>5. Good(r, [changeTimer(d, "forced") EXCEPT !.txSubscriptionOn = FALSE], S)
  <2> DEFINE d1 == changeTimer(d, "forced")
  <2>1. Good(r, d1, S)
    BY Names, changeTimerGood
  <2> HIDE DEF d1
  <2>2. d1 \in Contexts
    BY <2>1 DEF Good, Sane
  <2>3. Same(d1, [d1 EXCEPT !.txSubscriptionOn = FALSE])
    BY <2>2, FieldSame
  <2>4. Good(r, [d1 EXCEPT !.txSubscriptionOn = FALSE], S)
    BY <2>1, <2>3, SameKeepsGood
  <2> QED
    BY <2>4 DEF d1
<1>6. Good(r, waitForTransactions(d, "subscribeBackup"), S)
  BY <1>2, Names, waitForTransactionsSame, SameKeepsGood
<1>7. ASSUME ~CommitSent(r, d)
      PROVE  Good(r, sendChangeView(r, d, e, "CVTimeout"), S)
  BY <1>2, <1>7, NotBound, sendChangeViewGood
<1> QED
  BY <1>3, <1>4, <1>5, <1>6, <1>7 DEF onTimeout

-----------------------------------------------------------------------------
(* The specification.                                                        *)


\* The inductive invariant.
IInv == TypeOK /\ CommitsBind

\* What a node owes to: the payloads on the network if it is correct, nothing
\* if it may forget them.
Owed(r) == IF r \in Correct THEN msgs ELSE {}

LEMMA RunningFacts ==
  /\ Running \subseteq Nodes
  /\ Correct \subseteq Running
  /\ Injected \subseteq Payloads
  /\ Drafts \subseteq Proposals
  BY FaultAssumption, DraftsAssumption DEF Running, Correct, Nodes

\* Between two steps every node is in order.
LEMMA StateGood ==
  ASSUME IInv, NEW r \in Running
  PROVE  /\ Good(r, ctx[r], Owed(r))
         /\ Owed(r) \in SUBSET Payloads
         /\ ctx[r] \in Contexts
         /\ r \in Nodes
<1>1. Sane(ctx[r]) /\ ctx[r] \in Contexts /\ ctx[r].out = {} /\ msgs \in SUBSET Payloads
  BY DEF IInv, CommitsBind, TypeOK
<1>2. OwnOut(r, ctx[r])
  BY <1>1 DEF OwnOut
<1>3. CASE r \in Correct
  BY <1>1, <1>2, <1>3, RunningFacts DEF IInv, CommitsBind, Good, Owed
<1>4. CASE r \notin Correct
  <2>1. Sent(r, ctx[r], {}) = {}
    BY <1>1 DEF Sent
  <2>2. Sworn(r, ctx[r], {})
    BY <2>1 DEF Sworn, Free
  <2> QED
    BY <1>1, <1>2, <1>4, <2>2, RunningFacts DEF Good, Owed
<1> QED
  BY <1>3, <1>4

\* A step that leaves the stepping node in order keeps the invariant.
LEMMA BecomesInv ==
  ASSUME IInv, NEW r \in Running, NEW d, Good(r, d, Owed(r)), Becomes(r, d)
  PROVE  IInv'
<1> DEFINE d0 == [d EXCEPT !.out = {}]
           d1 == [d0 EXCEPT !.calls = <<>>]
<1>1. /\ Sane(d) /\ d \in Contexts /\ d.out \in SUBSET Payloads /\ d.BlockIndex \in Nat
      /\ OwnOut(r, d)
  BY DEF Good, Sane, Contexts
<1>2. /\ ctx \in [Running -> Contexts]
      /\ \A s \in Running : ctx[s].out = {} /\ ctx[s].calls = <<>>
      /\ msgs \in SUBSET Payloads
      /\ ledger \in [Running -> Seq(Headers)]
  BY DEF IInv, TypeOK
<1>3. d0 \in Contexts /\ d1 \in Contexts
  <2>1. d0 \in Contexts
    BY <1>1, FieldTypes
  <2> HIDE DEF d0
  <2>2. <<>> \in Seq(TimerCalls)
    OBVIOUS
  <2>3. [d0 EXCEPT !.calls = <<>>] \in Contexts
    BY <2>1, <2>2, FieldTypes
  <2> QED
    BY <2>1, <2>3
<1>4. /\ d1.BlockIndex = d.BlockIndex
      /\ d1.ViewNumber = d.ViewNumber
      /\ d1.PreparationPayloads = d.PreparationPayloads
      /\ d1.CommitPayloads = d.CommitPayloads
      /\ d1.proposal = d.proposal
      /\ d1.blockProcessed = d.blockProcessed
      /\ d1.preBlockProcessed = d.preBlockProcessed
      /\ d1.out = {} /\ d1.calls = <<>>
  BY <1>1, <1>3 DEF Contexts
<1>5. ctx' = [ctx EXCEPT ![r] = d1]
  BY DEF Becomes
<1> HIDE DEF d1
<1>6. ctx'[r] = d1 /\ (\A s \in Running \ {r} : ctx'[s] = ctx[s])
      /\ ctx' \in [Running -> Contexts]
  BY <1>2, <1>3, <1>5
<1>7. /\ PrimaryIndex(d1) = PrimaryIndex(d)
      /\ RequestSentOrReceived(d1) = RequestSentOrReceived(d)
      /\ isAntiMEVExtensionEnabled(d1) = isAntiMEVExtensionEnabled(d)
      /\ MakePreHeader(d1) = MakePreHeader(d)
  BY <1>4 DEF PrimaryIndex, RequestSentOrReceived, isAntiMEVExtensionEnabled, MakePreHeader
<1>8. PICK lost \in SUBSET RecoveriesOf(d.out) : msgs' = msgs \cup (d.out \ lost)
  BY DEF Becomes, Send
<1>9. \A m \in lost : m.type # "Commit"
  BY <1>8 DEF RecoveriesOf
<1>10. msgs' \in SUBSET Payloads
  BY <1>1, <1>2, <1>8
<1>11. ledger' \in [Running -> Seq(Headers)]
  <2>1. d.blockProcessed => MakeHeader(d) \in Headers
    BY <1>1, HeaderFacts DEF Sane, HeaderReady
  <2>2. \/ ledger' = ledger
        \/ /\ d.blockProcessed
           /\ ledger' = [ledger EXCEPT ![r] = Append(ledger[r], MakeHeader(d))]
    <3>1. ledger' = [ledger EXCEPT ![r] =
                        IF /\ d.blockProcessed /\ ~ctx[r].blockProcessed
                           /\ Len(ledger[r]) = d.BlockIndex - 1
                        THEN Append(ledger[r], MakeHeader(d))
                        ELSE ledger[r]]
      BY DEF Becomes
    <3>2. [ledger EXCEPT ![r] = ledger[r]] = ledger
      BY <1>2
    <3> QED
      BY <3>1, <3>2
  <2>3. d.blockProcessed => Append(ledger[r], MakeHeader(d)) \in Seq(Headers)
    BY <1>2, <2>1
  <2> HIDE DEF d1
  <2> QED
    BY <1>2, <2>2, <2>3
<1>12. TypeOK'
  BY <1>2, <1>4, <1>6, <1>10, <1>11 DEF TypeOK
<1>13. \A s \in Running : Sane(ctx'[s])
  <2>1. Sane(d1)
    BY <1>1, <1>3, <1>4, <1>7 DEF Sane
  <2> QED
    BY <1>6, <2>1 DEF IInv, CommitsBind
<1>14. ASSUME NEW s \in Correct
       PROVE  Sworn(s, ctx'[s], msgs')
  <2>1. s \in Running
    BY RunningFacts
  <2>2. CASE s = r
    <3>1. Owed(r) = msgs /\ ~WatchOnly(r)
      <4>1. r \in Correct
        BY <2>2
      <4>2. r \notin Observers
        BY <4>1, ObserversAssumption DEF Correct, Validators
      <4> QED
        BY <4>1, <4>2 DEF Owed, WatchOnly, Correct
    <3>2. Sworn(r, d, msgs)
      BY <3>1 DEF Good
    <3>3. Sent(r, d1, msgs') = Sent(r, d, msgs)
      BY <1>4, <1>8, <1>9 DEF Sent
    <3>4. Sworn(r, d1, msgs')
      BY <1>4, <1>7, <3>2, <3>3 DEF Sworn, Free, Bound
    <3> QED
      BY <1>6, <2>2, <3>4
  <2>3. CASE s # r
    <3>1. Sent(s, ctx[s], msgs') = Sent(s, ctx[s], msgs)
      BY <1>1, <1>8, <2>3 DEF Sent, OwnOut
    <3>2. Sworn(s, ctx[s], msgs)
      BY DEF IInv, CommitsBind
    <3>3. Sworn(s, ctx[s], msgs')
      BY <3>1, <3>2 DEF Sworn, Free, Bound
    <3> QED
      BY <1>6, <2>1, <2>3, <3>3
  <2> QED
    BY <2>2, <2>3
<1> QED
  BY <1>12, <1>13, <1>14 DEF IInv, CommitsBind, Correct, Running

-----------------------------------------------------------------------------
(* The initial states.                                                      *)

LEMMA NewContextSane == Sane(NewContext)
<1>1. 0 \in Views /\ 0 \in Nat
  BY ViewFacts
<1>2. /\ NoPayloads \in Slots(PreCommits)
      /\ NoPayloads \in Slots(Commits)
      /\ NoPayloads \in Slots(ChangeViews)
      /\ NoPayloads \in Slots(PrepareRequests \cup PrepareResponses)
  BY DEF NoPayloads, Slots
<1>3. [i \in Validators |-> -1] \in [Validators -> Views \cup {-1}]
  OBVIOUS
<1>4. [height |-> 0, view |-> 0, armed |-> FALSE] \in [height : Nat, view : Views, armed : BOOLEAN]
  BY <1>1
<1>5. <<>> \in Seq(Tx) /\ <<>> \in Seq(WorkItems) /\ <<>> \in Seq(TimerCalls)
  OBVIOUS
<1>6. NewContext \in Contexts
  BY <1>1, <1>2, <1>3, <1>4, <1>5 DEF NewContext, Contexts
<1>7. \A i \in Validators :
        NewContext.PreparationPayloads[i] = Nil /\ NewContext.CommitPayloads[i] = Nil
  BY DEF NewContext, NoPayloads
<1>8. ~RequestSentOrReceived(NewContext)
  BY <1>6, <1>7, NodeFacts DEF RequestSentOrReceived
<1>9. ~NewContext.blockProcessed
  BY DEF NewContext
<1> QED
  BY <1>6, <1>7, <1>8, <1>9 DEF Sane

LEMMA InitInv == Init => IInv
<1>1. SUFFICES ASSUME Init PROVE IInv
  OBVIOUS
<1>2. NewContext \in Contexts /\ NewContext.out = {} /\ NewContext.calls = <<>>
  BY NewContextSane DEF Sane, NewContext
<1>3. \A r \in Running : ctx[r] = NewContext
  BY <1>1 DEF Init
<1>4. TypeOK
  BY <1>1, <1>2, <1>3 DEF Init, TypeOK
<1>5. \A r \in Running : Sane(ctx[r])
  BY <1>3, NewContextSane
<1>6. ASSUME NEW r \in Correct PROVE Sworn(r, ctx[r], msgs)
  <2>1. Sent(r, ctx[r], msgs) = {}
    BY <1>1, <1>2, <1>3, RunningFacts DEF Init, Sent
  <2> QED
    BY <2>1 DEF Sworn, Free
<1> QED
  BY <1>4, <1>5, <1>6 DEF IInv, CommitsBind

-----------------------------------------------------------------------------
(* The steps.                                                               *)

LEMMA StartInv ==
  ASSUME IInv, NEW r \in Running, Start(r)
  PROVE  IInv'
<1>1. Good(r, ctx[r], Owed(r)) /\ Owed(r) \in SUBSET Payloads /\ r \in Nodes
      /\ ctx[r].BlockIndex = 0
  BY StateGood DEF Start
<1>2. PICK e \in FillCallbacks :
        LET d == initializeConsensus(r, ctx[r], 0, Len(ledger[r]) + 1)
        IN  Becomes(r, IF IsPrimary(r, d) THEN sendPrepareRequest(r, d, TRUE, e) ELSE d)
  BY DEF Start
<1> DEFINE d == initializeConsensus(r, ctx[r], 0, Len(ledger[r]) + 1)
<1>3. Len(ledger[r]) \in Nat
  BY DEF IInv, TypeOK
<1>4. Len(ledger[r]) + 1 \in Nat /\ Len(ledger[r]) + 1 > ctx[r].BlockIndex
  BY <1>1, <1>3
<1>5. Good(r, d, Owed(r)) /\ ~RequestSentOrReceived(d)
  BY <1>1, <1>4, ViewFacts, initializeConsensusGood
<1>6. e.fill \in Proposals /\ e.refill \in Proposals
  BY <1>2, RunningFacts DEF FillCallbacks
<1>7. Becomes(r, IF IsPrimary(r, d) THEN sendPrepareRequest(r, d, TRUE, e) ELSE d)
  BY <1>2
<1> HIDE DEF d
<1>8. IsPrimary(r, d) => Good(r, sendPrepareRequest(r, d, TRUE, e), Owed(r))
  BY <1>1, <1>5, <1>6, sendPrepareRequestGood DEF IsPrimary
<1>9. Good(r, IF IsPrimary(r, d) THEN sendPrepareRequest(r, d, TRUE, e) ELSE d, Owed(r))
  BY <1>5, <1>8
<1> QED
  BY <1>7, <1>9, BecomesInv

LEMMA ResetInv ==
  ASSUME IInv, NEW r \in Running, Reset(r)
  PROVE  IInv'
<1> DEFINE d == initializeConsensus(r, ctx[r], 0, Len(ledger[r]) + 1)
<1>1. Good(r, ctx[r], Owed(r)) /\ Owed(r) \in SUBSET Payloads /\ r \in Nodes
      /\ ctx[r] \in Contexts
  BY StateGood
<1>2. ctx[r].BlockIndex \in Nat
  BY <1>1 DEF Contexts
<1>3. Len(ledger[r]) \in Nat /\ Len(ledger[r]) >= ctx[r].BlockIndex
  BY DEF IInv, TypeOK, Reset
<1>4. Len(ledger[r]) + 1 \in Nat /\ Len(ledger[r]) + 1 > ctx[r].BlockIndex
  BY <1>2, <1>3
<1>5. Good(r, d, Owed(r))
  BY <1>1, <1>4, ViewFacts, initializeConsensusGood
<1> QED
  BY <1>5, BecomesInv DEF Reset

LEMMA DeliverInv ==
  ASSUME IInv, NEW r \in Running, NEW m \in msgs \cup Injected, Deliver(r, m)
  PROVE  IInv'
<1>1. Good(r, ctx[r], Owed(r)) /\ Owed(r) \in SUBSET Payloads /\ r \in Nodes
  BY StateGood
<1>2. m \in Payloads
  BY RunningFacts DEF IInv, TypeOK
<1>3. PICK e \in Callbacks : Becomes(r, OnReceive(r, ctx[r], m, e))
  BY DEF Deliver
<1>4. Good(r, OnReceive(r, ctx[r], m, e), Owed(r))
  BY <1>1, <1>2, OnReceiveGood
<1> QED
  BY <1>3, <1>4, BecomesInv

LEMMA OnTransactionInv ==
  ASSUME IInv, NEW r \in Running, NEW tx \in Tx, OnTransaction(r, tx)
  PROVE  IInv'
<1>1. Good(r, ctx[r], Owed(r)) /\ Owed(r) \in SUBSET Payloads /\ r \in Nodes
  BY StateGood
<1>2. PICK e \in Callbacks : Becomes(r, onTransaction(r, ctx[r], tx, e))
  BY DEF OnTransaction
<1>3. Good(r, onTransaction(r, ctx[r], tx, e), Owed(r))
  BY <1>1, onTransactionGood
<1> QED
  BY <1>2, <1>3, BecomesInv

LEMMA OnTimeoutInv ==
  ASSUME IInv, NEW r \in Running, OnTimeout(r) \/ OnNewTransaction(r)
  PROVE  IInv'
<1> DEFINE stopped == [ctx[r].timer EXCEPT !.armed = FALSE]
           d == [ctx[r] EXCEPT !.timer = stopped]
<1>1. Good(r, ctx[r], Owed(r)) /\ Owed(r) \in SUBSET Payloads /\ r \in Nodes
      /\ ctx[r] \in Contexts
  BY StateGood
<1>2. \A e \in FillCallbacks : e.fill \in Proposals /\ e.refill \in Proposals
  BY RunningFacts DEF FillCallbacks
<1>3. stopped \in [height : Nat, view : Views, armed : BOOLEAN]
  BY <1>1 DEF Contexts
<1> HIDE DEF stopped
<1>4. Same(ctx[r], d)
  BY <1>1, <1>3, FieldSame
<1>5. Good(r, d, Owed(r))
  BY <1>1, <1>4, SameKeepsGood
<1> HIDE DEF d
<1>6. CASE OnTimeout(r)
  <2>1. PICK e \in FillCallbacks :
            Becomes(r, onTimeout(r, d, ctx[r].timer.height, ctx[r].timer.view, FALSE, e))
    BY <1>6 DEF OnTimeout, d, stopped
  <2>2. Good(r, onTimeout(r, d, ctx[r].timer.height, ctx[r].timer.view, FALSE, e), Owed(r))
    BY <1>1, <1>2, <1>5, onTimeoutGood
  <2> QED
    BY <2>1, <2>2, BecomesInv
<1>7. CASE OnNewTransaction(r)
  <2>1. PICK e \in FillCallbacks :
            Becomes(r, onTimeout(r, ctx[r], ctx[r].timer.height, ctx[r].timer.view, TRUE, e))
    BY <1>7 DEF OnNewTransaction
  <2>2. Good(r, onTimeout(r, ctx[r], ctx[r].timer.height, ctx[r].timer.view, TRUE, e), Owed(r))
    BY <1>1, <1>2, onTimeoutGood
  <2> QED
    BY <2>1, <2>2, BecomesInv
<1> QED
  BY <1>6, <1>7

\* The work left on the stack of a node: what it was pushed with.
LEMMA PopFacts ==
  ASSUME IInv, NEW r \in Running, ctx[r].todo # <<>>
  PROVE  /\ Head(ctx[r].todo) \in WorkItems
         /\ Same(ctx[r], Pop(ctx[r]))
         /\ Good(r, Pop(ctx[r]), Owed(r))
         /\ Pop(ctx[r]) \in Contexts
<1>1. Good(r, ctx[r], Owed(r)) /\ ctx[r] \in Contexts
  BY StateGood
<1>2. ctx[r].todo \in Seq(WorkItems)
  BY <1>1 DEF Contexts
<1>3. Head(ctx[r].todo) \in WorkItems /\ Tail(ctx[r].todo) \in Seq(WorkItems)
  BY <1>2, HeadTailProperties
<1>4. Same(ctx[r], Pop(ctx[r]))
  BY <1>1, <1>3, FieldSame DEF Pop
<1>5. Good(r, Pop(ctx[r]), Owed(r)) /\ Pop(ctx[r]) \in Contexts
  BY <1>1, <1>4, SameKeepsGood DEF Same
<1> QED
  BY <1>3, <1>4, <1>5

LEMMA WorkItemTypes ==
  ASSUME NEW item \in WorkItems
  PROVE  /\ item.op = "replay" =>
                /\ item.payloads \subseteq Restorable
                /\ \A m : [item EXCEPT !.payloads = item.payloads \ {m}] \in WorkItems
         /\ item.op \in {"preparations", "commits"} => item.msg \in RecoveryMessages
         /\ item.op = "armTimer" => item.view \in Views
         /\ item.op = "deleteMissing" => item.index \in Nat
  BY DEF WorkItems

LEMMA ContinueInv ==
  ASSUME IInv, NEW r \in Running, Continue(r)
  PROVE  IInv'
<1> DEFINE item == Head(ctx[r].todo)
           d == Pop(ctx[r])
<1>1. ctx[r].todo # <<>>
  BY DEF Continue, ContinueReplay, ContinueArmTimer, ContinuePreparations,
         ContinueCommits, ContinueDeleteMissing, Pending
<1>2. item \in WorkItems /\ Good(r, d, Owed(r)) /\ d \in Contexts
  BY <1>1, PopFacts
<1>3. Owed(r) \in SUBSET Payloads /\ r \in Nodes
  BY StateGood
<1> HIDE DEF d
<1>4. CASE ContinueReplay(r)
  <2>1. item.op = "replay"
    BY <1>4 DEF ContinueReplay, Pending
  <2>2. item.payloads \subseteq Payloads
    BY <1>2, <2>1, WorkItemTypes DEF Payloads
  <2>3. \/ Becomes(r, d)
        \/ \E m \in item.payloads, e \in Callbacks :
             LET rest == [item EXCEPT !.payloads = item.payloads \ {m}]
                 d1 == Push(d, <<rest>>)
             IN  Becomes(r, IF Beyond(m) THEN d1 ELSE OnReceive(r, d1, m, e))
    BY <1>4 DEF ContinueReplay, d
  <2>4. CASE Becomes(r, d)
    BY <1>2, <2>4, BecomesInv
  <2>5. ASSUME NEW m \in item.payloads, NEW e \in Callbacks,
               LET rest == [item EXCEPT !.payloads = item.payloads \ {m}]
                   d1 == Push(d, <<rest>>)
               IN  Becomes(r, IF Beyond(m) THEN d1 ELSE OnReceive(r, d1, m, e))
        PROVE  IInv'
    <3> DEFINE rest == [item EXCEPT !.payloads = item.payloads \ {m}]
               d1 == Push(d, <<rest>>)
    <3>1. rest \in WorkItems
      BY <1>2, <2>1, WorkItemTypes
    <3>2. Becomes(r, IF Beyond(m) THEN d1 ELSE OnReceive(r, d1, m, e))
      BY <2>5
    <3> HIDE DEF rest
    <3>3. <<rest>> \in Seq(WorkItems)
      BY <3>1
    <3>4. Good(r, d1, Owed(r))
      BY <1>2, <3>3, PushSame, SameKeepsGood
    <3> HIDE DEF d1
    <3>5. m \in Payloads
      BY <2>2
    <3>6. Good(r, OnReceive(r, d1, m, e), Owed(r))
      BY <1>3, <3>4, <3>5, OnReceiveGood
    <3>7. Good(r, IF Beyond(m) THEN d1 ELSE OnReceive(r, d1, m, e), Owed(r))
      BY <3>4, <3>6
    <3> QED
      BY <3>2, <3>7, BecomesInv
  <2> QED
    BY <2>3, <2>4, <2>5
<1>5. CASE ContinueArmTimer(r)
  <2>1. Good(r, armTimer(r, d, item.view), Owed(r))
    BY <1>2, armTimerSame, SameKeepsGood
  <2> QED
    BY <1>5, <2>1, BecomesInv DEF ContinueArmTimer, d
<1>6. CASE ContinuePreparations(r)
  <2>1. item.msg \in RecoveryMessages
    BY <1>2, <1>6, WorkItemTypes DEF ContinuePreparations, Pending
  <2>2. Good(r, recoverPreparations(r, d, item.msg), Owed(r))
    BY <1>2, <2>1, recoverPreparationsSame, SameKeepsGood
  <2> QED
    BY <1>6, <2>2, BecomesInv DEF ContinuePreparations, d
<1>7. CASE ContinueCommits(r)
  <2>1. item.msg \in RecoveryMessages
    BY <1>2, <1>7, WorkItemTypes DEF ContinueCommits, Pending
  <2>2. Good(r, recoverCommits(d, item.msg), Owed(r))
    BY <1>2, <2>1, recoverCommitsSame, SameKeepsGood
  <2> QED
    BY <1>7, <2>2, BecomesInv DEF ContinueCommits, d
<1>8. CASE ContinueDeleteMissing(r)
  <2>1. item.index \in Nat
    BY <1>2, <1>8, WorkItemTypes DEF ContinueDeleteMissing, Pending
  <2>2. Good(r, deleteMissing(d, item.index), Owed(r))
    BY <1>2, <2>1, deleteMissingSame, SameKeepsGood
  <2> QED
    BY <1>8, <2>2, BecomesInv DEF ContinueDeleteMissing, d
<1> QED
  BY <1>4, <1>5, <1>6, <1>7, <1>8 DEF Continue

LEMMA SyncBlockInv ==
  ASSUME IInv, NEW r \in Running, SyncBlock(r)
  PROVE  IInv'
<1>1. PICK s \in Running :
        /\ Len(ledger[s]) > Len(ledger[r])
        /\ ledger' = [ledger EXCEPT ![r] = Append(ledger[r], ledger[s][Len(ledger[r]) + 1])]
  BY DEF SyncBlock
<1>2. ctx' = ctx /\ msgs' = msgs
  BY DEF SyncBlock
<1>3. ledger \in [Running -> Seq(Headers)]
  BY DEF IInv, TypeOK
<1>4. ledger[r] \in Seq(Headers) /\ ledger[s] \in Seq(Headers)
      /\ Len(ledger[r]) \in Nat /\ Len(ledger[s]) \in Nat
  BY <1>3
<1>5. ledger[s][Len(ledger[r]) + 1] \in Headers
  BY <1>1, <1>4
<1>6. Append(ledger[r], ledger[s][Len(ledger[r]) + 1]) \in Seq(Headers)
  BY <1>4, <1>5
<1>7. ledger' \in [Running -> Seq(Headers)]
  BY <1>1, <1>3, <1>6
<1>8. TypeOK'
  BY <1>2, <1>7 DEF IInv, TypeOK
<1>9. CommitsBind'
  BY <1>2 DEF IInv, CommitsBind
<1> QED
  BY <1>8, <1>9 DEF IInv

LEMMA CrashInv ==
  ASSUME IInv, NEW r \in Running, Crash(r)
  PROVE  IInv'
<1>1. /\ ctx' = [ctx EXCEPT ![r] = NewContext]
      /\ msgs' = msgs /\ ledger' = ledger
      /\ r \notin Correct
  BY DEF Crash, Correct
<1>2. NewContext \in Contexts /\ NewContext.out = {} /\ NewContext.calls = <<>> /\ Sane(NewContext)
  BY NewContextSane DEF Sane, NewContext
<1>3. ctx \in [Running -> Contexts]
  BY DEF IInv, TypeOK
<1>4. /\ ctx' \in [Running -> Contexts]
      /\ ctx'[r] = NewContext
      /\ \A s \in Running \ {r} : ctx'[s] = ctx[s]
  BY <1>1, <1>2, <1>3
<1>5. TypeOK'
  BY <1>1, <1>2, <1>4 DEF IInv, TypeOK
<1>6. \A s \in Running : Sane(ctx'[s])
  BY <1>2, <1>4 DEF IInv, CommitsBind
<1>7. \A s \in Correct : Sworn(s, ctx'[s], msgs')
  BY <1>1, <1>4, RunningFacts DEF IInv, CommitsBind
<1> QED
  BY <1>5, <1>6, <1>7 DEF IInv, CommitsBind

LEMMA NextInv == IInv /\ [Next]_vars => IInv'
<1>1. ASSUME IInv, UNCHANGED vars
      PROVE  IInv'
  BY <1>1 DEF IInv, TypeOK, CommitsBind, vars
<1>2. ASSUME IInv, Next
      PROVE  IInv'
  <2>1. PICK r \in Running :
            \/ Start(r)
            \/ Reset(r)
            \/ \E m \in msgs \cup Injected : Deliver(r, m)
            \/ \E tx \in Tx : OnTransaction(r, tx)
            \/ OnTimeout(r)
            \/ OnNewTransaction(r)
            \/ Continue(r)
            \/ SyncBlock(r)
            \/ Crash(r)
    BY <1>2 DEF Next
  <2> QED
    BY <1>2, <2>1, StartInv, ResetInv, DeliverInv, OnTransactionInv, OnTimeoutInv,
       ContinueInv, SyncBlockInv, CrashInv
<1> QED
  BY <1>1, <1>2

-----------------------------------------------------------------------------
(* The results.                                                             *)

LEMMA SpecInv == Spec => []IInv
  BY InitInv, NextInv, PTL DEF Spec

\* The variables keep their types: the context of every node holds payloads
\* of the right kind in every slot, its lists and its stack (context.go).
THEOREM TypeCorrect == Spec => []TypeOK
<1>1. IInv => TypeOK
  BY DEF IInv
<1> QED
  BY <1>1, SpecInv, PTL

\* A correct validator that has committed at a height holds its own Commit, in
\* its own slot, and a request, until the height changes (sendCommit,
\* CommitSent, reset, verifyCommitPayloadsAgainstHeader).
THEOREM CommitsAreBinding == Spec => []CommitsBind
<1>1. IInv => CommitsBind
  BY DEF IInv
<1> QED
  BY <1>1, SpecInv, PTL

\* A correct validator signs at most one header per height: "valid Commit
\* payload can only be sent once by a single node per the whole set of
\* consensus epochs" (context.go:75-77), for every number of validators and of
\* faulty ones among them, whatever these send.
THEOREM CommitsAreUnique == Spec => []CommitOnce
<1>1. ASSUME IInv, NEW m1 \in msgs, NEW m2 \in msgs,
             m1.type = "Commit", m2.type = "Commit",
             m1.from \in Correct, m1.from = m2.from, m1.height = m2.height
      PROVE  m1.sign = m2.sign
  <2> DEFINE r == m1.from
  <2>1. Sworn(r, ctx[r], msgs)
    BY <1>1 DEF IInv, CommitsBind
  <2>2. m1 \in Sent(r, ctx[r], msgs) /\ m2 \in Sent(r, ctx[r], msgs)
    BY <1>1 DEF Sent
  <2> QED
    BY <1>1, <2>1, <2>2 DEF Sworn
<1>2. IInv => CommitOnce
  BY <1>1 DEF CommitOnce
<1> QED
  BY <1>2, SpecInv, PTL

-----------------------------------------------------------------------------
(* What keeps a node going: no path through the handlers leaves a node      *)
(* without a timer for the height and the view it is in, or a payload of    *)
(* that height and view in its cache, and only a timeout or a transaction   *)
(* makes a primary propose.                                                 *)

Fields ==
    {"BlockIndex", "ViewNumber", "PreparationPayloads", "PreCommitPayloads",
     "CommitPayloads", "ChangeViewPayloads", "LastChangeViewPayloads",
     "LastSeenMessage", "proposal", "Transactions", "MissingTransactions",
     "blockProcessed", "preBlockProcessed", "txSubscriptionOn", "cache", "timer",
     "todo", "panicked", "calls", "out"}

\* Slots that hold payloads of one type only.
Kind(slots, type) ==
    /\ DOMAIN slots = Validators
    /\ \A i \in Validators : slots[i] # Nil => slots[i].type = type

\* As much of the type of a context as is needed here.
Framed(d) ==
    /\ DOMAIN d = Fields
    /\ \E T : d.todo \in Seq(T)
    /\ Kind(d.CommitPayloads, "Commit")
    /\ Kind(d.PreCommitPayloads, "PreCommit")

TimerOf(d) == [height |-> d.BlockIndex, view |-> d.ViewNumber, armed |-> TRUE]

\* The work left on the stack s includes to set the timer.
Arming(s) == \E item \in RangeOf(s) : item.op = "armTimer"

\* A node that takes part has its timer armed for the height and the view it is
\* in, or will set it before the handler ends.
Ticking(r, d) ==
    d.BlockIndex > 0 /\ ~WatchOnly(r) /\ ~d.blockProcessed /\ ~d.panicked =>
        d.timer = TimerOf(d) \/ Arming(d.todo)

\* No payload of the height and the view of the node is in its cache.
Replayed(d) ==
    \A m \in d.cache : ~ (m.height = d.BlockIndex /\ m.view <= d.ViewNumber)

\* The call broadcasts no PrepareRequest.
Silent(d, d1) == \A m \in d1.out : m \in d.out \/ m.type # "PrepareRequest"

\* The call stays in the view.
Steady(d, d1) ==
    /\ Framed(d1)
    /\ d1.BlockIndex = d.BlockIndex /\ d1.ViewNumber = d.ViewNumber
    /\ d.blockProcessed => d1.blockProcessed
    /\ d.panicked => d1.panicked
    /\ d1.panicked \/ RangeOf(d.todo) \subseteq RangeOf(d1.todo)
    /\ d1.timer = d.timer \/ d1.timer = TimerOf(d)
    /\ d1.cache = d.cache

Quiet(d, d1) == Steady(d, d1) /\ Silent(d, d1)

\* The call may have changed the view.
Moves(r, d, d1) ==
    /\ Framed(d1)
    /\ d1.BlockIndex = d.BlockIndex
    /\ Ticking(r, d) => Ticking(r, d1)
    /\ Replayed(d) => Replayed(d1)

Onward(r, d, d1) == Moves(r, d, d1) /\ Silent(d, d1)

LEMMA SteadyTransitive ==
  ASSUME NEW d, NEW d1, NEW d2, Steady(d, d1), Steady(d1, d2)
  PROVE  Steady(d, d2)
  BY DEF Steady, TimerOf

LEMMA QuietTransitive ==
  ASSUME NEW d, NEW d1, NEW d2, Quiet(d, d1), Quiet(d1, d2)
  PROVE  Quiet(d, d2)
  BY SteadyTransitive DEF Quiet, Silent

LEMMA QuietReflexive ==
  ASSUME NEW d, Framed(d)
  PROVE  Quiet(d, d)
  BY DEF Quiet, Steady, Silent

LEMMA SteadyMoves ==
  ASSUME NEW r, NEW d, NEW d1, Steady(d, d1)
  PROVE  Moves(r, d, d1)
<1>1. TimerOf(d1) = TimerOf(d)
  BY DEF Steady, TimerOf
<1>2. Ticking(r, d) => Ticking(r, d1)
  BY <1>1 DEF Ticking, Arming, Steady
<1>3. Replayed(d) => Replayed(d1)
  BY DEF Replayed, Steady
<1> QED
  BY <1>2, <1>3 DEF Moves, Steady

LEMMA QuietOnward ==
  ASSUME NEW r, NEW d, NEW d1, Quiet(d, d1)
  PROVE  Onward(r, d, d1)
  BY SteadyMoves DEF Onward, Quiet

LEMMA MovesTransitive ==
  ASSUME NEW r, NEW d, NEW d1, NEW d2, Moves(r, d, d1), Moves(r, d1, d2)
  PROVE  Moves(r, d, d2)
  BY DEF Moves

LEMMA OnwardTransitive ==
  ASSUME NEW r, NEW d, NEW d1, NEW d2, Onward(r, d, d1), Onward(r, d1, d2)
  PROVE  Onward(r, d, d2)
  BY MovesTransitive DEF Onward, Silent

LEMMA OnwardReflexive ==
  ASSUME NEW r, NEW d, Framed(d)
  PROVE  Onward(r, d, d)
  BY QuietReflexive, QuietOnward

LEMMA QuietFacts ==
  ASSUME NEW d, NEW d1, Quiet(d, d1)
  PROVE  /\ Framed(d1)
         /\ d1.BlockIndex = d.BlockIndex /\ d1.ViewNumber = d.ViewNumber
  BY DEF Quiet, Steady

LEMMA ContextFramed ==
  ASSUME NEW d \in Contexts
  PROVE  Framed(d)
<1>1. DOMAIN d = Fields /\ d.todo \in Seq(WorkItems)
  BY DEF Contexts, Fields
<1>2. d.CommitPayloads \in Slots(Commits) /\ d.PreCommitPayloads \in Slots(PreCommits)
  BY DEF Contexts
<1>3. Kind(d.CommitPayloads, "Commit") /\ Kind(d.PreCommitPayloads, "PreCommit")
  BY <1>2 DEF Slots, Commits, PreCommits, Kind
<1> QED
  BY <1>1, <1>3 DEF Framed

-----------------------------------------------------------------------------
(* Single fields.                                                           *)

LEMMA FieldQuiet ==
  ASSUME NEW d, Framed(d), NEW x
  PROVE  /\ Quiet(d, [d EXCEPT !.PreparationPayloads = x])
         /\ Quiet(d, [d EXCEPT !.ChangeViewPayloads = x])
         /\ Quiet(d, [d EXCEPT !.LastSeenMessage = x])
         /\ Quiet(d, [d EXCEPT !.proposal = x])
         /\ Quiet(d, [d EXCEPT !.Transactions = x])
         /\ Quiet(d, [d EXCEPT !.MissingTransactions = x])
         /\ Quiet(d, [d EXCEPT !.txSubscriptionOn = x])
         /\ Quiet(d, [d EXCEPT !.preBlockProcessed = x])
         /\ Quiet(d, [d EXCEPT !.calls = x])
         /\ Quiet(d, [d EXCEPT !.blockProcessed = TRUE])
         /\ Quiet(d, [d EXCEPT !.timer = TimerOf(d)])
         /\ Kind(x, "Commit") => Quiet(d, [d EXCEPT !.CommitPayloads = x])
         /\ Kind(x, "PreCommit") => Quiet(d, [d EXCEPT !.PreCommitPayloads = x])
  BY DEF Quiet, Steady, Silent, Framed, Fields


LEMMA BroadcastQuiet ==
  ASSUME NEW d, Framed(d), NEW m, m.type # "PrepareRequest"
  PROVE  Quiet(d, Broadcast(d, m))
  BY DEF Broadcast, Quiet, Steady, Silent, Framed, Fields

LEMMA BroadcastSteady ==
  ASSUME NEW d, Framed(d), NEW m
  PROVE  /\ Steady(d, Broadcast(d, m))
         /\ \A x \in Broadcast(d, m).out : x \in d.out \/ x = m
  BY DEF Broadcast, Steady, Framed, Fields

LEMMA PushQuiet ==
  ASSUME NEW d, Framed(d), NEW U, NEW items \in Seq(U)
  PROVE  /\ Quiet(d, Push(d, items))
         /\ RangeOf(items) \subseteq RangeOf(Push(d, items).todo)
         /\ Push(d, items).cache = d.cache
<1> DEFINE s == items \o d.todo
<1>1. PICK T : d.todo \in Seq(T)
  BY DEF Framed
<1>2. items \in Seq(T \cup U) /\ d.todo \in Seq(T \cup U)
  BY <1>1
<1>3. s \in Seq(T \cup U) /\ Len(s) = Len(items) + Len(d.todo)
  BY <1>2
<1>4. \A i \in DOMAIN items : i \in DOMAIN s /\ s[i] = items[i]
  BY <1>2, <1>3
<1>5. \A i \in DOMAIN d.todo : i + Len(items) \in DOMAIN s /\ s[i + Len(items)] = d.todo[i]
  BY <1>2, <1>3
<1>6. RangeOf(items) \subseteq RangeOf(s) /\ RangeOf(d.todo) \subseteq RangeOf(s)
  BY <1>4, <1>5 DEF RangeOf
<1>7. Push(d, items) = [d EXCEPT !.todo = s]
  BY DEF Push
<1> HIDE DEF s
<1>8. Quiet(d, [d EXCEPT !.todo = s])
  BY <1>3, <1>6 DEF Quiet, Steady, Silent, Framed, Fields
<1>9. [d EXCEPT !.todo = s].todo = s /\ [d EXCEPT !.todo = s].cache = d.cache
  BY DEF Framed, Fields
<1> QED
  BY <1>6, <1>7, <1>8, <1>9

LEMMA panicQuiet ==
  ASSUME NEW d, Framed(d)
  PROVE  Quiet(d, panic(d))
<1>1. <<>> \in Seq({})
  OBVIOUS
<1> QED
  BY <1>1 DEF panic, Quiet, Steady, Silent, Framed, Fields

-----------------------------------------------------------------------------
(* The timer, transactions and recovery requests.                           *)

LEMMA CallQuiet ==
  ASSUME NEW d, Framed(d), NEW op
  PROVE  /\ Quiet(d, Call(d, op)) /\ TimerOf(Call(d, op)) = TimerOf(d)
         /\ Call(d, op).cache = d.cache
<1>1. Quiet(d, Call(d, op))
  BY FieldQuiet DEF Call
<1> QED
  BY <1>1 DEF Quiet, Steady, TimerOf

\* Whoever changes the timer has it armed.
LEMMA changeTimerQuiet ==
  ASSUME NEW d, Framed(d), NEW op
  PROVE  /\ Quiet(d, changeTimer(d, op))
         /\ \A r : Ticking(r, changeTimer(d, op))
<1> DEFINE d1 == Call(d, op)
           d2 == [d1 EXCEPT !.timer = TimerOf(d1)]
<1>1. Quiet(d, d1) /\ Framed(d1) /\ TimerOf(d1) = TimerOf(d)
  BY CallQuiet, QuietFacts
<1> HIDE DEF d1
<1>2. Quiet(d1, d2)
  BY <1>1, FieldQuiet
<1>3. d2.timer = TimerOf(d1)
  BY <1>1 DEF Framed, Fields
<1>4. \A r : Ticking(r, d2)
  BY <1>2, <1>3 DEF Ticking, Quiet, Steady, TimerOf
<1>5. d2 = changeTimer(d, op)
  BY <1>1 DEF changeTimer, d1, TimerOf
<1> QED
  BY <1>1, <1>2, <1>4, <1>5, QuietTransitive

LEMMA extendTimerQuiet ==
  ASSUME NEW r, NEW d, Framed(d), NEW op
  PROVE  Quiet(d, extendTimer(r, d, op))
  BY QuietReflexive, CallQuiet DEF extendTimer

LEMMA waitForTransactionsQuiet ==
  ASSUME NEW d, Framed(d), NEW op
  PROVE  /\ Quiet(d, waitForTransactions(d, op))
         /\ \A r : Ticking(r, waitForTransactions(d, op))
<1> DEFINE d1 == [d EXCEPT !.txSubscriptionOn = TRUE]
<1>1. Quiet(d, d1) /\ Framed(d1)
  BY FieldQuiet, QuietFacts
<1> HIDE DEF d1
<1>2. Quiet(d1, changeTimer(d1, op)) /\ \A r : Ticking(r, changeTimer(d1, op))
  BY <1>1, changeTimerQuiet
<1> QED
  BY <1>1, <1>2, QuietTransitive DEF waitForTransactions, d1

LEMMA armTimerQuiet ==
  ASSUME NEW r, NEW d, Framed(d), NEW view
  PROVE  Quiet(d, armTimer(r, d, view)) /\ Ticking(r, armTimer(r, d, view))
<1>1. CASE WatchOnly(r)
  BY <1>1, QuietReflexive DEF armTimer, Ticking
<1>2. CASE ~WatchOnly(r)
  BY <1>2, changeTimerQuiet DEF armTimer
<1> QED
  BY <1>1, <1>2

LEMMA processMissingTxQuiet ==
  ASSUME NEW d, Framed(d), NEW e
  PROVE  Quiet(d, processMissingTx(d, e))
  BY DEF processMissingTx, Quiet, Steady, Silent, Framed, Fields

LEMMA deleteMissingQuiet ==
  ASSUME NEW d, Framed(d), NEW i
  PROVE  Quiet(d, deleteMissing(d, i))
  BY QuietReflexive, panicQuiet, FieldQuiet DEF deleteMissing

LEMMA sendRecoveryRequestQuiet ==
  ASSUME NEW r, NEW d, Framed(d), NEW e
  PROVE  Quiet(d, sendRecoveryRequest(r, d, e))
<1> DEFINE d1 == IF RequestSentOrReceived(d) /\ ~hasAllTransactions(d)
                 THEN processMissingTx(d, e)
                 ELSE d
           m == RecoveryRequestMsg(d1.BlockIndex, d1.ViewNumber, r)
<1>1. Quiet(d, d1) /\ Framed(d1)
  BY QuietReflexive, processMissingTxQuiet, QuietFacts
<1>2. m.type # "PrepareRequest"
  BY DEF RecoveryRequestMsg
<1>3. sendRecoveryRequest(r, d, e) = Broadcast(d1, m)
  BY DEF sendRecoveryRequest
<1> HIDE DEF d1, m
<1> QED
  BY <1>1, <1>2, <1>3, BroadcastQuiet, QuietTransitive

LEMMA broadcastChangeViewQuiet ==
  ASSUME NEW r, NEW d, Framed(d)
  PROVE  Quiet(d, broadcastChangeView(r, d))
<1> DEFINE m == makeChangeView(r, d)
           d1 == [d EXCEPT !.ChangeViewPayloads[r] = m]
<1>1. m.type # "PrepareRequest"
  BY DEF makeChangeView, ChangeViewMsg
<1> HIDE DEF m
<1>2. Quiet(d, d1) /\ Framed(d1)
  BY FieldQuiet, QuietFacts
<1> HIDE DEF d1
<1>3. broadcastChangeView(r, d) = Broadcast(d1, m)
  BY DEF broadcastChangeView, d1, m
<1> QED
  BY <1>1, <1>2, <1>3, BroadcastQuiet, QuietTransitive

LEMMA sendRecoveryMessageQuiet ==
  ASSUME NEW r, NEW d, Framed(d)
  PROVE  Quiet(d, sendRecoveryMessage(r, d))
<1>1. makeRecoveryMessage(r, d).type # "PrepareRequest"
  BY DEF makeRecoveryMessage
<1> QED
  BY <1>1, BroadcastQuiet DEF sendRecoveryMessage

LEMMA onRecoveryRequestQuiet ==
  ASSUME NEW r, NEW d, Framed(d), NEW msg
  PROVE  Quiet(d, onRecoveryRequest(r, d, msg))
  BY QuietReflexive, sendRecoveryMessageQuiet DEF onRecoveryRequest

-----------------------------------------------------------------------------
(* check.go.                                                                *)

LEMMA checkCommitQuiet ==
  ASSUME NEW d, Framed(d), NEW e
  PROVE  Quiet(d, checkCommit(d, e))
  BY QuietReflexive, FieldQuiet DEF checkCommit

LEMMA verifyCommitsQuiet ==
  ASSUME NEW d, Framed(d)
  PROVE  Quiet(d, verifyCommitPayloadsAgainstHeader(d))
<1> DEFINE header == MakeHeader(d)
           Bad(m) == m # Nil /\ m.view = d.ViewNumber /\ header # Nil /\ m.sign # header
           x == [i \in Validators |->
                    IF Bad(d.CommitPayloads[i]) THEN Nil ELSE d.CommitPayloads[i]]
<1>1. Kind(x, "Commit")
  BY DEF Framed, Kind
<1>2. verifyCommitPayloadsAgainstHeader(d) = [d EXCEPT !.CommitPayloads = x]
  BY DEF verifyCommitPayloadsAgainstHeader
<1> HIDE DEF x
<1>3. Quiet(d, [d EXCEPT !.CommitPayloads = x])
  BY <1>1, FieldQuiet
<1> QED
  BY <1>2, <1>3

LEMMA verifyPreCommitsQuiet ==
  ASSUME NEW d, Framed(d)
  PROVE  Quiet(d, verifyPreCommitPayloadsAgainstPreBlock(d))
<1> DEFINE preBlock == MakePreHeader(d)
           Bad(m) == m # Nil /\ m.view = d.ViewNumber /\ preBlock # Nil /\ m.sign # preBlock
           x == [i \in Validators |->
                    IF Bad(d.PreCommitPayloads[i]) THEN Nil ELSE d.PreCommitPayloads[i]]
<1>1. Kind(x, "PreCommit")
  BY DEF Framed, Kind
<1>2. verifyPreCommitPayloadsAgainstPreBlock(d) \in {d, [d EXCEPT !.PreCommitPayloads = x]}
  BY DEF verifyPreCommitPayloadsAgainstPreBlock
<1> HIDE DEF x
<1>3. Quiet(d, [d EXCEPT !.PreCommitPayloads = x]) /\ Quiet(d, d)
  BY <1>1, FieldQuiet, QuietReflexive
<1> QED
  BY <1>2, <1>3

LEMMA KindExcept ==
  ASSUME NEW slots, NEW type, Kind(slots, type), NEW i \in Validators, NEW m, m.type = type
  PROVE  Kind([slots EXCEPT ![i] = m], type)
  BY DEF Kind

LEMMA sendCommitQuiet ==
  ASSUME NEW r \in Validators, NEW d, Framed(d)
  PROVE  Quiet(d, sendCommit(r, d))
<1> DEFINE m == makeCommit(r, d)
           x == [d.CommitPayloads EXCEPT ![r] = m]
           d1 == [d EXCEPT !.CommitPayloads = x]
<1>1. SUFFICES ASSUME m # Nil PROVE Quiet(d, sendCommit(r, d))
  BY QuietReflexive DEF sendCommit
<1>2. m.type = "Commit"
  BY <1>1 DEF makeCommit, Framed, Kind, CommitMsg
<1>3. sendCommit(r, d) = Broadcast(d1, m)
  BY <1>1 DEF sendCommit
<1> HIDE DEF m
<1>4. Kind(x, "Commit")
  BY <1>2, KindExcept DEF Framed
<1> HIDE DEF x
<1>5. Quiet(d, d1) /\ Framed(d1)
  BY <1>4, FieldQuiet, QuietFacts
<1> HIDE DEF d1
<1> QED
  BY <1>2, <1>3, <1>5, BroadcastQuiet, QuietTransitive

LEMMA sendPreCommitQuiet ==
  ASSUME NEW r \in Validators, NEW d, Framed(d)
  PROVE  Quiet(d, sendPreCommit(r, d))
<1> DEFINE m == makePreCommit(r, d)
           x == [d.PreCommitPayloads EXCEPT ![r] = m]
           d1 == [d EXCEPT !.PreCommitPayloads = x]
<1>1. SUFFICES ASSUME m # Nil PROVE Quiet(d, sendPreCommit(r, d))
  BY QuietReflexive DEF sendPreCommit
<1>2. m.type = "PreCommit"
  BY <1>1 DEF makePreCommit, Framed, Kind, PreCommitMsg
<1>3. sendPreCommit(r, d) = Broadcast(d1, m)
  BY <1>1 DEF sendPreCommit
<1> HIDE DEF m
<1>4. Kind(x, "PreCommit")
  BY <1>2, KindExcept DEF Framed
<1> HIDE DEF x
<1>5. Quiet(d, d1) /\ Framed(d1)
  BY <1>4, FieldQuiet, QuietFacts
<1> HIDE DEF d1
<1> QED
  BY <1>2, <1>3, <1>5, BroadcastQuiet, QuietTransitive

LEMMA checkPreCommitQuiet ==
  ASSUME NEW r \in Nodes, NEW d, Framed(d), NEW e
  PROVE  Quiet(d, checkPreCommit(r, d, e))
<1> DEFINE d1 == [d EXCEPT !.preBlockProcessed = TRUE]
           d2 == verifyCommitPayloadsAgainstHeader(d1)
           d3 == sendCommit(r, d2)
           d4 == changeTimer(d3, "commit")
<1>1. Quiet(d, d1) /\ Framed(d1)
  BY FieldQuiet, QuietFacts
<1>2. \/ checkPreCommit(r, d, e) = d
      \/ PreCommitSent(r, d) /\ checkPreCommit(r, d, e) = checkCommit(d4, e)
      \/ checkPreCommit(r, d, e) = d1
  BY Zenon DEF checkPreCommit
<1>3. PreCommitSent(r, d) => r \in Validators
  BY DEF PreCommitSent, WatchOnly, Nodes
<1> HIDE DEF d1
<1>4. Quiet(d1, d2) /\ Framed(d2)
  BY <1>1, verifyCommitsQuiet, QuietFacts
<1> HIDE DEF d2
<1>5. ASSUME r \in Validators PROVE Quiet(d2, d3) /\ Framed(d3)
  BY <1>4, <1>5, sendCommitQuiet, QuietFacts
<1> HIDE DEF d3
<1>6. ASSUME r \in Validators PROVE Quiet(d3, d4) /\ Framed(d4)
  BY <1>5, <1>6, changeTimerQuiet, QuietFacts
<1> HIDE DEF d4
<1>7. ASSUME r \in Validators PROVE Quiet(d, checkCommit(d4, e))
  <2>1. Quiet(d4, checkCommit(d4, e))
    BY <1>6, <1>7, checkCommitQuiet
  <2>2. Quiet(d, d3)
    BY <1>1, <1>4, <1>5, <1>7, QuietTransitive
  <2> QED
    BY <1>6, <1>7, <2>1, <2>2, QuietTransitive
<1> QED
  BY <1>1, <1>2, <1>3, <1>7, QuietReflexive

LEMMA checkPrepareQuiet ==
  ASSUME NEW r \in Validators, NEW d0, Framed(d0), NEW e
  PROVE  Quiet(d0, checkPrepare(r, d0, e))
<1> DEFINE d == Call(d0, "checkPrepare")
           d1 == sendPreCommit(r, d)
           d2 == changeTimer(d1, "commit")
           d3 == sendCommit(r, d)
           d4 == changeTimer(d3, "commit")
<1>0. r \in Nodes
  BY DEF Nodes
<1>1. Quiet(d0, d) /\ Framed(d)
  BY CallQuiet, QuietFacts
<1>2. checkPrepare(r, d0, e) \in {d, checkPreCommit(r, d2, e), checkCommit(d4, e)}
  BY DEF checkPrepare
<1> HIDE DEF d
<1>3. Quiet(d, d1) /\ Framed(d1) /\ Quiet(d, d3) /\ Framed(d3)
  BY <1>1, sendPreCommitQuiet, sendCommitQuiet, QuietFacts
<1> HIDE DEF d1, d3
<1>4. Quiet(d1, d2) /\ Framed(d2) /\ Quiet(d3, d4) /\ Framed(d4)
  BY <1>3, changeTimerQuiet, QuietFacts
<1> HIDE DEF d2, d4
<1>5. Quiet(d0, d2) /\ Quiet(d0, d4)
  BY <1>1, <1>3, <1>4, QuietTransitive
<1>6. Quiet(d2, checkPreCommit(r, d2, e)) /\ Quiet(d4, checkCommit(d4, e))
  BY <1>0, <1>4, checkPreCommitQuiet, checkCommitQuiet
<1> QED
  BY <1>1, <1>2, <1>5, <1>6, QuietTransitive

-----------------------------------------------------------------------------
(* Opening a height or a view.                                              *)

LEMMA resetFramed ==
  ASSUME NEW r, NEW d, Framed(d), NEW view, NEW height
  PROVE  LET d1 == reset(r, d, view, height)
         IN  /\ Framed(d1)
             /\ d1.BlockIndex = IF view = 0 THEN height ELSE d.BlockIndex
             /\ d1.ViewNumber = view
             /\ d1.out = d.out
<1>1. Kind(NoPayloads, "Commit") /\ Kind(NoPayloads, "PreCommit")
  BY DEF Kind, NoPayloads
<1> QED
  BY <1>1 DEF reset, Framed, Fields

\* The height or the view opens with an empty inbox and with a timer.
LEMMA initializeConsensusOpens ==
  ASSUME NEW r, NEW d, Framed(d), NEW view, NEW height
  PROVE  LET d1 == initializeConsensus(r, d, view, height)
         IN  /\ Framed(d1)
             /\ d1.BlockIndex = IF view = 0 THEN height ELSE d.BlockIndex
             /\ Ticking(r, d1)
             /\ Replayed(d1)
             /\ Silent(d, d1)
<1> DEFINE d0 == reset(r, d, view, height)
           d1 == Call(d0, "reset")
           inbox == getHeight(d1, d1.BlockIndex)
           left == d1.cache \ inbox
           d2 == [d1 EXCEPT !.cache = left]
           Mail(kind) == Replay({m \in inbox : InboxOf(m.type) = kind})
           items == <<Mail("prepare"), Mail("ChangeView"), Mail("PreCommit"),
                      Mail("Commit"), [op |-> "armTimer", view |-> view]>>
           U == {Mail("prepare"), Mail("ChangeView"), Mail("PreCommit"),
                 Mail("Commit"), [op |-> "armTimer", view |-> view]}
           b == IF view = 0 THEN height ELSE d.BlockIndex
<1>1. Framed(d0) /\ d0.BlockIndex = b /\ d0.out = d.out
  BY resetFramed
<1> HIDE DEF d0
<1>2. Framed(d1) /\ d1.BlockIndex = b /\ Silent(d, d1)
  BY <1>1, CallQuiet DEF Quiet, Steady, Silent
<1>3. initializeConsensus(r, d, view, height)
        = IF inbox = {} THEN armTimer(r, d1, view) ELSE Push(d2, items)
  BY DEF initializeConsensus, d0
<1> HIDE DEF d1, b
<1>4. CASE inbox = {}
  <2>1. Replayed(d1)
    BY <1>4 DEF Replayed, getHeight
  <2>2. Quiet(d1, armTimer(r, d1, view)) /\ Ticking(r, armTimer(r, d1, view))
    BY <1>2, armTimerQuiet
  <2>3. Moves(r, d1, armTimer(r, d1, view)) /\ Silent(d1, armTimer(r, d1, view))
    BY <2>2, SteadyMoves DEF Quiet
  <2> QED
    BY <1>2, <1>3, <1>4, <2>1, <2>2, <2>3 DEF Moves, Silent, b
<1>5. CASE inbox # {}
  <2>1. left = {m \in d1.cache : m.height # d1.BlockIndex}
    BY DEF getHeight
  <2> HIDE DEF left
  <2>2. Framed(d2) /\ d2.BlockIndex = b /\ Silent(d, d2) /\ d2.cache = left
    BY <1>2 DEF Framed, Fields, Silent
  <2> HIDE DEF d2
  <2>3. items \in Seq(U)
    OBVIOUS
  <2>4. items[5].op = "armTimer" /\ 5 \in DOMAIN items
    OBVIOUS
  <2>5. Arming(items)
    BY <2>4 DEF RangeOf, Arming
  <2> HIDE DEF items, U
  <2>6. /\ Quiet(d2, Push(d2, items))
        /\ RangeOf(items) \subseteq RangeOf(Push(d2, items).todo)
        /\ Push(d2, items).cache = d2.cache
    BY <2>2, <2>3, PushQuiet
  <2>7. /\ Framed(Push(d2, items)) /\ Push(d2, items).BlockIndex = b
        /\ Silent(d, Push(d2, items))
    BY <2>2, <2>6 DEF Quiet, Steady, Silent
  <2>8. Ticking(r, Push(d2, items))
    BY <2>5, <2>6 DEF Ticking, Arming
  <2>9. Replayed(Push(d2, items))
    BY <1>2, <2>1, <2>2, <2>6, <2>7 DEF Replayed
  <2> QED
    BY <1>3, <1>5, <2>7, <2>8, <2>9 DEF b
<1> QED
  BY <1>4, <1>5

LEMMA checkChangeViewOnward ==
  ASSUME NEW r, NEW d, Framed(d), NEW view, d.ViewNumber \in Nat, view \in Nat
  PROVE  Onward(r, d, checkChangeView(r, d, view))
<1> DEFINE agree == broadcastChangeView(r, d)
           Opened(x) == initializeConsensus(r, x, view, d.BlockIndex)
<1>1. Quiet(d, agree) /\ Framed(agree) /\ agree.BlockIndex = d.BlockIndex
  BY broadcastChangeViewQuiet, QuietFacts
<1>2. \/ checkChangeView(r, d, view) = d
      \/ view > d.ViewNumber /\ checkChangeView(r, d, view) = Opened(d)
      \/ view > d.ViewNumber /\ checkChangeView(r, d, view) = Opened(agree)
  BY DEF checkChangeView
<1> HIDE DEF agree
<1>3. ASSUME view > d.ViewNumber, NEW x, Framed(x), x.BlockIndex = d.BlockIndex, Silent(d, x)
      PROVE  Onward(r, d, Opened(x))
  <2>1. view # 0
    BY <1>3
  <2>2. /\ Framed(Opened(x)) /\ Opened(x).BlockIndex = d.BlockIndex
        /\ Ticking(r, Opened(x)) /\ Replayed(Opened(x)) /\ Silent(x, Opened(x))
    BY <1>3, <2>1, initializeConsensusOpens
  <2> QED
    BY <1>3, <2>2 DEF Onward, Moves, Silent
<1>4. Silent(d, d) /\ Silent(d, agree)
  BY <1>1 DEF Silent, Quiet
<1>5. view > d.ViewNumber => Onward(r, d, Opened(d)) /\ Onward(r, d, Opened(agree))
  BY <1>1, <1>3, <1>4
<1> QED
  BY <1>2, <1>5, OnwardReflexive

LEMMA NextViewNat ==
  ASSUME NEW v \in Views
  PROVE  v \in Nat /\ (v + 1) % ViewSize \in Nat
  BY ViewSizeAssumption DEF Views

\* A node that takes part sets its timer before it asks for a change of view.
LEMMA sendChangeViewOnward ==
  ASSUME NEW r, NEW d, Framed(d), d.ViewNumber \in Views, NEW e, NEW reason
  PROVE  /\ Onward(r, d, sendChangeView(r, d, e, reason))
         /\ Ticking(r, sendChangeView(r, d, e, reason))
<1> DEFINE d1 == changeTimer(d, "changeView")
           d2 == broadcastChangeView(r, d1)
           view == (d.ViewNumber + 1) % ViewSize
<1>1. CASE WatchOnly(r)
  BY <1>1, OnwardReflexive DEF sendChangeView, Ticking
<1>2. CASE ~WatchOnly(r)
  <2>1. sendChangeView(r, d, e, reason)
          \in {sendRecoveryRequest(r, d1, e), checkChangeView(r, d2, view)}
    BY <1>2 DEF sendChangeView
  <2>2. Quiet(d, d1) /\ Framed(d1) /\ Ticking(r, d1) /\ d1.ViewNumber = d.ViewNumber
    BY changeTimerQuiet, QuietFacts
  <2> HIDE DEF d1
  <2>3. Quiet(d1, d2) /\ Framed(d2) /\ d2.ViewNumber = d.ViewNumber
    BY <2>2, broadcastChangeViewQuiet, QuietFacts
  <2>4. view \in Nat /\ d.ViewNumber \in Nat
    BY NextViewNat
  <2> HIDE DEF d2, view
  <2>5. Onward(r, d2, checkChangeView(r, d2, view))
    BY <2>3, <2>4, checkChangeViewOnward
  <2>6. Onward(r, d1, checkChangeView(r, d2, view))
    BY <2>3, <2>5, QuietOnward, OnwardTransitive
  <2>7. Onward(r, d1, sendRecoveryRequest(r, d1, e))
    BY <2>2, sendRecoveryRequestQuiet, QuietOnward
  <2>8. \A x : Onward(r, d1, x) => Onward(r, d, x) /\ Ticking(r, x)
    BY <2>2, QuietOnward, OnwardTransitive DEF Onward, Moves
  <2> QED
    BY <2>1, <2>6, <2>7, <2>8
<1> QED
  BY <1>1, <1>2

\* The only call that broadcasts a PrepareRequest: it is for the view of the
\* node, and empty only if the node may wait no longer.
LEMMA sendPrepareRequestMoves ==
  ASSUME NEW r \in Validators, NEW d, Framed(d), NEW force, NEW e
  PROVE  LET d1 == sendPrepareRequest(r, d, force, e)
         IN  /\ Moves(r, d, d1) /\ Ticking(r, d1)
             /\ \A m \in d1.out : \/ m \in d.out \/ m.type # "PrepareRequest"
                                  \/ /\ m.from = r /\ m.view = d.ViewNumber
                                     /\ CanFill(m.proposal, force)
<1> DEFINE p == IF CanFill(e.fill, force) THEN e.fill ELSE e.refill
           msg == PrepareRequestMsg(d.BlockIndex, d.ViewNumber, r, p)
           filled == [d EXCEPT
                        !.proposal = p,
                        !.Transactions = d.Transactions \cup RangeOf(TxOf[p]),
                        !.txSubscriptionOn = FALSE,
                        !.PreparationPayloads[r] = msg]
           sent == Broadcast(filled, msg)
           noted == Call(sent, "prepareSent")
           timed == changeTimer(noted, "request")
           last == checkPrepare(r, timed, e)
           result == sendPrepareRequest(r, d, force, e)
<1>1. \/ CanFill(p, force) /\ result = last
      \/ result = waitForTransactions(d, "subscribe")
  BY DEF sendPrepareRequest
<1>2. CASE result = waitForTransactions(d, "subscribe")
  BY <1>2, waitForTransactionsQuiet, QuietOnward DEF Onward, Silent
<1>3. CASE CanFill(p, force) /\ result = last
  <2>1. msg.from = r /\ msg.view = d.ViewNumber /\ CanFill(msg.proposal, force)
    BY <1>3 DEF PrepareRequestMsg
  <2>2. Quiet(d, filled) /\ Framed(filled)
    BY DEF Quiet, Steady, Silent, Framed, Fields
  <2> HIDE DEF msg, filled, result
  <2>3. Steady(filled, sent) /\ Framed(sent) /\ \A m \in sent.out : m \in filled.out \/ m = msg
    BY <2>2, BroadcastSteady DEF Steady
  <2> HIDE DEF sent
  <2>4. Quiet(sent, noted) /\ Framed(noted)
    BY <2>3, CallQuiet, QuietFacts
  <2> HIDE DEF noted
  <2>5. Quiet(noted, timed) /\ Framed(timed) /\ Ticking(r, timed)
    BY <2>4, changeTimerQuiet, QuietFacts
  <2> HIDE DEF timed
  <2>6. Quiet(timed, last)
    BY <2>5, checkPrepareQuiet
  <2> HIDE DEF last
  <2>7. Ticking(r, last)
    BY <2>5, <2>6, SteadyMoves DEF Moves, Quiet
  <2>8. Quiet(sent, last)
    BY <2>4, <2>5, <2>6, QuietTransitive
  <2>9. Steady(d, last)
    BY <2>2, <2>3, <2>8, SteadyTransitive DEF Quiet
  <2>10. \A m \in last.out : m \in d.out \/ m.type # "PrepareRequest" \/ m = msg
    BY <2>2, <2>3, <2>8 DEF Quiet, Silent
  <2> QED
    BY <1>3, <2>1, <2>7, <2>9, <2>10, SteadyMoves DEF result
<1> QED
  BY <1>1, <1>2, <1>3

LEMMA sendPrepareResponseQuiet ==
  ASSUME NEW r, NEW d, Framed(d)
  PROVE  Quiet(d, sendPrepareResponse(r, d))
<1> DEFINE request == d.PreparationPayloads[PrimaryIndex(d)]
           m == PrepareResponseMsg(d.BlockIndex, d.ViewNumber, r, request.proposal)
           d1 == [d EXCEPT !.PreparationPayloads[r] = m]
<1>1. m.type # "PrepareRequest"
  BY DEF PrepareResponseMsg
<1>2. sendPrepareResponse(r, d) = Broadcast(d1, m)
  BY DEF sendPrepareResponse
<1> HIDE DEF m
<1>3. Quiet(d, d1) /\ Framed(d1)
  BY FieldQuiet, QuietFacts
<1> HIDE DEF d1
<1> QED
  BY <1>1, <1>2, <1>3, BroadcastQuiet, QuietTransitive

-----------------------------------------------------------------------------
(* Preparations and transactions.                                           *)

LEMMA acceptPrepareRequestQuiet ==
  ASSUME NEW d, Framed(d), NEW msg, NEW e
  PROVE  Quiet(d, acceptPrepareRequest(d, msg, e))
<1> DEFINE d1 == [d EXCEPT !.proposal = msg.proposal]
           d2 == processMissingTx(d1, e)
           x == [i \in Validators |->
                    IF /\ d2.PreparationPayloads[i] # Nil
                       /\ d2.PreparationPayloads[i].type = "PrepareResponse"
                       /\ d2.PreparationPayloads[i].proposal # msg.proposal
                    THEN Nil
                    ELSE d2.PreparationPayloads[i]]
           d3 == [d2 EXCEPT !.PreparationPayloads = x]
           d4 == updateExistingPayloads(d2, msg)
           d5 == [d4 EXCEPT !.PreparationPayloads[msg.from] = msg]
<1>1. Quiet(d, d1) /\ Framed(d1)
  BY FieldQuiet, QuietFacts
<1>2. acceptPrepareRequest(d, msg, e) = d5
  BY DEF acceptPrepareRequest
<1> HIDE DEF d1
<1>3. Quiet(d1, d2) /\ Framed(d2)
  BY <1>1, processMissingTxQuiet, QuietFacts
<1>4. d4 \in {verifyPreCommitPayloadsAgainstPreBlock(d3), verifyCommitPayloadsAgainstHeader(d3)}
  BY DEF updateExistingPayloads
<1> HIDE DEF d2, x
<1>5. Quiet(d2, d3) /\ Framed(d3)
  BY <1>3, FieldQuiet, QuietFacts
<1> HIDE DEF d3, d4
<1>6. Quiet(d3, d4) /\ Framed(d4)
  BY <1>4, <1>5, verifyPreCommitsQuiet, verifyCommitsQuiet, QuietFacts
<1>7. Quiet(d4, d5)
  BY <1>6, FieldQuiet
<1> HIDE DEF d5
<1> QED
  BY <1>1, <1>2, <1>3, <1>5, <1>6, <1>7, QuietTransitive

LEMMA respondOnward ==
  ASSUME NEW r \in Nodes, NEW d, Framed(d), d.ViewNumber \in Views, NEW e
  PROVE  Onward(r, d, respond(r, d, e))
<1> DEFINE d1 == sendPrepareResponse(r, d)
<1>1. \/ respond(r, d, e) = d
      \/ respond(r, d, e) = rejectBlock(r, d, e)
      \/ ~WatchOnly(r) /\ respond(r, d, e) = checkPrepare(r, d1, e)
  BY Zenon DEF respond
<1>2. Onward(r, d, rejectBlock(r, d, e))
  BY sendChangeViewOnward DEF rejectBlock
<1>3. Quiet(d, d1) /\ Framed(d1)
  BY sendPrepareResponseQuiet, QuietFacts
<1> HIDE DEF d1
<1>4. ASSUME ~WatchOnly(r) PROVE Onward(r, d, checkPrepare(r, d1, e))
  <2>1. r \in Validators
    BY <1>4 DEF Nodes, WatchOnly
  <2>2. Quiet(d1, checkPrepare(r, d1, e))
    BY <1>3, <2>1, checkPrepareQuiet
  <2> QED
    BY <1>3, <2>2, QuietTransitive, QuietOnward
<1> QED
  BY <1>1, <1>2, <1>4, OnwardReflexive

LEMMA onPrepareRequestOnward ==
  ASSUME NEW r \in Nodes, NEW d, Framed(d), d.ViewNumber \in Views, NEW msg, NEW e
  PROVE  Onward(r, d, onPrepareRequest(r, d, msg, e))
<1> DEFINE d1 == extendTimer(r, d, "extend2")
           d2 == acceptPrepareRequest(d1, msg, e)
<1>1. onPrepareRequest(r, d, msg, e)
        \in {d, sendChangeView(r, d, e, "CVBlockRejectedByPolicy"), respond(r, d2, e)}
  BY DEF onPrepareRequest
<1>2. Quiet(d, d1) /\ Framed(d1) /\ d1.ViewNumber = d.ViewNumber
  BY extendTimerQuiet, QuietFacts
<1> HIDE DEF d1
<1>3. Quiet(d1, d2) /\ Framed(d2) /\ d2.ViewNumber = d.ViewNumber
  BY <1>2, acceptPrepareRequestQuiet, QuietFacts
<1> HIDE DEF d2
<1>4. Onward(r, d2, respond(r, d2, e))
  BY <1>3, respondOnward
<1>5. Onward(r, d, respond(r, d2, e))
  BY <1>2, <1>3, <1>4, QuietTransitive, QuietOnward, OnwardTransitive
<1> QED
  BY <1>1, <1>5, OnwardReflexive, sendChangeViewOnward

LEMMA onPrepareResponseOnward ==
  ASSUME NEW r \in Nodes, NEW d, Framed(d), NEW msg, NEW e
  PROVE  Onward(r, d, onPrepareResponse(r, d, msg, e))
<1> DEFINE d1 == [d EXCEPT !.PreparationPayloads[msg.from] = msg]
           heard == IF IsPrimary(r, d) /\ ~recovering(d)
                    THEN Call(d1, "prepareResponse")
                    ELSE d1
           extended == extendTimer(r, heard, "extend2")
           result == onPrepareResponse(r, d, msg, e)
<1>1. \/ result = d
      \/ result = extended
      \/ result = panic(d1)
      \/ ~WatchOnly(r) /\ result = checkPrepare(r, extended, e)
  BY Zenon DEF onPrepareResponse
<1>2. Quiet(d, d1) /\ Framed(d1)
  BY FieldQuiet, QuietFacts
<1> HIDE DEF d1, result
<1>3. Quiet(d1, heard) /\ Framed(heard)
  BY <1>2, CallQuiet, QuietReflexive, QuietFacts
<1> HIDE DEF heard
<1>4. Quiet(heard, extended) /\ Framed(extended)
  BY <1>3, extendTimerQuiet, QuietFacts
<1> HIDE DEF extended
<1>5. Quiet(d, extended) /\ Quiet(d, panic(d1))
  BY <1>2, <1>3, <1>4, panicQuiet, QuietTransitive
<1>6. ASSUME ~WatchOnly(r) PROVE Quiet(d, checkPrepare(r, extended, e))
  <2>1. r \in Validators
    BY <1>6 DEF Nodes, WatchOnly
  <2>2. Quiet(extended, checkPrepare(r, extended, e))
    BY <1>4, <2>1, checkPrepareQuiet
  <2> QED
    BY <1>5, <2>2, QuietTransitive
<1>7. Quiet(d, result)
  BY <1>1, <1>5, <1>6, QuietReflexive
<1> QED
  BY <1>7, QuietOnward DEF result

LEMMA addTransactionOnward ==
  ASSUME NEW r \in Nodes, NEW d, Framed(d), d.ViewNumber \in Views, NEW tx, NEW e
  PROVE  Onward(r, d, addTransaction(r, d, tx, e))
<1> DEFINE d1 == [d EXCEPT !.Transactions = d.Transactions \cup {tx}]
           d2 == verifyPreCommitPayloadsAgainstPreBlock(d1)
           d3 == extendTimer(r, d2, "extend2")
           d4 == sendPrepareResponse(r, d3)
           result == addTransaction(r, d, tx, e)
<1>1. \/ result = d1
      \/ result = rejectBlock(r, d1, e)
      \/ ~WatchOnly(r) /\ result = checkPrepare(r, d4, e)
  BY Zenon DEF addTransaction
<1>2. Quiet(d, d1) /\ Framed(d1) /\ d1.ViewNumber = d.ViewNumber
  BY FieldQuiet, QuietFacts
<1> HIDE DEF d1, result
<1>3. Onward(r, d1, rejectBlock(r, d1, e))
  BY <1>2, sendChangeViewOnward DEF rejectBlock
<1>4. Quiet(d1, d2) /\ Framed(d2)
  BY <1>2, verifyPreCommitsQuiet, QuietFacts
<1> HIDE DEF d2
<1>5. Quiet(d2, d3) /\ Framed(d3)
  BY <1>4, extendTimerQuiet, QuietFacts
<1> HIDE DEF d3
<1>6. Quiet(d3, d4) /\ Framed(d4)
  BY <1>5, sendPrepareResponseQuiet, QuietFacts
<1> HIDE DEF d4
<1>7. ASSUME ~WatchOnly(r) PROVE Quiet(d1, checkPrepare(r, d4, e))
  <2>1. r \in Validators
    BY <1>7 DEF Nodes, WatchOnly
  <2>2. Quiet(d4, checkPrepare(r, d4, e))
    BY <1>6, <2>1, checkPrepareQuiet
  <2> QED
    BY <1>4, <1>5, <1>6, <2>2, QuietTransitive
<1>8. Onward(r, d1, result)
  BY <1>1, <1>2, <1>3, <1>7, QuietOnward, OnwardReflexive
<1> QED
  BY <1>2, <1>8, QuietOnward, OnwardTransitive DEF result

LEMMA onTransactionOnward ==
  ASSUME NEW r \in Nodes, NEW d, Framed(d), d.ViewNumber \in Views, NEW tx, NEW e
  PROVE  Onward(r, d, onTransaction(r, d, tx, e))
<1> DEFINE item == [op |-> "deleteMissing", index |-> FirstIndex(d.MissingTransactions, tx)]
           d1 == Push(d, <<item>>)
<1>1. onTransaction(r, d, tx, e) \in {d, addTransaction(r, d1, tx, e)}
  BY DEF onTransaction
<1>2. <<item>> \in Seq({item})
  OBVIOUS
<1> HIDE DEF item
<1>3. Quiet(d, d1) /\ Framed(d1) /\ d1.ViewNumber = d.ViewNumber
  BY <1>2, PushQuiet, QuietFacts
<1> HIDE DEF d1
<1>4. Onward(r, d1, addTransaction(r, d1, tx, e))
  BY <1>3, addTransactionOnward
<1>5. Onward(r, d, addTransaction(r, d1, tx, e))
  BY <1>3, <1>4, QuietOnward, OnwardTransitive
<1> QED
  BY <1>1, <1>5, OnwardReflexive

-----------------------------------------------------------------------------
(* Commits, view changes and recovery.                                      *)

LEMMA onPreCommitQuiet ==
  ASSUME NEW r \in Nodes, NEW d, Framed(d), NEW msg, msg.type = "PreCommit",
         msg.from \in Validators, NEW e
  PROVE  Quiet(d, onPreCommit(r, d, msg, e))
<1> DEFINE x == [d.PreCommitPayloads EXCEPT ![msg.from] = msg]
           d1 == [d EXCEPT !.PreCommitPayloads = x]
           extended == extendTimer(r, d1, "extend4")
           dropped == [extended EXCEPT !.PreCommitPayloads = d.PreCommitPayloads]
<1>1. onPreCommit(r, d, msg, e)
        \in {d, d1, extended, dropped, checkPreCommit(r, extended, e)}
  BY DEF onPreCommit
<1>2. Kind(x, "PreCommit") /\ Kind(d.PreCommitPayloads, "PreCommit")
  BY KindExcept DEF Framed
<1> HIDE DEF x
<1>3. Quiet(d, d1) /\ Framed(d1)
  BY <1>2, FieldQuiet, QuietFacts
<1> HIDE DEF d1
<1>4. Quiet(d1, extended) /\ Framed(extended)
  BY <1>3, extendTimerQuiet, QuietFacts
<1> HIDE DEF extended
<1>5. Quiet(extended, dropped)
  BY <1>2, <1>4, FieldQuiet
<1> HIDE DEF dropped
<1>6. Quiet(extended, checkPreCommit(r, extended, e))
  BY <1>4, checkPreCommitQuiet
<1> QED
  BY <1>1, <1>3, <1>4, <1>5, <1>6, QuietTransitive, QuietReflexive

LEMMA onCommitQuiet ==
  ASSUME NEW r \in Nodes, NEW d, Framed(d), NEW msg, msg.type = "Commit",
         msg.from \in Validators, NEW e
  PROVE  Quiet(d, onCommit(r, d, msg, e))
<1> DEFINE x == [d.CommitPayloads EXCEPT ![msg.from] = msg]
           d1 == [d EXCEPT !.CommitPayloads = x]
           extended == extendTimer(r, d1, "extend4")
           dropped == [extended EXCEPT !.CommitPayloads = d.CommitPayloads]
<1>1. onCommit(r, d, msg, e) \in {d, d1, extended, dropped, checkCommit(extended, e)}
  BY DEF onCommit
<1>2. Kind(x, "Commit") /\ Kind(d.CommitPayloads, "Commit")
  BY KindExcept DEF Framed
<1> HIDE DEF x
<1>3. Quiet(d, d1) /\ Framed(d1)
  BY <1>2, FieldQuiet, QuietFacts
<1> HIDE DEF d1
<1>4. Quiet(d1, extended) /\ Framed(extended)
  BY <1>3, extendTimerQuiet, QuietFacts
<1> HIDE DEF extended
<1>5. Quiet(extended, dropped)
  BY <1>2, <1>4, FieldQuiet
<1> HIDE DEF dropped
<1>6. Quiet(extended, checkCommit(extended, e))
  BY <1>4, checkCommitQuiet
<1> QED
  BY <1>1, <1>3, <1>4, <1>5, <1>6, QuietTransitive, QuietReflexive

LEMMA onChangeViewOnward ==
  ASSUME NEW r \in Nodes, NEW d, Framed(d), d.ViewNumber \in Views, NEW msg,
         msg.newView \in Views
  PROVE  Onward(r, d, onChangeView(r, d, msg))
<1> DEFINE d1 == [d EXCEPT !.ChangeViewPayloads[msg.from] = msg]
<1>1. onChangeView(r, d, msg)
        \in {onRecoveryRequest(r, d, msg), sendRecoveryMessage(r, d), d,
             checkChangeView(r, d1, msg.newView)}
  BY DEF onChangeView
<1>2. Quiet(d, d1) /\ Framed(d1) /\ d1.ViewNumber = d.ViewNumber
  BY FieldQuiet, QuietFacts
<1> HIDE DEF d1
<1>3. Onward(r, d1, checkChangeView(r, d1, msg.newView))
  BY <1>2, checkChangeViewOnward, NextViewNat
<1>4. Onward(r, d, checkChangeView(r, d1, msg.newView))
  BY <1>2, <1>3, QuietOnward, OnwardTransitive
<1>5. Onward(r, d, onRecoveryRequest(r, d, msg)) /\ Onward(r, d, sendRecoveryMessage(r, d))
  BY onRecoveryRequestQuiet, sendRecoveryMessageQuiet, QuietOnward
<1> QED
  BY <1>1, <1>4, <1>5, OnwardReflexive

LEMMA onRecoveryMessageQuiet ==
  ASSUME NEW r, NEW d, Framed(d), NEW msg
  PROVE  Quiet(d, onRecoveryMessage(r, d, msg))
<1> DEFINE first == [op |-> "preparations", msg |-> msg]
           second == [op |-> "commits", msg |-> msg]
           votes == Replay(GetChangeViews(msg))
           stages == <<first, second>>
           all == <<votes>> \o stages
<1>1. onRecoveryMessage(r, d, msg) \in {d, Push(d, stages), Push(d, all)}
  BY DEF onRecoveryMessage
<1> HIDE DEF first, second, votes
<1>2. stages \in Seq({first, second, votes}) /\ <<votes>> \in Seq({first, second, votes})
  OBVIOUS
<1>3. all \in Seq({first, second, votes})
  BY <1>2
<1> HIDE DEF stages, all
<1> QED
  BY <1>1, <1>2, <1>3, PushQuiet, QuietReflexive

LEMMA recoverPreparationsQuiet ==
  ASSUME NEW r, NEW d, Framed(d), NEW msg
  PROVE  Quiet(d, recoverPreparations(r, d, msg))
<1> DEFINE request == IF RequestSentOrReceived(d)
                      THEN {}
                      ELSE GetPrepareRequest(msg, PrimaryIndex(d))
           first == Replay(request)
           second == Replay(GetPrepareResponses(msg))
           items == <<first, second>>
<1>1. recoverPreparations(r, d, msg) \in {d, Push(d, items)}
  BY DEF recoverPreparations
<1> HIDE DEF first, second
<1>2. items \in Seq({first, second})
  OBVIOUS
<1> HIDE DEF items
<1> QED
  BY <1>1, <1>2, PushQuiet, QuietReflexive

LEMMA recoverCommitsQuiet ==
  ASSUME NEW d, Framed(d), NEW msg
  PROVE  Quiet(d, recoverCommits(d, msg))
<1> DEFINE first == Replay(GetPreCommits(msg))
           second == Replay(GetCommits(msg))
           items == <<first, second>>
<1>1. recoverCommits(d, msg) \in {d, Push(d, items)}
  BY DEF recoverCommits
<1> HIDE DEF first, second
<1>2. items \in Seq({first, second})
  OBVIOUS
<1> HIDE DEF items
<1> QED
  BY <1>1, <1>2, PushQuiet, QuietReflexive

LEMMA dispatchOnward ==
  ASSUME NEW r \in Nodes, NEW d, Framed(d), d.ViewNumber \in Views, NEW msg \in Payloads, NEW e
  PROVE  Onward(r, d, dispatch(r, d, msg, e))
<1>1. msg.from \in Validators /\ (msg.type = "ChangeView" => msg.newView \in Views)
  BY PayloadTypes DEF Payloads, Restorable, PrepareRequests, PrepareResponses, PreCommits,
     Commits, ChangeViews, RecoveryRequests, RecoveryMessages
<1>2. \/ msg.type = "ChangeView" /\ dispatch(r, d, msg, e) = onChangeView(r, d, msg)
      \/ dispatch(r, d, msg, e) = onPrepareRequest(r, d, msg, e)
      \/ dispatch(r, d, msg, e) = onPrepareResponse(r, d, msg, e)
      \/ msg.type = "Commit" /\ dispatch(r, d, msg, e) = onCommit(r, d, msg, e)
      \/ msg.type = "PreCommit" /\ dispatch(r, d, msg, e) = onPreCommit(r, d, msg, e)
      \/ dispatch(r, d, msg, e) = d
      \/ dispatch(r, d, msg, e) = onRecoveryRequest(r, d, msg)
      \/ dispatch(r, d, msg, e) = onRecoveryMessage(r, d, msg)
  BY DEF dispatch
<1>3. msg.type = "Commit" => Onward(r, d, onCommit(r, d, msg, e))
  BY <1>1, onCommitQuiet, QuietOnward
<1>4. msg.type = "PreCommit" => Onward(r, d, onPreCommit(r, d, msg, e))
  BY <1>1, onPreCommitQuiet, QuietOnward
<1>5. Onward(r, d, onRecoveryRequest(r, d, msg)) /\ Onward(r, d, onRecoveryMessage(r, d, msg))
  BY onRecoveryRequestQuiet, onRecoveryMessageQuiet, QuietOnward
<1>6. msg.type = "ChangeView" => Onward(r, d, onChangeView(r, d, msg))
  BY <1>1, onChangeViewOnward
<1> QED
  BY <1>2, <1>3, <1>4, <1>5, <1>6, onPrepareRequestOnward, onPrepareResponseOnward,
     OnwardReflexive

\* A payload is only cached for a later height or view.
LEMMA addMessageOnward ==
  ASSUME NEW r, NEW d \in Contexts, NEW msg \in Payloads,
         msg.height > d.BlockIndex \/ msg.view > d.ViewNumber
  PROVE  Onward(r, d, addMessage(d, msg))
<1> DEFINE x == {m \in d.cache : ~SameSlot(m, msg)} \cup {msg}
           d1 == [d EXCEPT !.cache = x]
<1>1. Framed(d)
  BY ContextFramed
<1>2. addMessage(d, msg) \in {d, d1}
  BY DEF addMessage
<1>3. d.BlockIndex \in Nat /\ d.ViewNumber \in Int /\ msg.height \in Nat /\ msg.view \in Int
  BY PayloadTypes DEF Contexts, Views
<1>4. \A m \in x : m \in d.cache \/ ~ (m.height = d.BlockIndex /\ m.view <= d.ViewNumber)
  BY <1>3
<1> HIDE DEF x
<1>5. /\ Framed(d1) /\ d1.BlockIndex = d.BlockIndex /\ d1.ViewNumber = d.ViewNumber
      /\ d1.timer = d.timer /\ d1.todo = d.todo /\ d1.out = d.out /\ d1.cache = x
      /\ d1.blockProcessed = d.blockProcessed /\ d1.panicked = d.panicked
  BY <1>1 DEF Framed, Fields
<1> HIDE DEF d1
<1>6. Onward(r, d, d1)
  BY <1>4, <1>5 DEF Onward, Moves, Silent, Ticking, TimerOf, Replayed
<1> QED
  BY <1>1, <1>2, <1>6, OnwardReflexive

LEMMA OnReceiveOnward ==
  ASSUME NEW r \in Nodes, NEW d \in Contexts, NEW msg \in Payloads, NEW e
  PROVE  Onward(r, d, OnReceive(r, d, msg, e))
<1> DEFINE x == [d.LastSeenMessage EXCEPT ![msg.from] =
                    IF d.LastSeenMessage[msg.from] < msg.view
                    THEN msg.view
                    ELSE d.LastSeenMessage[msg.from]]
           seen == [d EXCEPT !.LastSeenMessage = x]
           later == \/ msg.height > d.BlockIndex
                    \/ /\ msg.view > d.ViewNumber
                       /\ msg.type \notin {"ChangeView", "RecoveryMessage"}
           result == OnReceive(r, d, msg, e)
<1>1. \/ result = d
      \/ later /\ result = addMessage(d, msg)
      \/ result = seen
      \/ result = dispatch(r, seen, msg, e)
  BY DEF OnReceive
<1>2. Framed(d) /\ d.ViewNumber \in Views
  BY ContextFramed DEF Contexts
<1>3. later => Onward(r, d, addMessage(d, msg))
  BY addMessageOnward
<1> HIDE DEF x
<1>4. Quiet(d, seen) /\ Framed(seen) /\ seen.ViewNumber = d.ViewNumber
  BY <1>2, FieldQuiet, QuietFacts
<1> HIDE DEF seen, result, later
<1>5. Onward(r, seen, dispatch(r, seen, msg, e))
  BY <1>2, <1>4, dispatchOnward
<1>6. Onward(r, d, seen) /\ Onward(r, d, dispatch(r, seen, msg, e))
  BY <1>4, <1>5, QuietOnward, OnwardTransitive
<1>7. Onward(r, d, result)
  BY <1>1, <1>2, <1>3, <1>6, OnwardReflexive
<1> QED
  BY <1>7 DEF result

\* Every way through OnTimeout sets the timer again, and a primary proposes an
\* empty block only when it may not wait for a transaction.
LEMMA onTimeoutMoves ==
  ASSUME NEW r \in Nodes, NEW d, Framed(d), d.ViewNumber \in Views,
         NEW height, NEW view, NEW force, NEW e
  PROVE  LET d1 == onTimeout(r, d, height, view, force, e)
             urgent == d.ViewNumber # 0 \/ d.txSubscriptionOn \/ force
         IN  /\ Moves(r, d, d1)
             /\ height = d.BlockIndex /\ view = d.ViewNumber => Ticking(r, d1)
             /\ \A m \in d1.out : \/ m \in d.out \/ m.type # "PrepareRequest"
                                  \/ /\ m.from = r /\ m.view = d.ViewNumber
                                     /\ CanFill(m.proposal, urgent)
<1> DEFINE urgent == d.ViewNumber # 0 \/ d.txSubscriptionOn \/ force
           proposed == sendPrepareRequest(r, d, urgent, e)
           recovery == sendRecoveryMessage(r, d)
           resent == changeTimer(recovery, "resend")
           forced == changeTimer(d, "forced")
           calmed == [forced EXCEPT !.txSubscriptionOn = FALSE]
           waiting == waitForTransactions(d, "subscribeBackup")
           result == onTimeout(r, d, height, view, force, e)
<1>1. \/ /\ result = d
         /\ WatchOnly(r) \/ d.blockProcessed \/ height # d.BlockIndex \/ view # d.ViewNumber
      \/ ~WatchOnly(r) /\ result = proposed
      \/ result = resent
      \/ result = calmed
      \/ result = waiting
      \/ result = sendChangeView(r, d, e, "CVTimeout")
  BY DEF onTimeout, BlockSent
<1> HIDE DEF urgent
<1>2. CASE result = d /\ (WatchOnly(r) \/ d.blockProcessed \/ height # d.BlockIndex
                            \/ view # d.ViewNumber)
  BY <1>2, OnwardReflexive DEF Onward, Ticking, Silent
<1>3. CASE ~WatchOnly(r) /\ result = proposed
  <2>1. r \in Validators
    BY <1>3 DEF Nodes, WatchOnly
  <2> QED
    BY <1>3, <2>1, sendPrepareRequestMoves DEF urgent
<1> HIDE DEF result
<1>4. Quiet(d, recovery) /\ Framed(recovery)
  BY sendRecoveryMessageQuiet, QuietFacts
<1> HIDE DEF recovery
<1>5. Quiet(d, resent) /\ Ticking(r, resent)
  BY <1>4, changeTimerQuiet, QuietTransitive
<1>6. Quiet(d, forced) /\ Ticking(r, forced) /\ Framed(forced)
  BY changeTimerQuiet, QuietFacts
<1> HIDE DEF forced
<1>7. Quiet(d, calmed) /\ Ticking(r, calmed)
  <2>1. Quiet(forced, calmed)
    BY <1>6, FieldQuiet
  <2> QED
    BY <1>6, <2>1, QuietTransitive, SteadyMoves DEF Quiet, Moves
<1>8. Quiet(d, waiting) /\ Ticking(r, waiting)
  BY waitForTransactionsQuiet
<1> HIDE DEF resent, calmed, waiting
<1>9. /\ Onward(r, d, sendChangeView(r, d, e, "CVTimeout"))
      /\ Ticking(r, sendChangeView(r, d, e, "CVTimeout"))
  BY sendChangeViewOnward
<1>10. CASE \/ result = resent \/ result = calmed \/ result = waiting
            \/ result = sendChangeView(r, d, e, "CVTimeout")
  <2>1. Onward(r, d, result) /\ Ticking(r, result)
    BY <1>5, <1>7, <1>8, <1>9, <1>10, QuietOnward
  <2> QED
    BY <2>1 DEF Onward, Silent, result
<1> QED
  BY <1>1, <1>2, <1>3, <1>10 DEF result

-----------------------------------------------------------------------------
(* The steps.                                                               *)

\* The inductive invariant: at any point of a handler a node that takes part
\* has its timer set or is about to set it, and its cache holds only payloads
\* to come.
Alert == \A r \in Running : Ticking(r, ctx[r]) /\ Replayed(ctx[r])

RInv == IInv /\ Alert

\* An empty request of view 0, and why its sender may not wait longer.
Hasty(m) == Dynamic /\ m.view = 0 /\ TxOf[m.proposal] = <<>>

Waited(r) == ctx[r].BlockIndex = 0 \/ ctx[r].txSubscriptionOn

\* The PrepareRequests that node r broadcasts are its own, and in time.
Timely(r, S) ==
    \A m \in S : m.type = "PrepareRequest" => m.from = r /\ (Hasty(m) => Waited(r))

\* What EmptyBlockWaits says of a step.
NoHaste ==
    \A r \in Correct : \A m \in msgs' \ msgs :
        /\ Dynamic
        /\ m.type = "PrepareRequest" /\ m.from = r /\ m.view = 0
        /\ TxOf[m.proposal] = <<>>
        => ctx[r].BlockIndex = 0 \/ ctx[r].txSubscriptionOn

\* A step of node r.
LEMMA BecomesAlert ==
  ASSUME RInv, NEW r \in Running, NEW d, Becomes(r, d), Framed(d),
         Ticking(r, d), Replayed(d), Timely(r, d.out)
  PROVE  Alert' /\ NoHaste /\ ctx'[r].BlockIndex = d.BlockIndex
<1> DEFINE d1 == [d EXCEPT !.out = {}, !.calls = <<>>]
<1>1. /\ d1.BlockIndex = d.BlockIndex /\ d1.ViewNumber = d.ViewNumber
      /\ d1.timer = d.timer /\ d1.todo = d.todo /\ d1.cache = d.cache
      /\ d1.blockProcessed = d.blockProcessed /\ d1.panicked = d.panicked
  BY DEF Framed, Fields
<1>2. ctx' = [ctx EXCEPT ![r] = d1]
  BY DEF Becomes
<1> HIDE DEF d1
<1>3. ctx'[r] = d1 /\ \A s \in Running \ {r} : ctx'[s] = ctx[s]
  BY <1>2 DEF RInv, IInv, TypeOK
<1>4. Ticking(r, d1) /\ Replayed(d1)
  BY <1>1 DEF Ticking, Replayed, TimerOf
<1>5. \A s \in Running : Ticking(s, ctx'[s]) /\ Replayed(ctx'[s])
  BY <1>3, <1>4 DEF RInv, Alert
<1>6. msgs' \ msgs \subseteq d.out
  BY DEF Becomes, Send
<1>7. NoHaste
  BY <1>6 DEF NoHaste, Timely, Hasty, Waited
<1> QED
  BY <1>1, <1>3, <1>5, <1>7 DEF Alert, Running

\* A step of node r that goes on from its context.
LEMMA OnwardAlert ==
  ASSUME RInv, NEW r \in Running, NEW d, Onward(r, ctx[r], d), Becomes(r, d)
  PROVE  Alert' /\ NoHaste
<1>1. Ticking(r, ctx[r]) /\ Replayed(ctx[r]) /\ ctx[r].out = {}
  BY DEF RInv, Alert, IInv, TypeOK
<1>2. Framed(d) /\ Ticking(r, d) /\ Replayed(d)
  BY <1>1 DEF Onward, Moves
<1>3. Timely(r, d.out)
  BY <1>1 DEF Onward, Silent, Timely
<1> QED
  BY <1>2, <1>3, BecomesAlert

LEMMA StateFramed ==
  ASSUME RInv, NEW r \in Running
  PROVE  /\ ctx[r] \in Contexts /\ Framed(ctx[r]) /\ ctx[r].ViewNumber \in Views
         /\ ctx[r].out = {} /\ r \in Nodes
         /\ Ticking(r, ctx[r]) /\ Replayed(ctx[r])
<1>1. ctx[r] \in Contexts /\ ctx[r].out = {}
  BY DEF RInv, IInv, TypeOK
<1> QED
  BY <1>1, ContextFramed, RunningFacts DEF Contexts, RInv, Alert

LEMMA InitAlert == Init => RInv
<1>1. SUFFICES ASSUME Init PROVE RInv
  OBVIOUS
<1>2. \A r \in Running : ctx[r].BlockIndex = 0 /\ ctx[r].cache = {}
  BY <1>1 DEF Init, NewContext
<1>3. Alert
  BY <1>2 DEF Alert, Ticking, Replayed
<1> QED
  BY <1>1, <1>3, InitInv DEF RInv

\* Start opens the next height, and a primary then sends its first request.
LEMMA StartAlert ==
  ASSUME RInv, NEW r \in Running, Start(r)
  PROVE  Alert' /\ NoHaste /\ ctx'[r].BlockIndex > ctx[r].BlockIndex
<1>1. PICK e \in FillCallbacks :
        LET d == initializeConsensus(r, ctx[r], 0, Len(ledger[r]) + 1)
        IN  Becomes(r, IF IsPrimary(r, d) THEN sendPrepareRequest(r, d, TRUE, e) ELSE d)
  BY DEF Start
<1> DEFINE d == initializeConsensus(r, ctx[r], 0, Len(ledger[r]) + 1)
           d1 == IF IsPrimary(r, d) THEN sendPrepareRequest(r, d, TRUE, e) ELSE d
<1>0. Len(ledger[r]) \in Nat
  BY DEF RInv, IInv, TypeOK
<1>2. Framed(ctx[r]) /\ ctx[r].out = {} /\ ctx[r].BlockIndex = 0
  BY StateFramed DEF Start
<1>3. /\ Framed(d) /\ d.BlockIndex = Len(ledger[r]) + 1
      /\ Ticking(r, d) /\ Replayed(d) /\ Silent(ctx[r], d)
  BY <1>2, initializeConsensusOpens
<1>4. d \in Contexts
  <2>1. Good(r, ctx[r], Owed(r)) /\ Owed(r) \in SUBSET Payloads /\ r \in Nodes
    BY StateGood DEF RInv
  <2>2. Len(ledger[r]) + 1 \in Nat /\ Len(ledger[r]) + 1 > ctx[r].BlockIndex
    BY <1>0, <1>2
  <2>3. Good(r, d, Owed(r))
    BY <2>1, <2>2, ViewFacts, initializeConsensusGood
  <2> HIDE DEF d
  <2> QED
    BY <2>3 DEF Good, Sane
<1>5. Becomes(r, d1)
  BY <1>1
<1> HIDE DEF d
<1>6. Timely(r, d.out)
  BY <1>2, <1>3 DEF Silent, Timely
<1>7. /\ Framed(d1) /\ d1.BlockIndex = d.BlockIndex
      /\ Ticking(r, d1) /\ Replayed(d1) /\ Timely(r, d1.out)
  <2>1. CASE ~IsPrimary(r, d)
    BY <1>3, <1>6, <2>1
  <2>2. CASE IsPrimary(r, d)
    <3>1. r \in Validators
      BY <1>4, <2>2, NodeFacts DEF IsPrimary
    <3>2. d1 = sendPrepareRequest(r, d, TRUE, e)
      BY <2>2
    <3> HIDE DEF d1
    <3>3. /\ Moves(r, d, d1) /\ Ticking(r, d1)
          /\ \A m \in d1.out : \/ m \in d.out \/ m.type # "PrepareRequest"
                               \/ m.from = r
      <4>1. LET d2 == sendPrepareRequest(r, d, TRUE, e)
            IN  /\ Moves(r, d, d2) /\ Ticking(r, d2)
                /\ \A m \in d2.out : \/ m \in d.out \/ m.type # "PrepareRequest"
                                     \/ /\ m.from = r /\ m.view = d.ViewNumber
                                        /\ CanFill(m.proposal, TRUE)
        BY <1>3, <3>1, sendPrepareRequestMoves, Zenon
      <4> QED
        BY <3>2, <4>1
    <3>4. Timely(r, d1.out)
      BY <1>2, <1>6, <3>3 DEF Timely, Waited
    <3> QED
      BY <1>3, <3>3, <3>4 DEF Moves
  <2> QED
    BY <2>1, <2>2
<1> HIDE DEF d1
<1>8. Alert' /\ NoHaste /\ ctx'[r].BlockIndex = d1.BlockIndex
  BY <1>5, <1>7, BecomesAlert
<1> QED
  BY <1>0, <1>2, <1>3, <1>7, <1>8

\* Reset opens the next height.
LEMMA ResetAlert ==
  ASSUME RInv, NEW r \in Running, Reset(r)
  PROVE  Alert' /\ NoHaste /\ ctx'[r].BlockIndex > ctx[r].BlockIndex
<1> DEFINE d == initializeConsensus(r, ctx[r], 0, Len(ledger[r]) + 1)
<1>1. Framed(ctx[r]) /\ ctx[r].out = {} /\ ctx[r].BlockIndex \in Nat
  BY StateFramed DEF Contexts
<1>2. /\ Framed(d) /\ d.BlockIndex = Len(ledger[r]) + 1
      /\ Ticking(r, d) /\ Replayed(d) /\ Silent(ctx[r], d)
  BY <1>1, initializeConsensusOpens
<1>3. Becomes(r, d) /\ Len(ledger[r]) >= ctx[r].BlockIndex
  BY DEF Reset
<1> HIDE DEF d
<1>4. Timely(r, d.out)
  BY <1>1, <1>2 DEF Silent, Timely
<1>5. Alert' /\ NoHaste /\ ctx'[r].BlockIndex = d.BlockIndex
  BY <1>2, <1>3, <1>4, BecomesAlert
<1>6. Len(ledger[r]) \in Nat
  BY DEF RInv, IInv, TypeOK
<1> QED
  BY <1>1, <1>2, <1>3, <1>5, <1>6

LEMMA DeliverAlert ==
  ASSUME RInv, NEW r \in Running, NEW m \in msgs \cup Injected, Deliver(r, m)
  PROVE  Alert' /\ NoHaste
<1>1. m \in Payloads
  BY RunningFacts DEF RInv, IInv, TypeOK
<1>2. PICK e \in Callbacks : Becomes(r, OnReceive(r, ctx[r], m, e))
  BY DEF Deliver
<1>3. Onward(r, ctx[r], OnReceive(r, ctx[r], m, e))
  BY <1>1, StateFramed, OnReceiveOnward
<1> QED
  BY <1>2, <1>3, OnwardAlert

LEMMA OnTransactionAlert ==
  ASSUME RInv, NEW r \in Running, NEW tx \in Tx, OnTransaction(r, tx)
  PROVE  Alert' /\ NoHaste
<1>1. PICK e \in Callbacks : Becomes(r, onTransaction(r, ctx[r], tx, e))
  BY DEF OnTransaction
<1>2. Onward(r, ctx[r], onTransaction(r, ctx[r], tx, e))
  BY StateFramed, onTransactionOnward
<1> QED
  BY <1>1, <1>2, OnwardAlert

\* The tick is for the height and the view of the node: what OnTimeout drops
\* leaves nobody without a timer.
LEMMA OnTimeoutAlert ==
  ASSUME RInv, NEW r \in Running, OnTimeout(r) \/ OnNewTransaction(r)
  PROVE  Alert' /\ NoHaste
<1> DEFINE stopped == [ctx[r].timer EXCEPT !.armed = FALSE]
           d0 == [ctx[r] EXCEPT !.timer = stopped]
           height == ctx[r].timer.height
           view == ctx[r].timer.view
<1>1. /\ Framed(ctx[r]) /\ ctx[r].ViewNumber \in Views /\ ctx[r].out = {} /\ r \in Nodes
      /\ Ticking(r, ctx[r]) /\ Replayed(ctx[r])
  BY StateFramed
<1>2. Ready(r) /\ ctx[r].todo = <<>>
  BY DEF OnTimeout, OnNewTransaction, Ready, Idle
<1>3. \/ WatchOnly(r) \/ ctx[r].blockProcessed
      \/ height = ctx[r].BlockIndex /\ view = ctx[r].ViewNumber
  BY <1>1, <1>2 DEF Ticking, Arming, Ready, RangeOf, TimerOf
<1>4. ASSUME NEW d, NEW force, NEW e,
             Framed(d), d.BlockIndex = ctx[r].BlockIndex, d.ViewNumber = ctx[r].ViewNumber,
             d.blockProcessed = ctx[r].blockProcessed, d.cache = ctx[r].cache, d.out = {},
             d.txSubscriptionOn = ctx[r].txSubscriptionOn,
             force => d.txSubscriptionOn,
             Becomes(r, onTimeout(r, d, height, view, force, e))
      PROVE  Alert' /\ NoHaste
  <2> DEFINE d1 == onTimeout(r, d, height, view, force, e)
             urgent == d.ViewNumber # 0 \/ d.txSubscriptionOn \/ force
  <2>1. /\ Moves(r, d, d1)
        /\ height = d.BlockIndex /\ view = d.ViewNumber => Ticking(r, d1)
        /\ \A m \in d1.out : \/ m \in d.out \/ m.type # "PrepareRequest"
                             \/ /\ m.from = r /\ m.view = d.ViewNumber
                                /\ CanFill(m.proposal, urgent)
    <3>1. r \in Nodes /\ Framed(d) /\ d.ViewNumber \in Views
      BY <1>1, <1>4
    <3> HIDE DEF height, view
    <3> QED
      BY <3>1, onTimeoutMoves
  <2>2. Becomes(r, d1)
    BY <1>4
  <2>3. WatchOnly(r) \/ d.blockProcessed => d1 = d
    BY DEF onTimeout, BlockSent
  <2> HIDE DEF d1, height, view
  <2>4. Ticking(r, d1)
    BY <1>3, <1>4, <2>1, <2>3 DEF Ticking
  <2>5. Framed(d1) /\ Replayed(d1)
    BY <1>1, <1>4, <2>1 DEF Moves, Replayed
  <2>6. Timely(r, d1.out)
    BY <1>4, <2>1 DEF Timely, Hasty, Waited, CanFill
  <2> QED
    BY <2>2, <2>4, <2>5, <2>6, BecomesAlert
<1>5. CASE OnTimeout(r)
  <2>1. PICK e \in FillCallbacks : Becomes(r, onTimeout(r, d0, height, view, FALSE, e))
    BY <1>5 DEF OnTimeout
  <2>2. /\ Framed(d0) /\ d0.BlockIndex = ctx[r].BlockIndex
        /\ d0.ViewNumber = ctx[r].ViewNumber
        /\ d0.blockProcessed = ctx[r].blockProcessed /\ d0.cache = ctx[r].cache
        /\ d0.out = {} /\ d0.txSubscriptionOn = ctx[r].txSubscriptionOn
    BY <1>1 DEF Framed, Fields
  <2> HIDE DEF d0
  <2> QED
    BY <1>4, <2>1, <2>2
<1>6. CASE OnNewTransaction(r)
  <2>1. PICK e \in FillCallbacks : Becomes(r, onTimeout(r, ctx[r], height, view, TRUE, e))
    BY <1>6 DEF OnNewTransaction
  <2>2. ctx[r].txSubscriptionOn
    BY <1>6 DEF OnNewTransaction
  <2> QED
    BY <1>1, <1>4, <2>1, <2>2
<1> QED
  BY <1>5, <1>6

\* The work taken from the stack may be to set the timer, which is then done.
LEMMA PopAlert ==
  ASSUME RInv, NEW r \in Running, ctx[r].todo # <<>>
  PROVE  LET d == Pop(ctx[r])
         IN  /\ d \in Contexts /\ Framed(d) /\ d.out = {} /\ d.ViewNumber \in Views
             /\ Replayed(d)
             /\ Head(ctx[r].todo).op # "armTimer" => Ticking(r, d)
<1> DEFINE s == ctx[r].todo
           d == Pop(ctx[r])
<1>1. /\ ctx[r] \in Contexts /\ Framed(ctx[r]) /\ ctx[r].out = {}
      /\ Ticking(r, ctx[r]) /\ Replayed(ctx[r])
  BY StateFramed
<1>2. s \in Seq(WorkItems) /\ s # <<>>
  BY <1>1 DEF Contexts
<1>3. d \in Contexts
  BY PopFacts DEF RInv
<1>4. /\ d.BlockIndex = ctx[r].BlockIndex /\ d.ViewNumber = ctx[r].ViewNumber
      /\ d.timer = ctx[r].timer /\ d.cache = ctx[r].cache /\ d.out = ctx[r].out
      /\ d.blockProcessed = ctx[r].blockProcessed /\ d.panicked = ctx[r].panicked
      /\ d.todo = Tail(s)
  BY <1>1 DEF Pop, Framed, Fields
<1> HIDE DEF d
<1>5. \A i \in DOMAIN s : s[i] = Head(s) \/ s[i] \in RangeOf(Tail(s))
  <2>1. \A i \in DOMAIN s : i # 1 => i - 1 \in DOMAIN Tail(s) /\ Tail(s)[i - 1] = s[i]
    BY <1>2
  <2>2. Head(s) = s[1]
    BY <1>2
  <2> HIDE DEF s
  <2> QED
    BY <2>1, <2>2 DEF RangeOf
<1>6. Head(s).op # "armTimer" /\ Arming(s) => Arming(Tail(s))
  BY <1>5 DEF RangeOf, Arming
<1> HIDE DEF s
<1>7. Head(s).op # "armTimer" => Ticking(r, d)
  BY <1>1, <1>4, <1>6 DEF Ticking, TimerOf, s
<1>8. Replayed(d)
  BY <1>1, <1>4 DEF Replayed
<1>9. Framed(d) /\ d.ViewNumber \in Views
  BY <1>3, ContextFramed DEF Contexts
<1> QED
  BY <1>1, <1>3, <1>4, <1>7, <1>8, <1>9 DEF s, d

\* A step of node r that goes on from a context with its timer set.
LEMMA ResumeAlert ==
  ASSUME RInv, NEW r \in Running, NEW d, Ticking(r, d), Replayed(d), d.out = {},
         NEW d1, Onward(r, d, d1), Becomes(r, d1)
  PROVE  Alert' /\ NoHaste
<1>1. Framed(d1) /\ Ticking(r, d1) /\ Replayed(d1)
  BY DEF Onward, Moves
<1>2. Timely(r, d1.out)
  BY DEF Onward, Silent, Timely
<1> QED
  BY <1>1, <1>2, BecomesAlert

LEMMA ContinueAlert ==
  ASSUME RInv, NEW r \in Running, Continue(r)
  PROVE  Alert' /\ NoHaste
<1> DEFINE item == Head(ctx[r].todo)
           d == Pop(ctx[r])
<1>1. ctx[r].todo # <<>>
  BY DEF Continue, ContinueReplay, ContinueArmTimer, ContinuePreparations,
         ContinueCommits, ContinueDeleteMissing, Pending
<1>2. /\ d \in Contexts /\ Framed(d) /\ d.out = {} /\ d.ViewNumber \in Views /\ Replayed(d)
      /\ item.op # "armTimer" => Ticking(r, d)
  BY <1>1, PopAlert
<1>3. item \in WorkItems /\ r \in Nodes
  BY <1>1, PopFacts, StateFramed DEF RInv
<1>4. RInv /\ Good(r, d, Owed(r))
  BY <1>1, PopFacts DEF RInv
<1> HIDE DEF d
<1>5. CASE ContinueReplay(r)
  <2>1. item.op = "replay"
    BY <1>5 DEF ContinueReplay, Pending
  <2>2. item.payloads \subseteq Payloads
    BY <1>3, <2>1, WorkItemTypes DEF Payloads
  <2>3. Ticking(r, d)
    BY <1>2, <2>1
  <2>4. \/ Becomes(r, d)
        \/ \E m \in item.payloads, e \in Callbacks :
             LET rest == [item EXCEPT !.payloads = item.payloads \ {m}]
                 d1 == Push(d, <<rest>>)
             IN  Becomes(r, IF Beyond(m) THEN d1 ELSE OnReceive(r, d1, m, e))
    BY <1>5 DEF ContinueReplay, d
  <2>5. CASE Becomes(r, d)
    BY <1>2, <2>3, <2>5, ResumeAlert, OnwardReflexive
  <2>6. ASSUME NEW m \in item.payloads, NEW e \in Callbacks,
               LET rest == [item EXCEPT !.payloads = item.payloads \ {m}]
                   d1 == Push(d, <<rest>>)
               IN  Becomes(r, IF Beyond(m) THEN d1 ELSE OnReceive(r, d1, m, e))
        PROVE  Alert' /\ NoHaste
    <3> DEFINE rest == [item EXCEPT !.payloads = item.payloads \ {m}]
               d1 == Push(d, <<rest>>)
               d2 == IF Beyond(m) THEN d1 ELSE OnReceive(r, d1, m, e)
    <3>1. rest \in WorkItems
      BY <1>3, <2>1, WorkItemTypes
    <3>2. Becomes(r, d2)
      BY <2>6
    <3> HIDE DEF rest
    <3>3. <<rest>> \in Seq(WorkItems)
      BY <3>1
    <3>4. Good(r, d1, Owed(r)) /\ Quiet(d, d1)
      BY <1>2, <1>4, <3>3, PushSame, SameKeepsGood, PushQuiet
    <3> HIDE DEF d1
    <3>5. d1 \in Contexts /\ m \in Payloads
      BY <2>2, <3>4 DEF Good, Sane
    <3>6. Onward(r, d, d1) /\ Onward(r, d1, OnReceive(r, d1, m, e)) /\ Onward(r, d1, d1)
      BY <1>3, <3>4, <3>5, QuietOnward, OnReceiveOnward, OnwardReflexive, ContextFramed
    <3>7. Onward(r, d, d2)
      BY <3>6, OnwardTransitive
    <3> HIDE DEF d2
    <3> QED
      BY <1>2, <2>3, <3>2, <3>7, ResumeAlert
  <2> QED
    BY <2>4, <2>5, <2>6
<1>6. CASE ContinueArmTimer(r)
  <2>1. Quiet(d, armTimer(r, d, item.view)) /\ Ticking(r, armTimer(r, d, item.view))
    BY <1>2, armTimerQuiet
  <2>2. /\ Replayed(armTimer(r, d, item.view)) /\ Framed(armTimer(r, d, item.view))
        /\ Timely(r, armTimer(r, d, item.view).out)
    BY <1>2, <2>1, SteadyMoves DEF Quiet, Moves, Silent, Timely
  <2>3. Becomes(r, armTimer(r, d, item.view))
    BY <1>6 DEF ContinueArmTimer, d
  <2> QED
    BY <2>1, <2>2, <2>3, BecomesAlert
<1>7. CASE ContinuePreparations(r)
  <2>1. Ticking(r, d)
    BY <1>2, <1>7 DEF ContinuePreparations, Pending
  <2>2. Onward(r, d, recoverPreparations(r, d, item.msg))
    BY <1>2, recoverPreparationsQuiet, QuietOnward
  <2>3. Becomes(r, recoverPreparations(r, d, item.msg))
    BY <1>7 DEF ContinuePreparations, d
  <2> QED
    BY <1>2, <2>1, <2>2, <2>3, ResumeAlert
<1>8. CASE ContinueCommits(r)
  <2>1. Ticking(r, d)
    BY <1>2, <1>8 DEF ContinueCommits, Pending
  <2>2. Onward(r, d, recoverCommits(d, item.msg))
    BY <1>2, recoverCommitsQuiet, QuietOnward
  <2>3. Becomes(r, recoverCommits(d, item.msg))
    BY <1>8 DEF ContinueCommits, d
  <2> QED
    BY <1>2, <2>1, <2>2, <2>3, ResumeAlert
<1>9. CASE ContinueDeleteMissing(r)
  <2>1. Ticking(r, d)
    BY <1>2, <1>9 DEF ContinueDeleteMissing, Pending
  <2>2. Onward(r, d, deleteMissing(d, item.index))
    BY <1>2, deleteMissingQuiet, QuietOnward
  <2>3. Becomes(r, deleteMissing(d, item.index))
    BY <1>9 DEF ContinueDeleteMissing, d
  <2> QED
    BY <1>2, <2>1, <2>2, <2>3, ResumeAlert
<1> QED
  BY <1>5, <1>6, <1>7, <1>8, <1>9 DEF Continue

LEMMA EnvironmentAlert ==
  ASSUME RInv, NEW r \in Running, SyncBlock(r) \/ Crash(r)
  PROVE  Alert' /\ NoHaste
<1>1. msgs' = msgs
  BY DEF SyncBlock, Crash
<1>2. NoHaste
  BY <1>1 DEF NoHaste
<1>3. CASE SyncBlock(r)
  <2>1. ctx' = ctx
    BY <1>3 DEF SyncBlock
  <2> QED
    BY <1>2, <2>1 DEF RInv, Alert, Running
<1>4. CASE Crash(r)
  <2>1. NewContext.BlockIndex = 0 /\ NewContext.cache = {}
    BY DEF NewContext
  <2>2. Ticking(r, NewContext) /\ Replayed(NewContext)
    BY <2>1 DEF Ticking, Replayed
  <2>3. ctx'[r] = NewContext /\ \A s \in Running \ {r} : ctx'[s] = ctx[s]
    BY <1>4 DEF Crash, RInv, IInv, TypeOK
  <2> QED
    BY <1>2, <2>2, <2>3 DEF RInv, Alert, Running
<1> QED
  BY <1>2, <1>3, <1>4

LEMMA NextAlert ==
  ASSUME RInv, [Next]_vars
  PROVE  RInv' /\ NoHaste
<1>1. IInv'
  BY NextInv DEF RInv
<1>2. CASE UNCHANGED vars
  BY <1>1, <1>2 DEF RInv, Alert, NoHaste, vars, Running
<1>3. CASE Next
  <2>1. PICK r \in Running :
            \/ Start(r)
            \/ Reset(r)
            \/ \E m \in msgs \cup Injected : Deliver(r, m)
            \/ \E tx \in Tx : OnTransaction(r, tx)
            \/ OnTimeout(r)
            \/ OnNewTransaction(r)
            \/ Continue(r)
            \/ SyncBlock(r)
            \/ Crash(r)
    BY <1>3 DEF Next
  <2>2. Alert' /\ NoHaste
    BY <2>1, StartAlert, ResetAlert, DeliverAlert, OnTransactionAlert, OnTimeoutAlert,
       ContinueAlert, EnvironmentAlert
  <2> QED
    BY <1>1, <2>2 DEF RInv
<1> QED
  BY <1>2, <1>3

-----------------------------------------------------------------------------
(* The results.                                                             *)

LEMMA SpecAlert == Spec => []RInv
<1>1. RInv /\ [Next]_vars => RInv'
  BY NextAlert
<1> QED
  BY <1>1, InitAlert, PTL DEF Spec

\* No path through the handlers leaves a node that takes part without a timer
\* for the height and the view it is in, whatever the others send and in
\* whatever order: neither a tick that OnTimeout drops, nor a view opened while
\* the cache is replayed, nor a recovery (initializeConsensus, OnTimeout,
\* sendChangeView, sendPrepareRequest).
THEOREM TimerStaysArmed == Spec => []TimerArmed
<1>1. ASSUME RInv, Idle, NEW r \in Running,
             ctx[r].BlockIndex > 0, ~WatchOnly(r), ~ctx[r].blockProcessed, ~ctx[r].panicked
      PROVE  ctx[r].timer = [height |-> ctx[r].BlockIndex, view |-> ctx[r].ViewNumber,
                             armed |-> TRUE]
  <2>1. Ticking(r, ctx[r]) /\ ctx[r].todo = <<>>
    BY <1>1, StateFramed DEF Idle
  <2>2. RangeOf(ctx[r].todo) = {}
    BY <2>1 DEF RangeOf
  <2> QED
    BY <1>1, <2>1, <2>2 DEF Ticking, Arming, TimerOf
<1>2. RInv => TimerArmed
  BY <1>1 DEF TimerArmed
<1> QED
  BY <1>2, SpecAlert, PTL

\* What came too early is replayed when its height or view opens: nothing that
\* the node could handle waits in its cache (initializeConsensus, OnReceive).
THEOREM CacheIsReplayed == Spec => []CacheReplayed
<1>1. RInv => CacheReplayed
  BY DEF RInv, Alert, Replayed, CacheReplayed
<1> QED
  BY <1>1, SpecAlert, PTL

\* A primary of view 0 proposes an empty block only after it has waited with a
\* subscription for transactions, on every way to sendPrepareRequest: a timeout,
\* a new transaction, the start (OnTimeout, sendPrepareRequest, Fill).
THEOREM EmptyBlocksWait == Spec => EmptyBlockWaits
<1>1. RInv /\ [Next]_vars =>
        [\A r \in Correct : \A m \in msgs' \ msgs :
            /\ Dynamic
            /\ m.type = "PrepareRequest" /\ m.from = r /\ m.view = 0
            /\ TxOf[m.proposal] = <<>>
            => ctx[r].BlockIndex = 0 \/ ctx[r].txSubscriptionOn]_vars
  BY NextAlert DEF NoHaste
<1> QED
  BY <1>1, SpecAlert, PTL DEF Spec, EmptyBlockWaits
=============================================================================
