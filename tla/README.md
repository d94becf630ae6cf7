# A TLA+ development of the dBFT library

This directory specifies the Go library of the repository (package `dbft`, the
files in `src/`) in TLA+, checks it with TLC on small networks and proves part
of it with TLAPS for networks of any size. It models the code: where the code
and the protocol papers differ, the code is what is here. (The repository's own
`formal-models/` specify the protocol.)

## 1. The system

### Components

| component | source | state | operations |
|---|---|---|---|
| Context | `context.go` | height, view, one slot per validator for the preparation, PreCommit, Commit and ChangeView payloads, `LastSeenMessage`, the proposal and its transactions, the "processed" flags | predicates (`CommitSent`, `ViewChanging`, ...), `reset`, `Fill`, `MakeHeader`, `CreateBlock` |
| Handlers | `dbft.go`, `check.go`, `send.go` | none of their own | `Start`, `Reset`, `OnReceive`, `OnTransaction`, `OnNewTransaction`, `OnTimeout` and what they call |
| Message cache | `helpers.go` | per height, four maps from validator to payload | `addMessage`, `getHeight` |
| Recovery message | `internal/consensus/recovery_message.go`, `compact.go` | packed parts of payloads | `AddPayload`, `GetPrepareRequest`, `GetPrepareResponses`, `GetChangeViews`, `GetPreCommits`, `GetCommits` |
| Payloads | `internal/consensus/*.go` | - | construction, encoding |
| Timer | `timer/timer.go` | height, view, start, duration, a `time.Timer`, a channel with one slot | `Reset`, `Extend`, `C` |
| Round-trip estimate | `rtt.go` | ring of 70 durations, average | `addTime` |
| Configuration | `config.go` | callbacks | `defaultConfig`, the options, `checkConfig` |
| Example types | `internal/consensus` blocks, `internal/{merkle,crypto}` | - | headers, Merkle root, hashing, signing |
| Caller | `internal/simulation/main.go`, any user | event loop, channels, ledger, memory pool | calls the handlers, answers the callbacks |

A caller owns the event loop. It calls one handler at a time; the handler reads
the context, calls back (`GetTx`, `VerifyBlock`, `ProcessBlock`,
`CurrentHeight`, ...), broadcasts payloads through `Config.Broadcast` and sets
the timer. Payloads of other nodes come in through `OnReceive`. `OnReceive` is
reentrant: opening a height or a view (`initializeConsensus`) replays the cache
through it, and so does `onRecoveryMessage` with the payloads it unpacks.
After `ProcessBlock` the library waits for the caller to call `Reset`.

### What is hard in it

- payloads come in any order, twice, late, or never, and are stored, cached,
  verified later, dropped, or restored from recovery messages;
- validators are in different views and heights, and some of them lie;
- handlers continue after a reentrant replay that may have changed the view,
  committed, or finished the block (`OnTransaction`, `initializeConsensus`,
  `onRecoveryMessage`);
- consensus state is lost in a restart;
- ticks of the timer race with changes of view; a view change must not make a
  node deaf to validators that have already committed;
- callbacks fail (verification, `ProcessPreBlock`, `ProcessBlock`) and are
  retried;
- timeouts are shortened by measurements and extended by payloads, and must be
  neither so short that a live primary loses its view nor so long that blocks
  fall behind;
- a payload changes its form on the way (nanoseconds and seconds, `nil` and empty
  slices, compact parts of a recovery message), and its hash must not.

`PROJECT.json` lists each hazard at its line, with the properties that watch it
or the reason why none does.

### What makes each part correct

- *Handlers*: a validator commits once per height, keeps to its view once it
  has (pre)committed, prepares one proposal per view and only verified ones, and
  always has a timeout to come.
- *Cache*: what was early is replayed when its height and view are there.
- *Recovery message*: it restores what its receiver needs and invents nothing.
- *Network*: ledgers agree; behind a block are M preparations of its view and M commits; a commit quorum in the making
  ends in a block everywhere.
- *Timer*: one tick per `Reset`, not before its time, and none of an earlier one.
- *Round-trip estimate and durations*: blocks come a block time apart and a view
  is given up only when its primary does not run.
- *Payloads and blocks*: a request has one hash and all that prepare it build one
  header, however it has travelled.
- *Configuration*: what is accepted has every callback that will be called.

## 2. Modules

| module | content |
|---|---|
| `DbftContext` | constants and their assumptions, payloads, the context record, its predicates, `reset`, the cache |
| `DbftHandlers` | every handler as an operator from a context to a context, the recovery message |
| `Dbft` | the network: nodes, messages, ledgers, crashes, Byzantine validators; `Next`, fairness |
| `DbftProperties` | the properties of `Dbft`, and the inductive invariants of the proofs |
| `Chain` | the abstract specification of the ledgers: chains that grow by one block and never disagree |
| `DbftProofs` | what each handler preserves of `CommitsBind`; the invariant is inductive; types and commits; then the same for timer, cache and proposals, with the invariant over the stack |
| `PromiseProofs` | what each handler preserves of `PromisesKept`; the invariant is inductive; the theorems on preparations, pre-commits and commits |
| `AgreementProofs` | networks of correct validators: what each handler preserves of `Certified`, quorums, agreement, the refinement of `Chain`; certificates with up to F faulty validators |
| `VettingProofs` | what each handler preserves of `Vouched`; nothing that fails its checks is prepared; then the same for `Stocked`: no handler panics, no missing transaction is forgotten |
| `Timer` | the default timer, field by field, as operators |
| `Alarm` | the abstract specification of the `Timer` interface |
| `TimerAlarm` | the timer against any sequence of calls; the proof that it implements `Alarm` |
| `Pacing` | the durations behind the timer calls of the handlers, `lastBlockTime`, the round-trip estimate |
| `TimedDbft` | `Dbft` with `Timer`, `Pacing` and the event loops and channels of the simulation; implements `Dbft` |
| `TimedProofs` | what each handler notes of its timer, the fold over the notes, the invariant of `TimedDbft`; its steps are steps of `Dbft` |
| `Wire` | what becomes of a proposal as a payload, as bytes, in a recovery message, and as a header that is signed |
| `WireProofs` | the Merkle tree and the sum of PreCommits for any lists and sets; the invariant of `Wire` and its five theorems |
| `Config` | options and `checkConfig` against the callbacks that are called, with proofs |
| `MCDbft`, `MCNode`, `MCTimed`, `MCWire` | values of constants: several nodes; one node against Byzantine validators; the timed network; proposals |

`Dbft` composes the handlers of all nodes, `TimedDbft` composes `Dbft` with a timer
and a clock per node. `Wire` and `Config` stand apart: the first justifies what the
payloads of `DbftContext` abstract from, the second concerns the construction of a
node.

Definitions keep the names of the Go functions. `d` is the context of a node
(`Context` and `DBFT` in one record), `r` the node, `e` what the callbacks return
while the handler runs. A Go function that changes the context is an operator
that returns the new one; a broadcast is an element of `d.out`, which the action
moves to the network. Definitions that start with the comment "Mutant:" are
faulty variants that no other definition uses; each breaks one property
(`PROJECT.json`, `mutants`), which shows that the property depends on the code.

### Correspondence and abstractions

- *Handlers are atomic up to reentrancy.* The remaining work of a reentrant
  call is on the stack `d.todo`; `ContinueReplay` and the other `Continue`
  actions run it to its end before any other event (`Idle`). The order in which
  a map is replayed is arbitrary, as it is in Go.
- *Data.* `proposal` stands for the timestamp, nonce and transaction list of a
  request and for its hash. A header is (view, proposal): every `Fill` draws a
  fresh random nonce, so two views never build the same header, and a signature
  is represented by the header it covers. `Transactions` holds only hashes.
- *The callbacks* `GetTx`, `GetVerified`, `ProcessPreBlock` and `ProcessBlock`
  return anything; `VerifyPrepareRequest` and `VerifyBlock` fail on the sets
  `Rejected` and `Invalid`; the `Verify*` callbacks of the other payloads fail on
  those of the validators in `Refused`. Without the anti-MEV extension the code
  ends the process when `ProcessBlock` fails, so there it succeeds.
- *The end of `initializeConsensus`* (`armTimer`) is an item of `d.todo` that carries the view it was
  called with: the code chooses the timeout by that parameter (`dbft.go:142-148`) and sets the timer for
  the view of the context, and the replay in between may have changed it.
- *The timer* is, in `Dbft`, the height and the view of the tick that is to come; a
  tick may come at any moment. What a handler asks of the clocks (`changeTimer`,
  `extendTimer`, `rtt.addTime`, ...) is listed in order in `d.calls`. `TimedDbft`
  interprets the list with the durations of `Pacing` and the timer of `Timer`, and
  `ImplementsDbft` says that it only restricts `Dbft`.
- *Assertions.* An index out of range, and a response that finds one in the primary's slot, set
  `panicked`, which ends the node. With the repository's payload type the type assertion of
  `GetPrepareRequest` (`consensus_message.go:84`) panics there already, before the `DPanic` of
  `dbft.go:499`; with another one and a production logger `DPanic` only logs.
- *Network.* `msgs` only grows and a payload of it may be delivered at any time,
  any number of times, or never. A Byzantine validator sends any payload of
  `Injected` in its own name; what its recovery messages say of others must have
  been sent by them (`Authentic`), because every packed payload carries its
  witness in a real network.
- *Ledger.* `ProcessBlock` appends the header; a ledger may also take the next
  block from another node (`SyncBlock`), after which the caller calls `Reset`.
- *Views* are bytes: every addition is `% ViewSize`.
- *Payloads* of `Dbft` are compared as values. That a request keeps its hash, that
  responses restored from one hash are genuine, and that one proposal makes one
  header is what `Wire` checks on the contents: timestamps, nonce, list of
  transactions, Merkle root, the data of PreCommits, Go values or bytes.
- *Time* in `TimedDbft` is a natural number that all nodes share, because a node
  only uses differences of its own times. Handlers take no time; what is due is
  done before the clock goes on. A payload for node r is due `MaxDelay[r]` after it
  was sent. A broadcast puts it at the end of the channel of each other node,
  and it is lost when the channel is full. What one handler broadcasts is deposited
  in the order of its phases (a request before the commit that follows it), within one phase in
  any order.
- *The channel of the default timer* has one slot. `ch` counts the tick in it and one that a `Reset`
  waits to send, so that 2 stands for a `Reset` that blocks; `TimerInvariant` proves that no sequence
  of calls gets there, because `Reset` drains first.
- Left out: log lines, the reason of a ChangeView.

Bounds, all in guards of `Dbft`: `MaxHeight` (no height above it is opened),
`MaxView` (a ChangeView for a higher view is lost), `MaxMissing` (length of
`MissingTransactions`), `MaxRecoveries` (recovery messages on the network; the
others are lost).

Bounds of the other modules: `MaxTime` (the clock of `TimedDbft` stops; `EveryHeight`
must hold before that), `MaxRequests` and `Live` of `Wire` (requests the primary makes
in all its lives; validators that take part).

## 3. What is checked

| run | what runs | shows |
|---|---|---|
| `quorum` | N=4: two nodes, one Byzantine validator that votes for everything, one silent; views 0-1 | `Agreement`, `CommitOnce`, `OneCertificate`, `CommitLocks`, `CommitsBind`, `TypeOK`; `ImplementsChain`: the ledgers refine `Chain` |
| `heights` | N=2, heights 1-2, dynamic block time, empty and non-empty proposals, anti-MEV from height 2 | `CacheReplayed`, `TimerArmed`, `CommitsGenuine`, `EmptyBlockWaits`; `Stocked`: what a node knows of its proposal is complete; `Certified`: what a ledger accepts has its preparations and commits |
| `recovery` | N=2 and an observer that restarts: one node, one validator that follows the protocol by a script, views 0-2, up to two recovery messages | `RecoverySuffices`, `CommitsGenuine` |
| `node` | one node against three Byzantine validators: three proposals (two with missing transactions, one invalid), two views, refused payloads, a PreCommit nobody expects, recovery | `PrepareOnce`, `PreparesVerified`, `CacheReplayed`, `TimerArmed`, `NoPanic`, `MissingListed`, `CommitLocks` |
| `antimev` | the same with the extension: PreCommits and Commits of all three others, two views, failing callbacks | `CommitsBind`, `CommitAfterPreCommit`, `PromisesKept`, `TimerArmed`, `CommitLocks` |
| `liveness` | N=4: three nodes, one silent, view 0 | `CommittedLeadsToBlock` |
| `timed` | N=4: three nodes with clocks, validator 0 slow, validator 1 silent; heights 1-3 | `NoNeedlessViewChange`, `BlockPace`, `EveryHeight`, `ImplementsDbft` |
| `wire` | one primary that may send two requests, also after a restart, three backups; bytes or Go values; anti-MEV off or on | `RequestsKeepTheirHash`, `ResponsesGenuine`, `SignaturesVerify`, `HeadersTellRequests`, `TypeOK` |
| `restart` | N=2, no validator faulty, one restarts; views 0-1, two proposals | the counterexample to `Agreement` of section 5 |
| `early_commit`, `early_request`, `own_request` | small sets of payloads | the other counterexamples of section 5 |

Two kinds of network keep the state space of `Dbft` finite and still reach the
interesting cases. Runs with several nodes (`MCDbft`) exercise what needs more than
one honest party: quorums, recovery, heights. N=4 is the smallest network with F=1,
and two nodes plus one voter reach every quorum of three; N=2 (F=0, M=2) is the
smallest in which a node waits for another. Runs with one node (`MCNode`) put
it against three validators that may send each of some 20 payloads at any time
and repeatedly: that is every order of events the others could produce, so the
promises of one node are checked there. Two views are where all rules about views
differ (same, lower, higher); two heights where payloads come too early or too
late. The theorems below do not depend on any of these bounds.

In `recovery` the scripted validator asks for view 1 and for view 2, prepares in view 1, asks for
recovery and, like every validator in `Byzantine`, passes on only what others have sent. Three views are what
`RecoverySuffices` needs: in view 2 a node may have come there by ChangeViews restored from a recovery
message of view 1, and packs them again. The property stops there on purpose: from view 3 on a packed
ChangeView may ask for too little (section 5).

In `antimev` the other three send M PreCommits of view 0 between them, so a node may have M of them before
its own: `CommitAfterPreCommit` then rests on the check for the own PreCommit in `checkPreCommit`
(`check.go:89-94`). Two of them send M-1 Commits, so that `ProcessBlock` is reached and may fail.

In `node` the proposals with missing transactions belong to one view only, the next
view has no request; `early_request` shows what happens when it has.

`quorum` has `ViewSize` 4, because TLC enumerates the headers of `Chain`; it opens two views.

`timed` has `timePerBlock` 4, `maxTimePerBlock` 8, a channel of 100 as in the
simulation, one round-trip sample (`rttLength` 1, so that the average follows the
last measurement at once and the adjustment is not lost in rounding) and a clock
that stops at 50. Validator 0 gets everything up to two ticks late, so that responses
and commits arrive apart, the extensions matter, the adjustment by half a round trip
is not zero, and a request can reach it before it has reset to the new height and
wait in the cache. The primary of height 1 is the silent validator: that height
ends in view 1 after a change of view. Those of heights 2 and 3 are live and begin
their blocks by the clock. `NoNeedlessViewChange` speaks of view 0 of the heights above 1 and of nothing else:
at height 1 the timeout of a backup is cut to nothing whoever the primary is (section 5), and so it may be
in a later view. Within these delays the order in which nodes act and
payloads arrive is free, and it is this order that the run enumerates.

`wire` has ten nanoseconds in a second, three contexts that the primary may fill
(`MCWire`: times that are not whole seconds, no transactions, a list that ends in
the same hash twice), and two requests: a faulty primary sends the second as well (`Equivocate`), one that restarts
makes it as if it were the first. Any node may send a recovery message at any time. All four
validators take part without the anti-MEV extension, three with it; with four and the extension there are
more than two million states. `ResponsesGenuine` is stated until the primary restarts, the other four always.

### Liveness and fairness

`FairSpec` assumes of every node that a started handler returns, that the node
starts, and that while some payload on the network would change it, payloads keep
being delivered to it. The last is weak fairness of delivery; it stands for the
repeated recovery messages of committed validators (`onTimeout`) and the
answers to recovery requests, which carry a lost payload again until it arrives.
Timeouts, crashes and ledger synchronisation are not fair. The conditions are
spelled out (`[]<>~enabled \/ []<><<A>>_vars`) because that is much cheaper for TLC
than `ENABLED`.

`CommittedLeadsToBlock` is checked with `MaxView = 0`, that is as long as no
change of view gets through. With more views it does not hold: F+1 validators
may have committed in view 0 while another has moved to view 1, and neither side
has M. That lock is known (`src/formal-models/README.md`, section on the basic
dBFT 2.0 model). A node that has itself asked for a view change is included,
and is the case the property is about: `MoreThanFNodesCommittedOrLost` must
make it listen again.

`TimedFairness` assumes weak fairness of the clock (`Tock`), and that while a node has
something to do a step is taken: a node that is idle takes the next payload or the
tick (`select` in the event loop of the simulation). The fairness of the steps is spelled
out as above. Nothing is assumed of timers: that they fire is a consequence of the
clock. `EveryHeight` has delays below the timeouts and F silent validators. It is a
bounded response: the clock stops at `MaxTime`, and a state in which it has stopped
without the blocks violates the property.

## 4. What is proved

The theorems about `Dbft`, save the last seven of the table, hold for every number of validators, every set of Byzantine
ones (also more than F), every set of payloads they inject, any heights and views, with
and without the anti-MEV extension. A *correct* validator runs the library, is not
configured to watch and does not lose its state.

| theorem | module | says |
|---|---|---|
| `TypeCorrect` | `DbftProofs` | `Spec => []TypeOK` |
| `CommitsAreBinding` | `DbftProofs` | `Spec => []CommitsBind` |
| `CommitsAreUnique` | `DbftProofs` | `Spec => []CommitOnce`: a correct validator never signs two headers of one height |
| `TimerStaysArmed` | `DbftProofs` | `Spec => []TimerArmed`: no path through the handlers leaves a node without a timeout to come |
| `CacheIsReplayed` | `DbftProofs` | `Spec => []CacheReplayed`: nothing a node could use waits in its cache |
| `EmptyBlocksWait` | `DbftProofs` | `Spec => EmptyBlockWaits`: no empty proposal without a subscription before it |
| `PromisesAreKept` | `PromiseProofs` | `Spec => []PromisesKept`, the inductive invariant below |
| `CommitsLock` | `PromiseProofs` | `Spec => CommitLocks`: no step takes a validator that has (pre)committed out of its view or changes its own payload |
| `CommitsAreGenuine` | `PromiseProofs` | `Spec => []CommitsGenuine`: no node holds a commit of a correct validator that this validator has not made |
| `PreparesOnce` | `PromiseProofs` | `Spec => []PrepareOnce`: one proposal per view, whatever the primary sends |
| `CommitsFollowPreCommits` | `PromiseProofs` | `Spec => []CommitAfterPreCommit` |
| `BlocksAreCertified` | `AgreementProofs` | `Spec => []Certified`, if `Faultless` |
| `LedgersAgree` | `AgreementProofs` | `Spec => []Agreement`, if `Faultless` |
| `LedgersImplementChain` | `AgreementProofs` | `Spec => ImplementsChain`, if `Faultless` |
| `CertificatesAreUnique` | `AgreementProofs` | `Spec => []OneCertificate`, if at most F validators are not correct: no two headers of a height gather M signatures |
| `PreparationsAreVerified` | `VettingProofs` | `Spec => []PreparesVerified`, if more than F validators are correct: no correct validator backs what its checks refuse |
| `MissingStaysListed` | `VettingProofs` | `Spec => []MissingListed`, if `NoTraps`: a transaction that a backup lacks is one that `OnTransaction` takes |
| `NoHandlerPanics` | `VettingProofs` | `Spec => []NoPanic`, if `NoTraps` and `NoAmnesia` |

*Assumptions used*: `NAssumption` (N is a positive natural), `ObserversAssumption`
(observers are not validators), `TxAssumption`, `ViewSizeAssumption`,
`NilAssumption` (Nil is no payload, proposal or header), `FaultAssumption`
(Byzantine validators sign only for themselves) and `DraftsAssumption`. Three theorems
on ledgers have the hypothesis `Faultless` besides: every validator is correct. Payloads may
still be lost, late, repeated and reordered, a validator may stop for ever, callbacks may
fail, any view changes may happen, and the nodes that only follow may restart.
`CertificatesAreUnique` and `PreparationsAreVerified` count: at most F of the validators are
faulty, or more than F of them are correct (N = 3F + 1 or more, so the second asks for less than the
first). The last two have hypotheses about proposals and restarts, explained with `Stocked` below, and
none about how many are faulty.

*Commits.* `CommitOnce` alone is not inductive: a state in which a validator
has a commit on the network but an empty slot of its own satisfies it, and the
next step may sign again. `IInv == TypeOK /\ CommitsBind` adds what the code relies
on:

- `Sane(d)`, for every node: a stored request sits in the primary's slot and comes
  with its proposal; a stored commit sits in its sender's slot and is of this
  height; a processed block has a header;
- `Sworn(r, d, S)`, for every correct validator: it has either sent no commit at its
  height (`Free`) or it is `Bound`: it holds its own commit, all its commits of
  this height sign that header, and a request is there. With the anti-MEV
  extension, a commit of the current view also signs the header it would build
  now, so that `verifyCommitPayloadsAgainstHeader`, the only operation that drops
  commits, keeps it.

*The argument.* `makeCommit` returns the stored commit if there is one, so a bound
node can only repeat itself. It stays bound because nothing overwrites the slot
(`onCommit` ignores a second commit), `onChangeView` and `onRecoveryMessage` stop at
`CommitSent`, and `reset` clears the slot only at view 0, when the height grows and
no commit of the new height has been sent. A change of view through `sendChangeView`
is open to a bound node only with a block that fails verification, before a
response, and that requires a request that is not there yet, but a bound node has
one. `DbftProofs` states this operator by operator: `XSame` lemmas say that
a call changes nothing about commits, `XGood` lemmas that it preserves `Good`
(sane, only own payloads out, and sworn), and then has one lemma per action and
combines them. The commits travelling through recovery messages and the replays on
the stack need nothing else than the types of the stack, because `OnReceive`
preserves `Good` for any payload.

*Promises.* `PInv == IInv /\ PromisesKept` is the inductive invariant of `PromiseProofs`.
None of its theorems is inductive by itself: a commit that is genuine in a slot has been
genuine in a cache, a recovery message or a replay before, a second preparation is
excluded by what the context holds of the first. `PromisesKept` says, of what has been
broadcast and of every context,

- `Genuine`, of every payload on the network, in a slot, in a cache and on the stack of
  replays: a PreCommit or Commit of a correct validator, or the copy of one packed in a
  recovery message, has the signature which that validator made for that height. Views
  are left out on purpose, since `GetCommits` changes them;
- `Tidy`: the preparation in the primary's slot is of the stored proposal; below the
  enabling height there is no PreCommit and no processed PreBlock;
- `Consistent`, for correct validators: every preparation they have sent is of a lower
  height, of a lower view, or of the proposal they store now. This is why `sendPrepareRequest` and
  `onPrepareRequest` must both look at the slot of the request, and why only `reset`
  empties it;
- `Locked`, for correct validators: the own PreCommit and Commit in the slots are those sent; a
  PreCommit of this height is still in the slot, is of the current view and covers the stored
  proposal; a Commit of a height with the extension has its PreCommit on the network.

`PromiseProofs` has one lemma per operator. `Step` says that it leaves the node
`Fit` and keeps what was promised, `Still` that besides it stores nothing in the slots.
`sendChangeView` is the delicate one: a request that is refused, a block that fails, a
timeout and a change of view by the others all lead to it or to `checkChangeView`, and its
lemma needs the own slots empty (`Unlocked`). The callers see to that in two ways:
`onPrepareRequest` and `acceptPrepareRequest` run while no request is stored, and without
one a validator has not (pre)committed, by `Locked` and `CommitsBind`; `onChangeView`,
`onTimeout`, `OnTransaction` and `onRecoveryMessage` ask `CommitSent` and `PreCommitSent`.
It then lifts the lemmas to the actions,
also to the loss of recovery messages (`LostPayloads`), and takes from the
same step the action fact `Locks`, from which `CommitLocks` follows.

*Timer and cache.* `TimerArmed` and `CacheReplayed` speak of idle nodes, and a handler
that opens a view is in the middle of a replay when its operator returns. `RInv == IInv /\ Alert`
therefore speaks of every moment: the timer is armed for this height and view *or*
an `armTimer` is still on the stack (`Arming`, in `Ticking`), and no payload of this height and view is in
the cache (`Replayed`), because `initializeConsensus` moves the whole inbox from the
cache to the stack before it replays the first payload, and nothing of this height and view is cached
afterwards. The second half of `DbftProofs` relates the context before and after each operator:
`Steady` (same view: nothing leaves the stack, and the timer, if set, is set for this
view) and `Moves` (a view may be opened: then `armTimer` is pushed). A panicking node drops
its stack and is excluded. `EmptyBlockWaits` needs of each operator whether it can
broadcast a PrepareRequest (`Silent`, in `Quiet` and `Onward`): replays and `OnReceive`
never do, and `Timely` says of the others why they may.

*Agreement.* The usual proof takes the M commits of each of two blocks, finds a common
validator, and uses `CommitOnce`. It is not available: `checkCommit` counts every commit in
the slots that has the view of the node, a recovery message gives a commit of a lower view that
view (`GetCommits`), and the check against the header does not reach a commit that came before
the request (section 5, 1). So M commits that are counted need not be M signatures of one
header, and the common validator may have signed another one. What makes the ledgers agree all
the same is in which order validators prepare and commit.
`CInv == PInv /\ RInv /\ Certified` is inductive, where `Certified` says

- `Orderly`, of what has been broadcast: a PreCommit or Commit takes the preparations of M
  validators in its view, and no validator prepares in a later view than it has committed
  in. A commit is *carried* into view v if its sender has committed in v or earlier and
  somebody has committed in v (`Carried`): that is what is left of a commit that
  has travelled through recovery messages, because only a node that holds a commit of its own
  packs others and it packs them under the view it committed in;
- `Sincere`, of every payload on the network, in a cache and on the stack of replays: what it
  says of the preparations and commits of others is so in this sense;
- `Grounded`, of every context: the preparations in the slots are of the view of the node and have
  been sent, its commits are carried into that view or an earlier one, and its own is of that
  view; a processed block is `Decided`;
- every block on a ledger has been `Proposed` by the primary of its view and is `Decided`: somebody
  has committed in that view, and M validators in it or earlier.

Take blocks of views v < w at one height. M validators have committed by v, and M have prepared
in w, because somebody has committed there. Two sets of M out of N validators meet
(`QuorumsMeet`), so a validator has prepared in w after it had committed in v or earlier,
which `Orderly` excludes (`OneView`). Within a view the primary has made one proposal
(`OneProposal`, from `PromisesKept`), and a header is its view and its proposal. Hence
`CertifiedAgree`. For the refinement, `OneBlock` says that a step adds one block to one ledger or
none at all, and `NextAccepts` that the step is one of `Chain`, by agreement in the state after
it.

`AgreementProofs` has one lemma per operator, `Alike` and `Plain` saying that a call leaves the
slots alone and broadcasts nothing that signs, and `Sound(r, d, S)` being what a handler
preserves in the middle of its work. `checkPrepare` is where the quorum of preparations becomes
a Commit, `checkChangeView` where a validator without a commit leaves its view, and
`onRecoveryMessage` and `sendRecoveryMessage` where carried commits come and go. `BecomesCertified`
takes it to the network, with the recovery messages that are lost.

`Faultless` is needed. A Byzantine validator may sign headers of two views, and one whose
context is lost may prepare in a later view than it committed in; a recovery message of a
Byzantine validator may carry a commit into a view in which nobody has committed. In all three cases
the code relies on the signatures that the ledger behind `ProcessBlock` checks, and the model has no
such check. The run `quorum` checks `Agreement` for a network with an equivocating validator, the run `restart` shows that
one validator that loses its context is enough to break it (section 5), and
`CertificatesAreUnique` says what such a check gives: with at most F faulty validators,
which may sign anything, two sets of M signers share a correct validator (`QuorumsMeet` with
`Cardinality(Validators \ Correct) <= F`), and by `CommitOnce` that one has signed one header
of the height. So ledgers that take a block only with M signatures of it never disagree, whatever
the handlers count.

*Checks.* `PreparesVerified` needs to know where a correct validator may meet a proposal that is
`Unfit`: one that `VerifyPrepareRequest` or `Verify(Pre)Block` refuses and that no primary which runs
the library fills in. `VInv == PInv /\ RInv /\ Vouched` is inductive; `Vouched` says

- `Vouches`, of every payload on the network, in a slot, in a cache and on the stack: it is no
  preparation of a correct validator for an unfit proposal, nor a recovery message that would
  restore one. A recovery message has a single hash for all of its responses, so one with an unfit
  request must list no correct validator at all;
- `Backed`: no correct validator has (pre)committed to an unfit proposal;
- `Vetted`, of every node: the stored request is not of `Rejected`, because every way to a slot
  passes `onPrepareRequest`; while the stored proposal is unfit for its block, the slot of
  the primary holds the request itself and no correct validator has a preparation next to it.

The last is what `checkPrepare` needs: M preparations would include a correct one, as more than F
validators are correct. It survives because a block that fails leads to `rejectBlock` and not to a
response, on the way over the last transaction as well (`addTransaction`), and because
`updateExistingPayloads` drops the responses for another proposal. The proof takes genuine
signatures from `PInv` and the heights of replayed payloads from `RInv`.

*Panics and missing transactions.* A handler panics when a response comes and the preparation in the slot of
the primary is no request (`dbft.go:499`), or when it deletes an entry beyond the end of the list of missing
transactions (`dbft.go:187`). `NInv == PInv /\ RInv /\ Stocked` is inductive; `Stocked` says

- `Offers`, of every payload on the network, in a cache and on the stack: a proposal it brings
  verifies or is rejected first (no `Traps`), and if the primary of its view is correct, that
  primary has prepared there. A recovery message brings the request of its view's primary, whoever it is from;
- `Supplied`, of every node: the stored proposal verifies, and a correct primary of the view has prepared; what the node lacks of its
  transactions is listed in `MissingTransactions`; and, without restarts, the slot of the primary holds the
  request itself and nothing has panicked;
- `Found` and `Alone`: when `OnTransaction` comes to delete its entry, nothing else is left to do and the entry at
  its index is still that of the transaction it has added.

The last is the hard one. The code computes the index before `addTransaction`, which may answer, commit and
process the block, and opens a view only if the block fails its check. Duplicate entries, which
every recovery request of a node with missing transactions appends, do no harm, as the list need only
cover what is missing.

`NoTraps` says that nobody proposes a block that passes `VerifyPrepareRequest` and fails
`Verify(Pre)Block`: without it the index goes stale, and `early_request` is the counterexample (section 5).
`NoAmnesia` says that validators which run the library and take part do not lose their context: without it a
primary gets its own request back, and `own_request` is the counterexample. Both theorems hold for any number
of Byzantine validators that equivocate, restore, reorder and repeat. Both hypotheses hold in the runs `heights`,
which checks `Stocked`, `quorum`, `recovery` and `antimev`. They leave out `node`: there
an invalid proposal is among those injected, and the two properties are checked for it as long as no
request of the next view is there to be replayed.

`TimerAlarm` puts the timer against every sequence of `Reset` and `Extend` with
natural delays, receives and passing of time. It proves

- `TimerInvariant`: a `time.Timer` in use fires at the deadline `s + d` or both it and
  the deadline are past; without one the deadline is not ahead; the channel
  holds at most one tick, and only when it is due, and no `Reset` waits to send another;
- `TimerImplementsAlarm`: every step is a step of `Alarm` with the deadline `s + d` and
  `owed` true while a `time.Timer` has not been received from or, without one, the
  channel holds a tick. So a tick never comes before its time, a `Reset`
  takes back the tick of the one before, and one tick comes per `Reset` unless an
  `Extend` moves the deadline ahead again;
- `TickIsPrompt`: the receive from `C()` is possible exactly when a tick is owed and
  its deadline is over.

The invariant is what makes the mapping work: `Extend` decides by `s + d`, the runtime
by the moment the `time.Timer` was made for.

`WireProofs` proves all that the run `wire` checks, for every set of contexts the primary may
fill, transaction lists of any length, any M and any validators.

| theorem | says |
|---|---|
| `MerkleRootInjective` | lists that repeat no hash are told by their Merkle root |
| `PayloadTypes` | `Spec => []TypeOK` |
| `OneHash` | `Spec => []RequestsKeepTheirHash` |
| `ResponsesAreGenuine` | `Spec => []ResponsesGenuine`: until the primary restarts, however many requests it sends |
| `SignaturesAreVerified` | `Spec => []SignaturesVerify` |
| `HeadersTell` | `Spec => []HeadersTellRequests` |

*Assumptions used*: `ValidatorsAssumption` (the validators are finitely many numbers, the
primary is none of the backups), `NumbersAssumption` (a second has a nanosecond at least),
`FillsAssumption` (`Fill` makes its list, which may be empty but is not nil,
`context.go:328`) and `NilAssumption`.

The inductive invariant `WInv` says `NodeOK` of every node:

- context and request tell the same, the time below a second aside, and a backup has its
  context from the request (`ContextOK`);
- the request hashes like one the primary has made (`Known`);
- the responses a node keeps are from backups that have responded to something, and a backup with a
  request keeps none for another one; until the primary restarts they have been sent as they are, and the
  primary keeps none for another request either (`ResponsesOK`). Without the last a recovery message, which has one
  hash for all of its responses, restores a response its sender has not made, and after a restart it does:
  `sendPrepareRequest` does not look at the responses it finds (section 5);
- a backup that has sent a response keeps it, with that request and all of its transactions
  (`PromiseOK`). `HeadersTellRequests` needs it, and so does a backup whose own response
  comes back to it;
- a header is the one `Expected` of the request, and signed (`HeaderOK`). With the
  extension this takes `HeaderOfRequest`: M PreCommits are taken from however many there
  are (`FirstMSize`, by the rank of the senders), and their sum is M times the same number
  whoever they are from (`SumOfEqual`).

*The tree.* `Levels` is a recursive function of the height in the tree. `BuildTreeInjective`
takes two trees with one root and the lowest level they have in common. Below it, one
level up from the leaves or more, `ParentsInjective` finds another common one: nodes of a
level differ, so the last node paired with itself is no pair of two nodes. One tree cannot
end there while the other goes on, since leaves are not pairs. Induction over data is out
of the prover's reach as an induction principle, whose predicate is a parameter; these
three proofs, and the existence of the recursive functions (`LevelsDefined`, `SumOfEqual`),
take the least number for which the claim is wrong instead (`LeastNumber`).

`Config` proves, for every set of options, enabling height and block index, that
`checkConfig` asks for exactly what the handlers call without a check for nil:
`AcceptedConfigIsComplete` and `RefusedConfigIsIncomplete`.

*The timed network.* `TimedProofs` proves that `TimedDbft`, with any delays, durations, sizes of the
channels and bounds, does nothing that `Dbft` does not do.

| theorem | says |
|---|---|
| `TimedImplements` | `TimedSpec => ImplementsDbft`: whatever the theorems say of `Spec` holds of the network with clocks and channels |

Besides the assumptions of `Dbft` it uses `ChannelAssumption` (delays and the size of a channel are
naturals). The refinement is not a matter of form: `Dbft` has a tick for the height and the view of
the *context's* note of the timer (`ctx[r].timer`), `TimedDbft` one of the *Timer*, with the height and
view that `Height()` and `View()` return when the tick is received. That the two agree is the
conjunct `Clocked` of `TInv == RInv /\ Clocked /\ Mailed`, and it depends on every handler
noting each of its calls in order:

- `Noted(c, d)`, proved of every operator of `DbftHandlers`: from c the handler has made calls of known
  names, and the timer of d has the height and view of the last `Reset` among them, or that of c if
  there is none;
- `AfterCallsShows`: after any list of calls the Timer shows the last `Reset` in the list. It is an
  induction over the list, as is the existence of the recursive function in `AfterCalls`
  (`RunExists`); both take the least number for which the claim fails (`NatMin`);
- `Mailed`: a channel holds only what has been broadcast and is not beyond `MaxView`.

`OnTimeoutMaps` is the step with a case of its own: a tick may come while the note of the context is
not armed. By `Alert` (above) the node then only watches or has processed its block, `onTimeout`
returns at once, and the step is a stutter of `Dbft`.

*Not proved, model-checked only*:

- `Agreement` and the refinement of `Chain` with faulty validators (`quorum`): for the reason given
  above they do not hold of every constant for which the other theorems do. With validators that restart they
  are false (`restart`).
- `NoPanic` and `MissingListed` in a network with an invalid proposal that passes
  `VerifyPrepareRequest` (`node`): beyond the hypotheses of `NoHandlerPanics` and `MissingStaysListed`
  they hold for some proposals only.
- `RecoverySuffices`, which is stated of views 1 and 2 and of validators that ask for the view after their own.
- `ResponsesGenuine` after a restart of the primary is neither proved nor checked: it is false.
- `NoNeedlessViewChange` and `BlockPace` relate the delays and the block time that `timed` has; with
  delays beyond the timeouts neither holds. That the timer calls reach the clock in order is proved
  (`AfterCallsShows`), what the durations add up to is not.
- Liveness with fairness, which is beyond the prover, as is `ENABLED`. (`EntriesAt` is
  written without recursion so that no proof needs an induction over it.)

## 5. Where code and comments disagree

1. *Early commits are not verified* (`early_commit`; `dbft.go:356`).
   `updateExistingPayloads` runs before the request is stored, so no header can be
   built and the check of the commits received so far does nothing, contrary to
   `dbft.go:412-413` and `context.go:77-80`. No faulty validator is needed: `GetCommits`
   gives a commit of a lower view the view of the recovery message
   (`recovery_message.go:151`). The commit counts: with seven validators that all follow the
   protocol, let one commit in view 0 and the other six go on to view 1. One of them that has
   committed there and holds the commit of view 0 answers a recovery request, and a node of view 1 that has
   no request yet stores that commit as one of view 1. Given the request and the preparations it
   processes the block with that commit and four of view 1, which is one signature short of
   the five that the header needs. The block itself is the right one (`LedgersAgree`): no other
   can be made at this height.
2. *A stale index* (`early_request`; `dbft.go:187`). The index of the transaction is
   used after `addTransaction` may have opened a view with another proposal; a
   transaction that is still missing is dropped from the list.
3. *A primary that restarts answers itself* (`own_request`; `dbft.go:499`). It gets its
   own request from a recovery message and responds to it, and the next
   response finds no request in its slot.
4. *A primary that restarts counts votes for another proposal* (`restart`; `send.go:45`). `sendPrepareRequest`
   stores the own request and leaves the responses and commits that came before it where they are; only
   `onPrepareRequest` validates them ("updateExistingPayloads is called _only_ from onPrepareRequest",
   `dbft.go:412`). In the run the primary of view 1 proposes, the other validator responds and commits and, with the commit of
   the primary, accepts the block. The primary restarts, gets to view 1 again, receives the ChangeView, the response
   and the commit of the other once more, and proposes another block at its timeout: it counts both for that
   one, and its ledger differs from the other one at the same height. "No fork must happen", says
   `formal-models/README.md:57`; nodes that fail there never come back, whereas `context.go:216-217` thinks of one that
   "crashes and comes back". The run has two validators because that is the smallest network in which it
   happens. In a larger one the validator that restarts counts the stale votes of all others in the same
   way, and the ledger that goes wrong is its own. Where a ledger verifies the signatures of the block
   it refuses this one (`CertificatesAreUnique`), and without the anti-MEV extension the process then ends in
   `Logger.Fatal` (`check.go:145`).

Read in the code or met while modelling, without a run of their own:

- `Start` lets a primary propose that is configured to watch only (`dbft.go:78`).
- At genesis `lastBlockIndex` is 0 and `lastBlockTime` the zero time, so that every
  timeout of height 1 is cut to 0 (`dbft.go:152`), contrary to "In both cases we should
  wait full timeout value" (`dbft.go:143-144`): a backup gives up view 0 of height 1 at once, also when its
  primary is live. TLC finds it when `NoNeedlessViewChange` is stated of height 1 and the silent validator is another one. The cut
  is taken in later views of any height too: when view 0 was given up late, nothing is left of
  the timeout of view 1, and a backup may ask for view 2 before it has heard of a live primary.
- Without the anti-MEV extension an error of `ProcessBlock` ends the process
  (`check.go:145`), while `config.go:333-334` calls it a no-op.
- For the same reason as in 4 the recovery messages of a primary that has restarted offer the responses to its first
  request under the hash of its second: `ResponsesGenuine` does not hold after a restart.
- A recovery message forgets the view a ChangeView asks for and restores the next one
  (`recovery_message.go:51`); recovered twice, the ChangeView asks for more than its
  sender did (`recovery_message.go:121`), or for less: one for view 3 that has travelled through a recovery message
  of view 1 asks for view 2, so that TLC finds recovery messages of view 3 that do not take their receiver
  there. The ChangeViews then have to be sent once more.
- As bytes, a recovery message with a request restores no responses (the hash is
  not written) and no PreCommits, and the decoder knows no PreCommit. An empty
  proposal comes back with a nil list, for which there is no block
  (`consensus.go:61`). The simulation passes Go pointers and meets none of this.
- `block.go:97` wants the Merkle root to be an injection; it is not (the last node
  of an odd level is paired with itself), but two requests that are both answered
  still differ in it, because the longer list repeats a hash
  (`HeadersTellRequests`, and for lists of any length `MerkleRootInjective`).
- The first sample of each slot of the round-trip estimate is not capped
  (`rtt.go`).
- The cached payloads of a height that is skipped stay in the cache
  (`helpers.go:34`).

## 6. Not modelled

- The byte layout of payloads and the errors of malformed bytes: pure data. What
  the encoding loses is in `Wire`.
- Hashing, ECDSA and key generation are libraries: a hash stands for what it is
  taken of, a signature for its signer and what it covers.
- The accessors of the example types, the codec of a transaction.
- The memory pool, the command line, logger and profiler of the simulation.
  Whether a transaction is there is a choice of the callbacks in `Dbft`.
- The repository's own `formal-models/`: they specify the protocol, this development
  the code.

## 7. Plan

1. *Done*: `DbftContext`, `DbftHandlers`, `Dbft`, `Chain`, with commits proved unique and
   binding.
2. *Done*: `Timer` and its refinement of `Alarm`; `Pacing`; `TimedDbft` and its
   refinement of `Dbft`; `Wire`; `Config`.
3. *Done*: timer, cache and proposals in `DbftProofs`, and `PromiseProofs`.
4. *Done*: `WireProofs`.
5. *Done*: `AgreementProofs`, with the refinement of `Chain`.
6. *Done*: `TimedProofs`, the steps of `TimedDbft` as steps of `Dbft`.
7. *Done*: `VettingProofs`, with panics and missing transactions.
8. *Done* as far as it concerns the commits that are sent: `OneCertificate`. A ledger that checks the
   signatures of the blocks it is given remains.
9. What the durations of `Pacing` add up to, for delays below the timeouts.
10. The views after which a recovery message is enough, for ChangeViews that have travelled through any
   number of recovery messages; a timed run whose height 1 has a live primary, once the timeout there is settled.
