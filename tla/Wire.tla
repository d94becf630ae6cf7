-------------------------------- MODULE Wire --------------------------------
(***************************************************************************)
(* The payloads and blocks of internal/consensus: what a proposal becomes  *)
(* on its way from the primary to the header a backup signs, directly, as  *)
(* bytes, or inside a recovery message.  The handlers of DbftHandlers take *)
(* a proposal for one value, its hash and its header; here are the         *)
(* conversions behind them: nanoseconds and seconds, gob, the hash of a    *)
(* payload, the Merkle tree, and the anti-MEV block made of PreCommit data.*)
(*                                                                         *)
(* One height, one view, one primary.  A hash is the content it is taken   *)
(* of, and a signature is the data it signs together with its signer.      *)
(***************************************************************************)
EXTENDS Integers, Sequences, FiniteSets, Functions

CONSTANTS
    Primary,     \* the validator that proposes, with a library of its own:
    Fills,       \* contexts it may fill: Timestamp, Nonce, TransactionHashes
    Backups,     \* the others
    M,           \* preparations, PreCommits and commits that are enough
    Index,       \* BlockIndex
    Second,      \* nanoseconds in a second
    MaxRequests, \* bound on the requests of the primary
    Live,        \* bound: those that take part, with the anti-MEV extension off
                 \* and on
    Nil          \* nil: a payload, a slice, a header

Nodes == Backups \cup {Primary}

Contexts ==
    [Timestamp : Nat, Nonce : Nat, TransactionHashes : {Nil} \cup Seq(Int)]

RequestPayloads ==
    [type : {"PrepareRequest"}, from : {Primary}, nonce : Nat, timestamp : Nat,
     transactionHashes : {Nil} \cup Seq(Int)]

ASSUME ValidatorsAssumption ==
    /\ Backups \subseteq Nat /\ IsFiniteSet(Backups)
    /\ Primary \in Nat \ Backups
    /\ Live \in [BOOLEAN -> SUBSET Nodes]

ASSUME NumbersAssumption == M \in Nat /\ Index \in Nat /\ Second \in Nat \ {0}

\* Fill makes its list, which may be empty but is not nil.
ASSUME FillsAssumption ==
    \A c \in Fills : c \in Contexts /\ c.TransactionHashes \in Seq(Int)

ASSUME NilAssumption ==
    Nil \notin Contexts /\ Nil \notin RequestPayloads /\ Nil \notin Seq(Int) /\ Nil # Index

VARIABLES
    encoded,     \* TRUE iff the network carries bytes instead of Go pointers
    antiMEV,     \* TRUE iff the anti-MEV extension is on
    node,        \* node[r] is what r keeps of the round
    sent,        \* payloads broadcast so far
    restarted    \* TRUE iff the primary has lost its context (history)

vars == <<encoded, antiMEV, node, sent, restarted>>

-----------------------------------------------------------------------------
(* Payloads and their encoding.                                             *)

secToNanoSec(s) == s * Second

nanoSecToSec(ns) == ns \div Second

\* makePrepareRequest with NewPrepareRequest: the payload counts in seconds.
NewPrepareRequest(c) ==
    [type |-> "PrepareRequest", from |-> Primary, nonce |-> c.Nonce,
     timestamp |-> nanoSecToSec(c.Timestamp),
     transactionHashes |-> c.TransactionHashes]

\* What onPrepareRequest puts into the context.
Proposal(m) ==
    [Timestamp |-> secToNanoSec(m.timestamp), Nonce |-> m.nonce,
     TransactionHashes |-> m.transactionHashes]

\* gob leaves out a field with no elements, so that an empty slice becomes nil.
Gob(s) == IF s = <<>> THEN Nil ELSE s

EncodeDecode(m) == [m EXCEPT !.transactionHashes = Gob(@)]

\* Hash of a payload: the digest of its encoding, with nothing on top of it.
Hash(m) == EncodeDecode(m)

\* The decoder knows no PreCommits.
Decodable(m) == m.type # "PreCommit"

Received(m) ==
    IF encoded /\ m.type = "PrepareRequest" THEN EncodeDecode(m) ELSE m

-----------------------------------------------------------------------------
(* Blocks.                                                                  *)

\* One level of the Merkle tree above s: the last node of an odd level is
\* paired with itself.
Parents(s) ==
    [i \in 1 .. (Len(s) + 1) \div 2 |->
        <<s[2 * i - 1], IF 2 * i > Len(s) THEN s[2 * i - 1] ELSE s[2 * i]>>]

\* The levels of the tree, from the leaves on; above the root nothing changes.
Levels(leaves) ==
    LET level[k \in 0 .. Len(leaves)] ==
            IF k = 0 THEN leaves
            ELSE IF Len(level[k - 1]) = 1 THEN level[k - 1]
            ELSE Parents(level[k - 1])
    IN  level

buildTree(leaves) == Levels(leaves)[Len(leaves)][1]

\* The root of no hashes, <<>>, is the zero hash.
MerkleRoot(s) == IF s = <<>> THEN <<>> ELSE buildTree([i \in DOMAIN s |-> <<s[i]>>])

\* Mutant: the block keeps the precision of the context.
NewPreciseBlock(c) ==
    [Timestamp |-> c.Timestamp, Index |-> Index, ConsensusData |-> c.Nonce,
     MerkleRoot |-> MerkleRoot(c.TransactionHashes)]

\* NewBlock, and NewPreBlock likewise: the fields that are hashed and signed.
NewBlock(c) ==
    [Timestamp |-> c.Timestamp \div Second, Index |-> Index,
     ConsensusData |-> c.Nonce, MerkleRoot |-> MerkleRoot(c.TransactionHashes)]

\* newBlockFromContext and newPreBlockFromContext: no block without hashes.
newBlockFromContext(c) == IF c.TransactionHashes = Nil THEN Nil ELSE NewBlock(c)

Have(payloads) == {i \in Nodes : payloads[i] # Nil}

\* The first M senders of PreCommits, in the order of the validators.
FirstM(payloads) ==
    {i \in Have(payloads) : Cardinality({j \in Have(payloads) : j <= i}) <= M}

\* NewAMEVBlock: the PreBlock with one transaction more, made of the data.
NewAMEVBlock(c, payloads) ==
    LET tx == -1 - SumFunctionOnSet(payloads, FirstM(payloads))
    IN  [NewBlock(c) EXCEPT !.MerkleRoot = MerkleRoot(Append(c.TransactionHashes, tx))]

\* Mutant: the data of a PreBlock before SetData.
Canary == 255

\* SetData of the PreBlock, and its Verify.
SetData == Index

VerifyPreCommit(data) == data = Index

Sign(r, header) == [by |-> r, data |-> header]

VerifySignature(r, header, signature) == signature = Sign(r, header)

-----------------------------------------------------------------------------
(* What a node keeps: the context and payload of the request (its own for   *)
(* the primary), and the payloads of the others.                            *)

NewNode ==
    [context |-> Nil, request |-> Nil,
     responses |-> [i \in Nodes |-> Nil],    \* the hashes they confirm
     preCommits |-> [i \in Nodes |-> Nil],   \* their data
     header |-> Nil, commit |-> Nil]

Hashes(c) == IF c.TransactionHashes = Nil THEN <<>> ELSE c.TransactionHashes

\* Mutant: it is enough that every hash has its transaction.
hasEveryTransaction(c) == TRUE

\* hasAllTransactions once GetTx has found every hash: Transactions is a map.
hasAllTransactions(c) ==
    Len(Hashes(c)) = Cardinality({Hashes(c)[i] : i \in DOMAIN Hashes(c)})

\* Preparations of the request, the primary's own included.
Prepared(n) ==
    n.request # Nil /\ Cardinality({Primary} \cup Have(n.responses)) >= M

\* No header without a block or, with the extension on, a processed PreBlock.
MakeHeader(n) ==
    IF antiMEV /\ newBlockFromContext(n.context) # Nil
    THEN NewAMEVBlock(n.context, n.preCommits)
    ELSE newBlockFromContext(n.context)

Init ==
    /\ encoded \in BOOLEAN
    /\ antiMEV \in BOOLEAN
    /\ node = [r \in Nodes |-> NewNode]
    /\ sent = {}
    /\ restarted = FALSE

RequestsOf(S) == {m \in S : m.type = "PrepareRequest"}

Propose(c) ==
    LET msg == NewPrepareRequest(c)
    IN  /\ node[Primary].request = Nil
        /\ Cardinality(RequestsOf(sent \cup {msg})) <= MaxRequests
        /\ node' = [node EXCEPT ![Primary].context = c, ![Primary].request = msg]
        /\ sent' = sent \cup {msg}
        /\ UNCHANGED <<encoded, antiMEV, restarted>>

\* A faulty primary sends another request of the view; it keeps the first.
Equivocate(c) ==
    /\ node[Primary].request # Nil
    /\ sent' = sent \cup {NewPrepareRequest(c)}
    /\ Cardinality(RequestsOf(sent')) <= MaxRequests
    /\ UNCHANGED <<encoded, antiMEV, node, restarted>>

\* The primary stops and starts again with an empty context.
Restart ==
    /\ node[Primary].request # Nil
    /\ node' = [node EXCEPT ![Primary] = NewNode]
    /\ restarted' = TRUE
    /\ UNCHANGED <<encoded, antiMEV, sent>>

\* onPrepareRequest: responses to something else are dropped, and the request
\* is answered when every transaction is there.
accept(r, n, msg) ==
    LET kept == [i \in Nodes |->
                    IF n.responses[i] # Hash(msg) THEN Nil ELSE n.responses[i]]
        d == [n EXCEPT !.context = Proposal(msg), !.request = msg, !.responses = kept]
    IN  IF n.request # Nil
        THEN n
        ELSE IF hasAllTransactions(Proposal(msg))
        THEN [d EXCEPT !.responses[r] = Hash(msg)]
        ELSE d

\* onPrepareResponse: the hash is compared once there is a request.
confirm(n, from, hash) ==
    IF \/ from = Primary
       \/ n.responses[from] # Nil
       \/ n.request # Nil /\ Hash(n.request) # hash
    THEN n
    ELSE [n EXCEPT !.responses[from] = hash]

\* onPreCommit: the data is verified once there is a PreBlock.
preCommitted(n, from, data) ==
    IF \/ n.preCommits[from] # Nil
       \/ n.request # Nil /\ ~VerifyPreCommit(data)
    THEN n
    ELSE [n EXCEPT !.preCommits[from] = data]

\* The PrepareResponse node r has just made, if it has.
NewResponses(r, n) ==
    IF r \in Backups /\ n.responses[r] # node[r].responses[r]
    THEN {[type |-> "PrepareResponse", from |-> r, preparationHash |-> n.responses[r]]}
    ELSE {}

Becomes(r, n) ==
    /\ node' = [node EXCEPT ![r] = n]
    /\ sent' = sent \cup NewResponses(r, n)
    /\ UNCHANGED <<encoded, antiMEV, restarted>>

Deliver(msg, r) ==
    /\ msg.from # r
    /\ encoded => Decodable(msg)
    /\ CASE msg.type = "PrepareRequest" -> Becomes(r, accept(r, node[r], Received(msg)))
         [] msg.type = "PrepareResponse" ->
                Becomes(r, confirm(node[r], msg.from, msg.preparationHash))
         [] OTHER -> Becomes(r, preCommitted(node[r], msg.from, msg.data))

\* sendPreCommit of checkPrepare.
SendPreCommit(r) ==
    LET n == node[r]
    IN  /\ antiMEV
        /\ Prepared(n) /\ hasAllTransactions(n.context)
        /\ n.preCommits[r] = Nil
        /\ newBlockFromContext(n.context) # Nil
        /\ node' = [node EXCEPT ![r].preCommits[r] = SetData]
        /\ sent' = sent \cup {[type |-> "PreCommit", from |-> r, data |-> SetData]}
        /\ UNCHANGED <<encoded, antiMEV, restarted>>

\* sendCommit of checkPrepare or, with the extension on, of checkPreCommit.
SendCommit(r) ==
    LET n == node[r]
    IN  /\ n.request # Nil /\ n.commit = Nil
        /\ hasAllTransactions(n.context)
        /\ IF antiMEV
           THEN n.preCommits[r] # Nil /\ Cardinality(Have(n.preCommits)) >= M
           ELSE Prepared(n)
        /\ MakeHeader(n) # Nil
        /\ node' = [node EXCEPT ![r].header = MakeHeader(n),
                                ![r].commit = Sign(r, MakeHeader(n))]
        /\ UNCHANGED <<encoded, antiMEV, sent, restarted>>

-----------------------------------------------------------------------------
(* The recovery message: compact payloads, and what is made of them again.  *)

\* Mutant: the hash of some response does when there is no request.
addPreparationsWithHash(n) ==
    [prepareRequest |-> n.request,
     preparationHash |->
        IF n.request # Nil THEN Hash(n.request)
        ELSE IF Have(n.responses) = {} THEN Nil
        ELSE n.responses[CHOOSE i \in Have(n.responses) : TRUE],
     preparationPayloads |-> Have(n.responses),
     preCommitPayloads |-> n.preCommits]

\* makeRecoveryMessage with AddPayload: the hash comes with the request, a
\* response is its sender.
makeRecoveryMessage(n) ==
    [prepareRequest |-> n.request,
     preparationHash |-> IF n.request # Nil THEN Hash(n.request) ELSE Nil,
     preparationPayloads |-> Have(n.responses),
     preCommitPayloads |-> n.preCommits]

\* EncodeBinary and DecodeBinary: with a request the hash is not written, and
\* the PreCommits never are.
Transmitted(rm) ==
    IF ~encoded
    THEN rm
    ELSE [rm EXCEPT
            !.prepareRequest = IF @ = Nil THEN Nil ELSE EncodeDecode(@),
            !.preparationHash = IF rm.prepareRequest # Nil THEN Nil ELSE @,
            !.preCommitPayloads = [i \in Nodes |-> Nil]]

\* Mutant: the time of the request, in nanoseconds, is taken for seconds.
GetPreciseRequest(rm) ==
    [rm.prepareRequest EXCEPT !.timestamp = secToNanoSec(@)]

GetPrepareRequest(rm) ==
    [rm.prepareRequest EXCEPT !.timestamp = nanoSecToSec(secToNanoSec(@))]

\* The senders of the responses that are made again, all of the same hash.
GetPrepareResponses(rm) ==
    IF rm.preparationHash = Nil THEN {} ELSE rm.preparationPayloads

\* onRecoveryMessage: the request and the responses, unless the node has
\* committed or pre-committed, and then the PreCommits.
recovered(r, rm) ==
    LET locked == node[r].commit # Nil \/ node[r].preCommits[r] # Nil
        asked == IF locked \/ rm.prepareRequest = Nil
                 THEN node[r]
                 ELSE accept(r, node[r], GetPrepareRequest(rm))
        responders == IF locked THEN {} ELSE GetPrepareResponses(rm)
        answered ==
            [asked EXCEPT !.responses =
                [i \in Nodes |->
                    IF i \in responders
                    THEN confirm(asked, i, rm.preparationHash).responses[i]
                    ELSE @[i]]]
    IN  [answered EXCEPT !.preCommits =
            [i \in Nodes |->
                IF rm.preCommitPayloads[i] = Nil
                THEN @[i]
                ELSE preCommitted(answered, i, rm.preCommitPayloads[i]).preCommits[i]]]

\* Backup r receives the recovery message of s.
Recover(s, r) ==
    /\ s # r
    /\ Becomes(r, recovered(r, Transmitted(makeRecoveryMessage(node[s]))))

Next ==
    \/ \E c \in Fills : Propose(c) \/ Equivocate(c)
    \/ Restart
    \/ \E r \in Live[antiMEV] : \E msg \in sent : Deliver(msg, r)
    \/ \E r \in Live[antiMEV] : SendPreCommit(r)
    \/ \E r \in Live[antiMEV] : SendCommit(r)
    \/ \E s \in Live[antiMEV], r \in Backups \cap Live[antiMEV] : Recover(s, r)

Spec == Init /\ [][Next]_vars

-----------------------------------------------------------------------------
(* What the conversions must keep.                                          *)

\* The type invariant; headers and hashes are whatever they are taken of, and
\* the data of a PreCommit is what SetData makes and Verify expects.
TypeOK ==
    /\ encoded \in BOOLEAN /\ antiMEV \in BOOLEAN
    /\ DOMAIN node = Nodes
    /\ \A r \in Nodes :
        /\ node[r].request \in RequestPayloads \cup {Nil}
        /\ node[r].request = Nil <=> node[r].context = Nil
        /\ IF node[r].header = Nil
           THEN node[r].commit = Nil
           ELSE node[r].commit = Sign(r, node[r].header)
        /\ \A i \in Nodes : node[r].preCommits[i] \in {Index, Nil}
    /\ RequestsOf(sent) \subseteq RequestPayloads

\* A request hashes the same for everybody, however it has travelled: a copy
\* that is passed on in recovery messages, or has lost its empty slice in the
\* encoding, is still the request the primary has made, so that a response to
\* the one counts for the other (Hash, GetPrepareRequest).
RequestsKeepTheirHash ==
    \A r \in Nodes :
        node[r].request # Nil =>
            \E m \in RequestsOf(sent) : Hash(m) = Hash(node[r].request)

\* A recovery message has one hash for all the responses it restores; none of
\* them confirms a request its sender has not responded to, also when a faulty
\* primary has sent the nodes different requests or the sender of the message
\* has got none (AddPayload, GetPrepareResponses).  It is not so once the primary
\* has restarted: it may keep responses to its first request and then store its
\* second without looking at them (send.go:45), and offer them under the hash
\* of that one.
ResponsesGenuine ==
    \A r, i \in Nodes :
        ~restarted /\ node[r].responses[i] # Nil =>
            [type |-> "PrepareResponse", from |-> i,
             preparationHash |-> node[r].responses[i]] \in sent

\* Of all that commit to the same request each accepts the signature of each:
\* the primary that has filled the context itself, a backup that has it from
\* the request, and with the anti-MEV extension nodes that have built the block
\* from the PreCommits of different validators (NewBlock, NewAMEVBlock).
SignaturesVerify ==
    \A r, s \in Nodes :
        /\ node[r].header # Nil /\ node[s].header # Nil
        /\ Hash(node[r].request) = Hash(node[s].request)
        => VerifySignature(s, node[r].header, node[s].commit)

\* Two requests that are both answered never have the same header, so that a
\* commit is for one of them only: the Merkle tree does not tell a list from
\* the one with its last hash repeated, but that one is never complete
\* (buildTree, hasAllTransactions).
HeadersTellRequests ==
    \A r, s \in Backups :
        /\ node[r].responses[r] # Nil /\ node[s].responses[s] # Nil
        /\ newBlockFromContext(node[r].context) = newBlockFromContext(node[s].context)
        /\ newBlockFromContext(node[r].context) # Nil
        => Hash(node[r].request) = Hash(node[s].request)

=============================================================================
