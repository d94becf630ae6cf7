------------------------------- MODULE MCNode -------------------------------
(***************************************************************************)
(* A few nodes that run the library against validators that may send       *)
(* anything of Injected in any order: the promises of a single node must   *)
(* hold whatever the others do.  There are four validators; at height 1    *)
(* validator 1 is the primary of view 0 and validator 0 that of view 1.    *)
(***************************************************************************)
EXTENDS DbftProperties

CONSTANTS
    p0, p1, bad,    \* proposals
    t0, t1          \* transactions

NoTransactions == [p \in Proposals |-> <<>>]

\* p0 needs both transactions, bad only the second.
SomeTransactions ==
    [p \in Proposals |-> IF p = p0 THEN <<t0, t1>>
                         ELSE IF p = bad THEN <<t1>>
                         ELSE <<>>]

Disabled == -1

Header1(v, p) == [view |-> v, proposal |-> p]

Requests == {PrepareRequestMsg(1, 0, 1, p) : p \in Proposals}

\* Those of validator 3 are refused, the primary responds to itself.
Responses ==
    {PrepareResponseMsg(1, 0, 2, p) : p \in {p0, p1}}
        \cup {PrepareResponseMsg(1, 1, 2, p0)}
        \cup {PrepareResponseMsg(1, 0, i, p0) : i \in {1, 3}}

CommitVotes ==
    {CommitMsg(1, v, 2, Header1(v, p0)) : v \in {0, 1}}
        \cup {CommitMsg(1, 0, i, Header1(0, p1)) : i \in {1, 2}}

PreCommitVotes ==
    {PreCommitMsg(1, 0, i, Header1(0, p0)) : i \in Byzantine}
        \cup {PreCommitMsg(1, 1, i, Header1(1, p0)) : i \in {2, 3}}

ChangeVotes == {ChangeViewMsg(1, 0, i, 1) : i \in Byzantine}

\* A recovery message of validator 3, gone to view 1 with the ChangeViews of
\* `changers`, with what it has of the preparations of view 1 and of the commits.
RecoveryOf3(changers, request, responses, commits) ==
    [type |-> "RecoveryMessage", height |-> 1, view |-> 1, from |-> 3,
     prepareRequest |-> request,
     preparationPayloads |-> responses,
     changeViewPayloads |-> {[from |-> i, view |-> 0] : i \in changers},
     preCommitPayloads |-> {},
     commitPayloads |-> commits]

CommitOf(i) == {[from |-> i, sign |-> Header1(0, p0)]}

AnyOrder ==
    Requests \cup Responses \cup CommitVotes \cup ChangeVotes
        \cup {RecoveryOf3(1 .. 3, Nil, {}, CommitOf(2)), RecoveryRequestMsg(1, 0, 3)}
        \cup {PreCommitMsg(1, 0, 2, Header1(0, p0))}

AnyOrderAntiMEV ==
    Requests \cup {PrepareResponseMsg(1, v, i, p0) : v \in {0, 1}, i \in {2, 3}}
        \cup PreCommitVotes \cup ChangeVotes
        \cup {CommitMsg(1, 0, i, Header1(0, p0)) : i \in {2, 3}}

-----------------------------------------------------------------------------
(* Small sets for the runs that show a disagreement.                        *)

\* Validator 1 has committed in view 0, the others go to view 1, where validator
\* 3 offers that commit to node 2 before it gets the request.
EarlyCommit ==
    {ChangeViewMsg(1, 0, i, 1) : i \in {0, 3}}
        \cup {RecoveryOf3({0, 2, 3}, Nil, {}, CommitOf(1)), PrepareRequestMsg(1, 1, 0, p1)}

\* The proposal of view 0 does not verify, that of view 1 is here already.
EarlyRequest ==
    {PrepareRequestMsg(1, 0, 1, bad), PrepareRequestMsg(1, 1, 0, p0)} \cup ChangeVotes

\* Validator 3 offers validator 0 its own request of view 1.
OwnRequest ==
    ChangeVotes \cup {RecoveryOf3(1 .. 3, p0, {2}, {})}
=============================================================================
