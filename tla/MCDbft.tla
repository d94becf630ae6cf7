------------------------------- MODULE MCDbft -------------------------------
(***************************************************************************)
(* Values for the constants of Dbft that a configuration cannot write.     *)
(***************************************************************************)
EXTENDS DbftProperties

CONSTANTS p0, p1    \* proposals

NoTransactions == [p \in Proposals |-> <<>>]

\* p1 proposes a transaction, p0 is an empty block.
EmptyOrNot == [p \in Proposals |-> IF p = p1 THEN <<p0>> ELSE <<>>]

\* AntiMEVExtensionEnablingHeight of a network without the extension.
Disabled == -1

\* A Byzantine validator that votes for everything: it prepares and commits
\* every proposal of every view of height 1 and asks for every view change.
Voter == N - 1

EveryVote ==
    UNION {{PrepareResponseMsg(1, v, Voter, p),
            CommitMsg(1, v, Voter, [view |-> v, proposal |-> p]),
            ChangeViewMsg(1, v, Voter, v + 1)} : v \in 0 .. MaxView, p \in Drafts}

\* Validator 1 of two, which follows the protocol: it asks for view 1 and then
\* for view 2, prepares the proposal of validator 0 in view 1 and asks for recovery.
Follower ==
    {ChangeViewMsg(1, v, 1, v + 1) : v \in {0, 1}}
        \cup {PrepareResponseMsg(1, 1, 1, p0), RecoveryRequestMsg(1, 0, 1)}

=============================================================================
