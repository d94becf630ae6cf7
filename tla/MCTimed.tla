------------------------------- MODULE MCTimed -------------------------------
(***************************************************************************)
(* Four validators of which validator 1 is silent: the others need each    *)
(* other for every quorum.  The primary of height 1 is the silent one;     *)
(* validator 0 gets payloads late, so the request of a height may reach    *)
(* it before it has taken the block of the height before.                  *)
(***************************************************************************)
EXTENDS TimedDbft

CONSTANTS p0, p1    \* proposals

NoTransactions == [p \in Proposals |-> <<>>]

Disabled == -1

\* Longer ago than any timeout.
LongAgo == -1000

OneIsSlow == [r \in Running |-> IF r = 0 THEN 2 ELSE 0]

=============================================================================
