-------------------------------- MODULE Chain --------------------------------
(***************************************************************************)
(* What the library promises its user, with no word about how: every node  *)
(* keeps a chain of blocks, a chain only grows, one block at a time, and   *)
(* no two nodes ever hold different blocks at the same height.             *)
(***************************************************************************)
EXTENDS Integers, Sequences

CONSTANTS Members, Blocks

VARIABLE chain

Init == chain = [r \in Members |-> <<>>]

\* A node accepts the next block: any block if it is the first to reach that
\* height, and otherwise the one that the others have there.
Accept(r, b) ==
    /\ \A s \in Members :
        Len(chain[s]) > Len(chain[r]) => b = chain[s][Len(chain[r]) + 1]
    /\ chain' = [chain EXCEPT ![r] = Append(@, b)]

Next == \E r \in Members, b \in Blocks : Accept(r, b)

Spec == Init /\ [][Next]_chain

=============================================================================
