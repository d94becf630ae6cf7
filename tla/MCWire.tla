------------------------------- MODULE MCWire -------------------------------
(***************************************************************************)
(* Four validators, the first is the primary; with the anti-MEV extension  *)
(* the last is silent.  A second has ten nanoseconds.  The contexts differ *)
(* below the second and in their transactions, one has none, and one       *)
(* repeats its last hash.                                                  *)
(***************************************************************************)
EXTENDS Wire

Filled(time, hashes) ==
    [Timestamp |-> time, Nonce |-> 7, TransactionHashes |-> hashes]

SomeFills ==
    {Filled(27, <<1, 2, 3>>), Filled(21, <<1, 2, 3, 3>>),
     Filled(34, <<>>)}

ThreeOrFour == [mev \in BOOLEAN |-> IF mev THEN 0 .. 2 ELSE 0 .. 3]

=============================================================================
