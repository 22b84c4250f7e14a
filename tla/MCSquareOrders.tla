--------------------------- MODULE MCSquareOrders ---------------------------
(* Instances of SquareOrders for TLC.                                      *)
EXTENDS SquareOrders, TLC

Symmetric == Permutations(Orders) \cup Permutations(Payments)

OneOrTwo == {1, 2}
NoneOrTwo == {0, 2}
UpToFour == 0..4
UpToTwo == 0..2
Moves == {"PROPOSED", "PREPARED", "COMPLETED", "CANCELED"}
Proposals == {"PROPOSED", "COMPLETED"}

\* Callers name lines and fulfillments by a uid the stream never yields.
Elsewhere == {101}
\* Callers name lines and fulfillments by the fourth uid of the stream.
Ahead == {4}

=============================================================================
