---------------------------- MODULE MCPointOfSale ----------------------------
(* The instance of PointOfSale for TLC.                                    *)
EXTENDS PointOfSale, TLC

Symmetric == Permutations(Orders) \cup Permutations(Payments) \cup Permutations(Sales)

All == {"clover", "toast", "lightspeed"}
UpToTwo == 0..2
Refundable == {-1, 0, 2}
JustOne == {1}
OneOrTwo == {1, 2}
SoldOrTaken == {-1, 1}
ForOne == [a \in Authorizations |-> 1]

=============================================================================
