----------------------------- MODULE MCFileDrop -----------------------------
(* The instance of FileDrop for TLC.                                       *)
EXTENDS FileDrop, TLC

OneToFour == 1..4
OneToFive == 1..5
TheSecond == {2}
TheFourth == {4}

=============================================================================
