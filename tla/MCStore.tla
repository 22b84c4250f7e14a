------------------------------ MODULE MCStore ------------------------------
(* One entity, one subscriber, both of the seed.                           *)
EXTENDS Store, TLC

CONSTANTS order, config

MCSeed == <<order, config>>
Symmetric == Permutations(Callers)
=============================================================================
