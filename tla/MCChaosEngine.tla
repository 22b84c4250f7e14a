--------------------------- MODULE MCChaosEngine ---------------------------
(* Three rules over two subjects: a limited one, one that waits for its    *)
(* second match, and one that is random and skips its first match.  The    *)
(* fourth carries the id of the first.                                     *)
EXTENDS ChaosEngine

CONSTANTS r1, r2, r3, r4, order, payment

Rule(id, match, times, nth, after, every, chancy) ==
  [id |-> id, fault |-> "rate_limit", match |-> match, times |-> times, nth |-> nth,
   after |-> after, every |-> every, chancy |-> chancy]

MCRuleOf ==
  (r1 :> Rule("a", {order, payment}, 1, {}, 0, 1, FALSE)) @@
  (r2 :> Rule("b", {order}, Unlimited, {2}, 0, 1, FALSE)) @@
  (r3 :> Rule("c", {order, payment}, 2, {}, 1, 2, TRUE)) @@
  (r4 :> Rule("a", {order}, Unlimited, {2}, 0, 1, FALSE))

DistinctIds == {<<>>, <<r1, r2, r3>>}
=============================================================================
