------------------------- MODULE MCRequestPipeline -------------------------
(* Four routes of Square's kind: "pay" requires its key and refuses        *)
(* another body under it, "pay_at" is another path to it with the same     *)
(* scope, "update" replays over another body, and "test", the test         *)
(* delivery, is not serialized and commits nothing.                        *)
EXTENDS RequestPipeline

CONSTANTS k, mangled, expiry, broken

MakeRoute(serialized, scope, required, onMismatch) ==
  [serialized |-> serialized, auth |-> TRUE, scope |-> scope, required |-> required,
   onMismatch |-> onMismatch]

MCRouteOf ==
  ("pay" :> MakeRoute(TRUE, "payments", TRUE, "conflict")) @@
  ("pay_at" :> MakeRoute(TRUE, "payments", TRUE, "conflict")) @@
  ("update" :> MakeRoute(TRUE, "orders", FALSE, "replay")) @@
  ("test" :> MakeRoute(FALSE, "none", FALSE, "conflict"))

MCSubjects == DOMAIN MCRouteOf

MakeCall(route, key, body, token, magic) ==
  [route |-> route, key |-> key, body |-> body, token |-> token, magic |-> magic]

MCCalls ==
  {MakeCall("pay", k, "a", "good", "none"), MakeCall("pay", k, "b", "good", "mangle"),
   MakeCall("pay_at", k, "a", "good", "none"),
   MakeCall("update", k, "a", "good", "none"), MakeCall("update", k, "b", "good", "none"),
   MakeCall("update", k, "b", "bad", "none"), MakeCall("pay", NoKey, "a", "good", "none"),
   MakeCall("test", NoKey, "a", "good", "none")}

(* What a handler may do. *)
Ending(commits, ends) == [commits |-> commits, ends |-> ends]

MCEndings ==
  [route \in {"pay", "pay_at", "update"} |->
     {Ending(TRUE, "ok"), Ending(TRUE, "refused"), Ending(FALSE, "crash")}]
  @@ ("test" :> {Ending(FALSE, "ok")})

Rule(id, fault, times, nth) ==
  [id |-> id, fault |-> fault, match |-> MCSubjects, times |-> times, nth |-> nth,
   after |-> 0, every |-> 1, chancy |-> FALSE]

MCRuleOf ==
  (mangled :> Rule("m", "mangle", 1, {})) @@
  (expiry :> Rule("e", "token_expiry", Unlimited, {2})) @@
  (broken :> Rule("b", "bad_params", 1, {}))

MCRuleLists == {<<mangled>>, <<expiry, broken>>}
=============================================================================
