------------------------- MODULE IdempotentService -------------------------
(***************************************************************************)
(* What a caller of the unit may rely on who retries: a key is good for    *)
(* one successful run of a handler in a scenario, an answer names the      *)
(* commit of its own run or, as a replay, of the run the key stands for,   *)
(* and a request that gets a replay runs nothing.  There are no steps,     *)
(* locks or faults here.  RequestPipeline implements this (its             *)
(* FollowsService).                                                        *)
(***************************************************************************)
EXTENDS Naturals, FiniteSets

CONSTANTS
  Ids,         \* the requests
  Slots, None  \* what a key is good for; a request without one

VARIABLES
  scene,   \* which scenario runs
  seq,     \* the commits in it so far
  asked,   \* the requests let in, each with the scenario of that moment
  runs,    \* the handlers' runs
  replies  \* the answers that left

vars == <<scene, seq, asked, runs, replies>>

Init == scene = 0 /\ seq = 0 /\ asked = {} /\ runs = {} /\ replies = {}

RunsOf(x) == {r \in runs : r.id = x.id}

(* The run a slot stands for in a scenario. *)
Answered(slot, when) == {r \in runs : r.ends = "ok" /\ r.slot = slot /\ r.scene = when}

Replied(x) == \E y \in replies : y.id = x.id

Ask(id, slot) ==
  /\ \A x \in asked : x.id # id
  /\ asked' = asked \cup {[id |-> id, slot |-> slot, scene |-> scene]}
  /\ UNCHANGED <<scene, seq, runs, replies>>

Run(x, ends, commits) ==
  /\ RunsOf(x) = {} /\ ~Replied(x)
  /\ x.slot # None => x.scene = scene /\ Answered(x.slot, scene) = {}
  /\ seq' = IF commits THEN seq + 1 ELSE seq
  /\ runs' = runs \cup
       {[id |-> x.id, turn |-> Cardinality(runs), slot |-> x.slot, scene |-> scene,
         ends |-> ends, commit |-> IF commits THEN seq' ELSE 0]}
  /\ UNCHANGED <<scene, asked, replies>>

Reply(x, replay, commit) ==
  /\ ~Replied(x)
  /\ replies' = replies \cup {[id |-> x.id, replay |-> replay, commit |-> commit]}
  /\ UNCHANGED <<scene, seq, asked, runs>>

Answer(x) == \E r \in RunsOf(x) : r.ends = "ok" /\ Reply(x, FALSE, r.commit)

Replay(x) ==
  /\ x.slot # None /\ RunsOf(x) = {}
  /\ \E r \in Answered(x.slot, x.scene) : Reply(x, TRUE, r.commit)

(* A refusal, a crash or a diagnostic, from before, in or after a handler. *)
Decline(x) == Reply(x, FALSE, 0)

Reset ==
  /\ scene' = scene + 1 /\ seq' = 0
  /\ UNCHANGED <<asked, runs, replies>>

Next ==
  \/ \E id \in Ids, slot \in Slots : Ask(id, slot)
  \/ \E x \in asked :
       \/ \E ends \in {"ok", "refused", "crash"}, commits \in BOOLEAN : Run(x, ends, commits)
       \/ Answer(x) \/ Replay(x) \/ Decline(x)
  \/ Reset

Spec == Init /\ [][Next]_vars
=============================================================================
