---------------------------- MODULE ChaosEngine ----------------------------
(***************************************************************************)
(* core/chaos/engine.py: the standing fault rules, their counters and the  *)
(* history of what fired.  Every method holds the engine's lock from start *)
(* to end, so every method is one action.                                  *)
(***************************************************************************)
EXTENDS Integers, Sequences, FiniteSets, SequencesExt

CONSTANTS
  Rules,      \* the rule documents anybody arms
  RuleIds,    \* their ids; two documents may carry the same one
  RuleOf,     \* RuleOf[r]: what the document r says
  Faults,     \* the faults they name
  Subjects,   \* what can be evaluated: requests and deliveries
  RuleLists,  \* the rule sets replace() may be given
  Unlimited,  \* `times` is not set
  Overlay,    \* OVERLAY_RULE_ID, the id in-band triggers are recorded under
  MaxTrace    \* bound: evaluations and in-band triggers in a behaviour

(* `match` is the set of subjects that scope and match let through; the    *)
(* conditions of `when` that are absent have values that never veto.       *)
RuleShape == [id : RuleIds, fault : Faults, match : SUBSET Subjects,
              times : Nat \cup {Unlimited}, nth : SUBSET Nat, after : Nat,
              every : Nat \ {0}, chancy : BOOLEAN]

ASSUME EngineAssumption ==
  /\ RuleOf \in [Rules -> RuleShape] /\ Overlay \notin RuleIds
  /\ Unlimited \notin Nat /\ MaxTrace \in Nat
  /\ RuleLists \subseteq Seq(Rules)

VARIABLES
  rules,     \* _rules, in insertion order
  state,     \* _state: matches and fires under each id
  enabled,   \* _enabled: the runtime toggle
  history,   \* _history: what fired, as [id, rule, subject, occurrence]
  trace,     \* history: every subject evaluated while enabled
  since      \* history: Len(trace) when the id's counters last were zero

vars == <<rules, state, enabled, history, trace, since>>

Zero == [matches |-> 0, fires |-> 0]
Entries(list) == {list[i] : i \in 1 .. Len(list)}

Init ==
  /\ rules \in RuleLists
  /\ state = [id \in RuleIds |-> Zero]
  /\ enabled = TRUE /\ history = <<>> /\ trace = <<>>
  /\ since = [id \in RuleIds |-> 0]

-----------------------------------------------------------------------------
(* evaluate(): one pass over the rules.                                    *)

Id(i) == RuleOf[rules[i]].id
Matches(i, subject) == subject \in RuleOf[rules[i]].match

(* How often the first n rules count this subject under an id. *)
Counted(subject, id, n) ==
  Cardinality({i \in 1 .. n : Id(i) = id /\ Matches(i, subject)})

(* The condition tested before the match is counted. *)
BeforeThisMatch(subject, i) == state[Id(i)].matches + Counted(subject, Id(i), i - 1)

(* The counter of the i-th rule when it is asked whether it fires. *)
Occurrence(subject, i) == state[Id(i)].matches + Counted(subject, Id(i), i)

(* The conditions of `when` other than its budget. *)
WhenIgnoringTimes(subject, i, draws) ==
  LET when == RuleOf[rules[i]] occurrence == Occurrence(subject, i) IN
  /\ when.nth = {} \/ occurrence \in when.nth
  /\ occurrence > when.after
  /\ occurrence % when.every = 0
  /\ when.chancy => rules[i] \in draws

(* _should_fire; `draws` are the rules for which the RNG comes out below   *)
(* their probability.                                                      *)
ShouldFire(subject, i, draws) ==
  /\ LET times == RuleOf[rules[i]].times IN
       times # Unlimited => state[Id(i)].fires < times
  /\ WhenIgnoringTimes(subject, i, draws)

(* The place of the first eligible rule, or none. *)
Chosen(subject, draws) ==
  LET eligible == {i \in 1 .. Len(rules) : /\ Matches(i, subject)
                                           /\ ShouldFire(subject, i, draws)} IN
  {i \in eligible : \A k \in eligible : i <= k}

Fired(chosen, id) == IF \E i \in chosen : Id(i) = id THEN 1 ELSE 0

(* What a loop that breaks at the rule it takes would count. *)
CountUpToChosen(subject, chosen) ==
  state' = [id \in RuleIds |->
    [matches |-> state[id].matches + Counted(subject, id,
                   IF chosen = {} THEN Len(rules) ELSE CHOOSE i \in chosen : TRUE),
     fires   |-> state[id].fires + Fired(chosen, id)]]

(* Every matching rule counts, whether or not it is the one that fires. *)
CountMatches(subject, chosen) ==
  state' = [id \in RuleIds |->
    [matches |-> state[id].matches + Counted(subject, id, Len(rules)),
     fires   |-> state[id].fires + Fired(chosen, id)]]

Remember(subject, chosen) ==
  IF chosen = {} THEN UNCHANGED history
  ELSE \E i \in chosen :
         history' = Append(history, [id |-> Id(i), rule |-> rules[i],
                                     subject |-> subject,
                                     occurrence |-> Occurrence(subject, i)])

Overlays == {i \in 1 .. Len(history) : history[i].id = Overlay}
Bounded == Len(trace) + Cardinality(Overlays) < MaxTrace

EvaluateWith(subject, chosen) ==
  /\ Bounded
  /\ IF enabled
       THEN /\ CountMatches(subject, chosen)
            /\ Remember(subject, chosen)
            /\ trace' = Append(trace, subject)
       ELSE UNCHANGED <<state, history, trace>>
  /\ UNCHANGED <<rules, enabled, since>>

Evaluate(subject) ==
  \E draws \in SUBSET {r \in Rules : RuleOf[r].chancy} :
    EvaluateWith(subject, Chosen(subject, draws))

(* An in-band trigger: the history and nothing else. *)
RecordOverlay(subject) ==
  /\ Bounded
  /\ history' = Append(history, [id |-> Overlay, rule |-> Overlay,
                                 subject |-> subject, occurrence |-> 1])
  /\ UNCHANGED <<rules, state, enabled, trace, since>>

-----------------------------------------------------------------------------
(* The rule set.                                                           *)

(* A fresh _RuleState for each of the ids. *)
Restart(ids) ==
  /\ state' = [id \in RuleIds |-> IF id \in ids THEN Zero ELSE state[id]]
  /\ since' = [id \in RuleIds |-> IF id \in ids THEN Len(trace) ELSE since[id]]

Replace(list) ==
  /\ rules' = list
  /\ Restart(RuleIds)
  /\ UNCHANGED <<enabled, history, trace>>

(* The rules with another id, in their order. *)
Without(id) ==
  LET kept  == {i \in 1 .. Len(rules) : Id(i) # id}
      place == CHOOSE p \in [1 .. Cardinality(kept) -> kept] :
                 \A m, n \in DOMAIN p : m < n => p[m] < p[n] IN
  [n \in DOMAIN place |-> rules[place[n]]]

(* add(): an id that is armed again goes to the end and starts from zero.  *)
AddRule(r) ==
  /\ rules' = Append(Without(RuleOf[r].id), r)
  /\ Restart({RuleOf[r].id})
  /\ UNCHANGED <<enabled, history, trace>>

(* remove(): the counters of a rule that is gone are gone with it. *)
RemoveRule(id) ==
  /\ rules' = Without(id)
  /\ Restart({id})
  /\ UNCHANGED <<enabled, history, trace>>

ResetCounters ==
  /\ history' = <<>>
  /\ Restart(RuleIds)
  /\ UNCHANGED <<rules, enabled, trace>>

Reset ==
  /\ rules' = <<>> /\ history' = <<>> /\ enabled' = TRUE
  /\ Restart(RuleIds)
  /\ UNCHANGED trace

SetEnabled(on) ==
  /\ enabled' = on
  /\ UNCHANGED <<rules, state, history, trace, since>>

-----------------------------------------------------------------------------
Evaluation_Next ==
  \E subject \in Subjects : Evaluate(subject) \/ RecordOverlay(subject)

Rules_Next ==
  \/ \E list \in RuleLists : Replace(list)
  \/ \E r \in Rules : AddRule(r)
  \/ \E id \in RuleIds : RemoveRule(id)
  \/ ResetCounters \/ Reset
  \/ \E on \in BOOLEAN : SetEnabled(on)

Next == Evaluation_Next \/ Rules_Next

Spec == Init /\ [][Next]_vars
-----------------------------------------------------------------------------
(* Types of every variable. *)
TypeOK ==
  /\ rules \in Seq(Rules)
  /\ state \in [RuleIds -> [matches : Nat, fires : Nat]]
  /\ enabled \in BOOLEAN
  /\ history \in Seq([id : RuleIds \cup {Overlay}, rule : Rules \cup {Overlay},
                      subject : Subjects, occurrence : Nat])
  /\ trace \in Seq(Subjects)
  /\ since \in [RuleIds -> 0 .. Len(trace)]

(* No rule renumbers another: `nth: [2]` means "the second request this    *)
(* rule matched" (engine.py:354), counted since it was armed or its        *)
(* counters were reset, whatever rules stand above it, fire, come or go,   *)
(* and whatever was triggered in-band.  Of these matches it fires at, no   *)
(* more are spent than its `times`.                                        *)
MatchesAreOwn ==
  \A r \in Entries(rules) :
    LET rule == RuleOf[r] counts == state[rule.id] IN
    /\ counts.matches = Cardinality({i \in since[rule.id] + 1 .. Len(trace) :
                                       trace[i] \in rule.match})
    /\ counts.fires <= counts.matches
    /\ rule.times # Unlimited => counts.fires <= rule.times

(* The rule that fires does so on the match its `when` names, and says     *)
(* which one that was: counted from the evaluations there were, not from   *)
(* the engine's counters.                                                  *)
FiredAsPromised ==
  [][\A r \in Rules :
       history' # history /\ Len(trace') > Len(trace) /\ Last(history').rule = r =>
         LET when == RuleOf[r]
             n == Cardinality({i \in since[when.id] + 1 .. Len(trace') :
                                 trace'[i] \in when.match}) IN
         /\ Last(trace') \in when.match /\ Last(history').occurrence = n
         /\ when.nth = {} \/ n \in when.nth
         /\ n > when.after /\ n % when.every = 0]_vars

=============================================================================
