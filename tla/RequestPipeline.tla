-------------------------- MODULE RequestPipeline --------------------------
(***************************************************************************)
(* core/kernel/unit.py: Unit.handle and its nine steps, for requests that  *)
(* race each other on different threads.  A serialized route runs steps    *)
(* 1-9 under one lock; error shaping and _finish run after it was          *)
(* released.  Fault selection is ChaosEngine's evaluate(); of the store    *)
(* the pipeline sees the idempotency records and journal_seq.              *)
(***************************************************************************)
EXTENDS ChaosEngine

CONSTANTS
  Clients,      \* the threads that call handle()
  Calls,        \* the requests they make: [route, key, body, token, magic]
  RouteOf,      \* RouteOf[route]: what the Route declares
  NoKey,        \* the request carries no idempotency key
  Endings,      \* Endings[route]: what its handler may do, [commits, ends]
  LogCapacity,  \* maxlen of the request log
  MaxRequests,  \* bound: requests in a behaviour, resets among them
  Nobody        \* the pipeline lock is free

Routes == Subjects  \* what the rules that decide about requests match
NoScope == "none"   \* the route has no IdempotencySpec

(* The phase each fault belongs to.  "mangle" stands for the three that    *)
(* corrupt an answer, "bad_params" for a payout that rejects its rule's    *)
(* params, "unknown" for a webhook.* fault or a fork's own name, which no  *)
(* phase applies.                                                          *)
PreAuth == {"rate_limit"}
PostAuth == {"token_expiry"}
Response == {"mangle", "slow_body", "bad_params"}
AllFaults == PreAuth \cup PostAuth \cup Response \cup {"unknown"}

ASSUME PipelineAssumption ==
  /\ RouteOf \in [Routes -> [serialized : BOOLEAN, auth : BOOLEAN, scope : STRING,
                             required : BOOLEAN, onMismatch : {"conflict", "replay"}]]
  /\ \A call \in Calls : /\ call.route \in Routes
                         /\ call.token \in {"good", "narrow", "bad"}
                         /\ call.magic \in AllFaults \cup {"none"}
  /\ Endings \in [Routes ->
                   SUBSET [commits : BOOLEAN, ends : {"ok", "refused", "crash"}]]
  /\ Nobody \notin Clients
  /\ LogCapacity \in Nat /\ MaxRequests \in Nat

(* The engine decides about requests, by their route. *)
ASSUME RulesAssumption == Faults = AllFaults /\ MaxTrace = MaxRequests

(* Every keyed route that ships is serialized. *)
ASSUME KeyedAssumption == \A r \in Routes : RouteOf[r].scope # NoScope => RouteOf[r].serialized

(* "Id minting and journal ordering" is what the three routes that ship    *)
(* without the lock "do not touch" (plane.py:37).                          *)
ASSUME WritersAssumption ==
  \A r \in Routes : \A e \in Endings[r] : e.commits => RouteOf[r].serialized

VARIABLES
  lock,       \* who holds Unit._lock
  request,    \* request[c]: the request c's thread is in, and its locals
  idempotent, \* the store's idempotency records, by (scope, key)
  seq,        \* the store's journal_seq
  log,        \* the request log
  sent,       \* requests started so far
  resets,     \* history: state resets so far
  handled,    \* history: every run of a handler
  answered    \* history: every request as it was when its answer left

(* `vars` are those of ChaosEngine. *)
pipelineVars == <<lock, request, idempotent, seq, log, sent, resets, handled, answered, vars>>

NoCall == [route |-> "none", key |-> NoKey, body |-> "none", token |-> "good",
           magic |-> "none"]
NoDecision == [id |-> "none", fault |-> "none"]
Answer(status, commit) ==
  [status |-> status, commit |-> commit, fault |-> "none", replay |-> FALSE]
NoRequest == [pc |-> "idle", id |-> 0, call |-> NoCall, scene |-> 0,
              decision |-> NoDecision, before |-> 0, after |-> 0,
              attempted |-> FALSE, answer |-> Answer("none", 0)]

PipelineInit ==
  /\ lock = Nobody /\ request = [c \in Clients |-> NoRequest]
  /\ idempotent = <<>> /\ seq = 0 /\ log = <<>>
  /\ sent = 0 /\ resets = 0 /\ handled = {} /\ answered = {}
  /\ Init

Me(c) == request[c]
Call(c) == Me(c).call
Route(c) == RouteOf[Call(c).route]
Fault(c) == Me(c).decision.fault

Go(c, pc) == request' = [request EXCEPT ![c].pc = pc]
Leave(c, pc, answer) ==
  request' = [request EXCEPT ![c].pc = pc, ![c].answer = answer]
Unlock(c) == lock' = IF lock = c THEN Nobody ELSE lock

(* acquire() without the `with`. *)
RaiseKeepingLock(c, status) ==
  Leave(c, "shaping", Answer(status, 0)) /\ UNCHANGED lock

(* A UnitError leaves the pipeline: the `with` lets go of the lock before  *)
(* the except clause shapes the answer.                                    *)
Raise(c, status) ==
  Leave(c, "shaping", Answer(status, 0)) /\ Unlock(c)

-----------------------------------------------------------------------------
(* The route is matched before the lock is taken. *)
Arrive(c, call) ==
  /\ Me(c).pc = "idle" /\ sent < MaxRequests
  /\ sent' = sent + 1
  /\ request' = [request EXCEPT ![c] =
                   [NoRequest EXCEPT !.pc = "matched", !.id = sent + 1, !.call = call]]
  /\ UNCHANGED <<lock, idempotent, seq, log, resets, handled, answered, vars>>

Enter(c) ==
  /\ Me(c).pc = "matched"
  /\ IF Route(c).serialized THEN lock = Nobody /\ lock' = c ELSE UNCHANGED lock
  /\ request' = [request EXCEPT ![c].pc = "selecting", ![c].scene = resets]
  /\ UNCHANGED <<idempotent, seq, log, sent, resets, handled, answered, vars>>

Decide(c, decision) ==
  request' = [request EXCEPT ![c].pc = "screening", ![c].decision = decision]

(* Step 3, an in-band trigger: it wins and touches no counter. *)
SelectInBand(c) ==
  /\ Me(c).pc = "selecting" /\ Call(c).magic # "none"
  /\ RecordOverlay(Call(c).route)
  /\ Decide(c, [id |-> Overlay, fault |-> Call(c).magic])
  /\ UNCHANGED <<lock, idempotent, seq, log, sent, resets, handled, answered>>

(* Step 3, the standing rules: drawn once, and counted there and then. *)
SelectRule(c) ==
  /\ Me(c).pc = "selecting" /\ Call(c).magic = "none"
  /\ Evaluate(Call(c).route)
  /\ Decide(c, IF history' = history THEN NoDecision
               ELSE LET fired == Last(history') IN
                      [id |-> fired.id, fault |-> RuleOf[fired.rule].fault])
  /\ UNCHANGED <<lock, idempotent, seq, log, sent, resets, handled, answered>>

-----------------------------------------------------------------------------
(* Steps 4-7.                                                              *)

(* Where a request's answer is stored: two routes may share a scope. *)
Slot(call) == IF RouteOf[call.route].scope # NoScope /\ call.key # NoKey
                THEN <<RouteOf[call.route].scope, call.key>> ELSE <<>>
Stored(c) == Slot(Call(c)) \in DOMAIN idempotent

(* Pre-auth fault, auth, scopes, post-auth fault: the first that applies   *)
(* raises.                                                                 *)
FirstRefusal(c, authenticate) ==
  CASE Fault(c) \in PreAuth -> Fault(c)
    [] Fault(c) \notin PreAuth /\ authenticate /\ Call(c).token = "bad" -> "unauthorized"
    [] Fault(c) \notin PreAuth /\ authenticate /\ Call(c).token = "narrow" -> "forbidden_scope"
    [] OTHER -> IF Fault(c) \in PostAuth THEN Fault(c) ELSE "passed"

(* Step 7 in front of step 5. *)
RefusedUnlessStored(c) == FirstRefusal(c, Route(c).auth /\ ~Stored(c))

Refused(c) == FirstRefusal(c, Route(c).auth)

(* A second evaluation at the place where the fault is applied. *)
ScreenAndDraw(c) ==
  /\ Me(c).pc = "screening"
  /\ Evaluate(Call(c).route)
  /\ Go(c, "looking_up")
  /\ UNCHANGED <<lock, idempotent, seq, log, sent, resets, handled, answered>>

Screen(c) ==
  /\ Me(c).pc = "screening"
  /\ IF Refused(c) = "passed"
       THEN Go(c, "looking_up") /\ UNCHANGED lock
       ELSE Raise(c, Refused(c))
  /\ UNCHANGED <<idempotent, seq, log, sent, resets, handled, answered, vars>>

ReplayOf(c) == [idempotent[Slot(Call(c))].answer EXCEPT !.replay = TRUE]
Conflicts(c) == /\ idempotent[Slot(Call(c))].body # Call(c).body
                /\ Route(c).onMismatch = "conflict"

(* The stored answer returned from step 7, which step 9 then never sees. *)
ReplayReturned(c) ==
  /\ Me(c).pc = "looking_up" /\ Stored(c)
  /\ IF Conflicts(c) THEN Raise(c, "conflict")
     ELSE Leave(c, "finishing", ReplayOf(c)) /\ Unlock(c)
  /\ UNCHANGED <<idempotent, seq, log, sent, resets, handled, answered, vars>>

(* _replay: the stored answer, bound for step 9, or a conflict. *)
Replay(c) ==
  /\ Me(c).pc = "looking_up" /\ Stored(c)
  /\ IF Conflicts(c) THEN Raise(c, "conflict")
     ELSE Leave(c, "paying_out", ReplayOf(c)) /\ UNCHANGED lock
  /\ UNCHANGED <<idempotent, seq, log, sent, resets, handled, answered, vars>>

(* Step 7 without a record: on to the handler, unless a key is required.   *)
Miss(c) ==
  /\ Me(c).pc = "looking_up" /\ ~Stored(c)
  /\ IF Route(c).scope # NoScope /\ Route(c).required /\ Call(c).key = NoKey
       THEN Raise(c, "missing_field")
       ELSE /\ request' = [request EXCEPT ![c].pc = "handling", ![c].before = seq]
            /\ UNCHANGED lock
  /\ UNCHANGED <<idempotent, seq, log, sent, resets, handled, answered, vars>>

-----------------------------------------------------------------------------
(* Steps 8 and 9.                                                          *)

(* The handler commits or not, then returns a 2xx, raises a UnitError, or  *)
(* crashes.                                                                *)
Handle(c, ending) ==
  /\ Me(c).pc = "handling" /\ ending \in Endings[Call(c).route]
  /\ seq' = IF ending.commits THEN seq + 1 ELSE seq
  /\ LET commit == IF ending.commits THEN seq' ELSE 0 IN
     /\ handled' = handled \cup {[id |-> Me(c).id, turn |-> Cardinality(handled),
                                  slot |-> Slot(Call(c)), scene |-> resets,
                                  ends |-> ending.ends, commit |-> commit]}
     /\ Leave(c, "reading_seq",
              Answer(ending.ends, IF ending.ends = "ok" THEN commit ELSE 0))
  /\ UNCHANGED <<lock, idempotent, log, sent, resets, answered, vars>>

(* journal_seq was read before the handler ran; the `finally` reads it     *)
(* again, whichever way the handler left.                                  *)
ReadSeq(c) ==
  /\ Me(c).pc = "reading_seq"
  /\ request' = [request EXCEPT ![c].after = seq,
       ![c].pc = CASE Me(c).answer.status = "ok"    -> "storing"
                   [] Me(c).answer.status = "crash" -> "finishing"
                   [] OTHER                         -> "shaping"]
  /\ IF Me(c).answer.status = "ok" THEN UNCHANGED lock ELSE Unlock(c)
  /\ UNCHANGED <<idempotent, seq, log, sent, resets, handled, answered, vars>>

Owed(c) == Fault(c) \in Response

(* apply_response_fault, when it raises and when it does not. *)
PaidOut(c) ==
  IF Fault(c) = "bad_params" THEN Answer("diagnostic", 0)
  ELSE [Me(c).answer EXCEPT !.fault = Fault(c)]

Attempt(c, pc) ==
  request' = [request EXCEPT ![c].pc = pc, ![c].attempted = TRUE,
                             ![c].answer = PaidOut(c)]

StoreAnswer(c, answer) ==
  /\ Me(c).pc = "storing"
  /\ LET slot == Slot(Call(c)) IN
     idempotent' = IF slot = <<>> THEN idempotent
       ELSE [x \in DOMAIN idempotent \cup {slot} |->
               IF x = slot THEN [body |-> Call(c).body, answer |-> answer]
                           ELSE idempotent[x]]
  /\ Go(c, "paying_out")
  /\ UNCHANGED <<lock, seq, log, sent, resets, handled, answered, vars>>

(* The two earlier shapes the comment above put_idempotent() recounts. *)
StoreFaulted(c) == StoreAnswer(c, IF Owed(c) THEN PaidOut(c) ELSE Me(c).answer)
StoreUnlessFaulted(c) ==
  IF ~Owed(c) THEN StoreAnswer(c, Me(c).answer)
  ELSE /\ Me(c).pc = "storing"
       /\ Go(c, "paying_out")
       /\ UNCHANGED <<lock, idempotent, seq, log, sent, resets, handled, answered, vars>>

(* A 2xx is recorded before any response-phase fault touches it. *)
Store(c) == StoreAnswer(c, Me(c).answer)

(* Step 9, on whatever answer step 7 or 8 left.  The attempt is noted      *)
(* before it is made, because it may raise.                                *)
PayOut(c) ==
  /\ Me(c).pc = "paying_out"
  /\ Unlock(c)
  /\ IF Owed(c)
       THEN Attempt(c, IF Fault(c) = "bad_params" THEN "shaping" ELSE "finishing")
       ELSE Go(c, "finishing")
  /\ UNCHANGED <<idempotent, seq, log, sent, resets, handled, answered, vars>>

(* The except clause, without the lock: an answer that was raised is still *)
(* owed a response-phase fault; a request-phase fault is stamped on the    *)
(* answer it raised.                                                       *)
ShapeError(c) ==
  /\ Me(c).pc = "shaping"
  /\ IF Owed(c) /\ ~Me(c).attempted
       THEN Attempt(c, "finishing")
       ELSE Leave(c, "finishing",
              IF Me(c).answer.status \in PreAuth \cup PostAuth
                THEN [Me(c).answer EXCEPT !.fault = Fault(c)]
                ELSE Me(c).answer)
  /\ UNCHANGED <<lock, idempotent, seq, log, sent, resets, handled, answered, vars>>

-----------------------------------------------------------------------------
(* _finish: the request log, without the pipeline lock.                    *)

Row(c, after) ==
  LET committed == after > Me(c).before IN
  [id |-> Me(c).id, status |-> Me(c).answer.status, fault |-> Fault(c),
   commit |-> IF committed THEN after ELSE 0,
   discarded |-> committed /\ Me(c).attempted /\ Fault(c) # "slow_body"]

(* journal_seq read when the row is written, without the lock. *)
RowReadLate(c) == Row(c, seq)
LogRow(c) == Row(c, Me(c).after)

(* deque(maxlen=capacity) *)
Record(row) ==
  log' = IF LogCapacity = 0 THEN log
         ELSE Append(IF Len(log) < LogCapacity THEN log ELSE Tail(log), row)

Finish(c) ==
  /\ Me(c).pc = "finishing"
  /\ Record(LogRow(c))
  /\ answered' = answered \cup {Me(c)}
  /\ request' = [request EXCEPT ![c] = NoRequest]
  /\ UNCHANGED <<lock, idempotent, seq, sent, resets, handled, vars>>

-----------------------------------------------------------------------------
(* POST /__unit/state/reset, which is _hydrate().  Internal, so step 1 is  *)
(* all of its pipeline, and serialized, so it meets other requests only    *)
(* where these hold no lock.  What the seed journals is not counted.       *)
StateReset ==
  /\ lock = Nobody /\ sent < MaxRequests
  /\ sent' = sent + 1 /\ resets' = resets + 1
  /\ idempotent' = <<>> /\ seq' = 0 /\ log' = <<>>
  /\ UNCHANGED <<lock, request, handled, answered, vars>>

-----------------------------------------------------------------------------
Request_Next(c) ==
  \/ Enter(c) \/ SelectInBand(c) \/ SelectRule(c) \/ Screen(c) \/ Replay(c)
  \/ Miss(c) \/ \E ending \in UNION {Endings[r] : r \in Routes} : Handle(c, ending)
  \/ ReadSeq(c) \/ Store(c) \/ PayOut(c) \/ ShapeError(c) \/ Finish(c)

PipelineNext ==
  \/ \E c \in Clients : Request_Next(c) \/ \E call \in Calls : Arrive(c, call)
  \/ StateReset

PipelineSpec == PipelineInit /\ [][PipelineNext]_pipelineVars

-----------------------------------------------------------------------------
InFlight == {request[c] : c \in {d \in Clients : request[d].pc # "idle"}}

(* "That commit is exactly what an idempotency key exists to make safe to  *)
(* retry" (unit.py:1103): after a keyed request was handled and answered,  *)
(* no request with its key reaches a handler again in the same scenario,   *)
(* whatever fault garbled the answer.                                      *)
OneCommitPerKey ==
  \A a, b \in handled :
    a.ends = "ok" /\ a.slot # <<>> /\ a.slot = b.slot /\ a.scene = b.scene => b.turn <= a.turn

LetInside == {request[c] : c \in {d \in Clients : request[d].pc \notin {"idle", "matched"}}}

(* Of the requests that were let in, and of the answers that left, what    *)
(* tells them apart to a caller.                                           *)
Asked == {[id |-> x.id, slot |-> Slot(x.call), scene |-> x.scene] : x \in answered \cup LetInside}
Replies ==
  {[id |-> x.id, replay |-> x.answer.replay, commit |-> x.answer.commit] : x \in answered}

Service == INSTANCE IdempotentService WITH
  Ids <- 1 .. MaxRequests, Slots <- {Slot(call) : call \in Calls}, None <- <<>>,
  scene <- resets, asked <- Asked, runs <- handled, replies <- Replies

(* A caller who retries has an idempotent service before it, whatever      *)
(* threads, faults and the lock do to its requests: one successful run for *)
(* a key and scenario, answers that name their own run's commit, replays   *)
(* that run nothing (steps 7 and 8 of unit.py:43, as IdempotentService).   *)
FollowsService == Service!Spec

(* A replay is the answer of the handler that really ran, carries no fault *)
(* but the one drawn for this very request, and is "never handed to an     *)
(* unauthenticated caller who guessed a key" (unit.py:41).                 *)
ReplaysNameTheCommit ==
  \A x \in answered :
    x.answer.replay =>
      /\ \E h \in handled : /\ h.ends = "ok" /\ h.slot = Slot(x.call) /\ h.scene = x.scene
                            /\ h.id # x.id /\ h.commit = x.answer.commit
      /\ x.answer.fault = IF x.decision.fault \in Response THEN x.decision.fault ELSE "none"
      /\ RouteOf[x.call.route].auth => x.call.token = "good"

TellsItsCommit(row) ==
  LET mine == {h \in handled : h.id = row.id /\ h.commit > 0} IN
    {h.commit : h \in mine} = {row.commit} \ {0}

(* On a serialized route "no other request's commit can land between" the  *)
(* two reads (unit.py:494): a row of the request log names the commit of   *)
(* its own request, and says discarded exactly when a fault kept the       *)
(* handler's answer to that commit from the caller.                        *)
LogTellsCommits ==
  \A i \in 1 .. Len(log) :
    LET x == CHOOSE y \in answered : y.id = log[i].id IN
      RouteOf[x.call.route].serialized =>
        /\ TellsItsCommit(log[i])
        /\ log[i].discarded = (/\ log[i].commit > 0
                               /\ x.answer.status = "diagnostic" \/ x.answer.fault = "mangle")

(* What was drawn at step 3 is what the caller sees, on a fresh answer, a  *)
(* replay and a shaped error alike.  Not on a crash's clean 500, not when  *)
(* the rule's own params are bad, not for a fault no phase knows, and not  *)
(* for a token_expiry whose caller was not let in anyway.                  *)
FaultsArePaidOut ==
  \A x \in answered :
    \/ x.decision.fault \in {"none", "unknown"}
    \/ x.answer.status \in {"crash", "diagnostic"}
    \/ /\ x.decision.fault \in PostAuth
       /\ x.answer.status \in {"unauthorized", "forbidden_scope"}
    \/ x.answer.fault = x.decision.fault

(* "a rule that matches must not be evaluated twice and count twice"       *)
(* (unit.py:28): what fired and who carries a decision are one to one, and *)
(* a rule's fires are the decisions it made since it was armed, at most.   *)
OneDrawPerRequest ==
  LET decided == {x \in answered \cup InFlight : x.decision # NoDecision} IN
  /\ Len(history) = Cardinality(decided)
  /\ \A id \in RuleIds :
       state[id].fires <= Cardinality({x \in decided : x.decision.id = id})

(* A request that was begun can be finished: whichever way the others left *)
(* the pipeline, they left the lock behind.                                *)
NobodyStuck ==
  InFlight # {} => \E c \in Clients : ENABLED Request_Next(c)
=============================================================================
