----------------------- MODULE RequestPipelineProofs -----------------------
(***************************************************************************)
(* What the pipeline promises, for any routes, calls, faults, rules and    *)
(* number of threads.                                                      *)
(*                                                                         *)
(*   Keys.    Once a keyed request was handled and answered, its key keeps *)
(*            every later request from the handlers: between the commit    *)
(*            and the record of its answer the lock keeps out everybody    *)
(*            else with a key, and a reset too (IInv).                     *)
(*   Answers. A request says, at each step, what was drawn for it (Told).  *)
(*   Replays. What is on record was answered by a handler that ran, and    *)
(*            whose journal window nobody else wrote in (History).         *)
(*   Rows.    A row of the log repeats one answered request (Logged).      *)
(*   Draws.   A rule fires once for each decision it made (Draws).         *)
(*   Rules.   ChaosEngine, of which the pipeline drives an instance,       *)
(*            counts each rule's matches on their own (Armed).             *)
(*   Service. Seen from outside, all this is IdempotentService: every      *)
(*            answer names its own run's commit, or the key's (Owns).      *)
(***************************************************************************)
EXTENDS RequestPipeline, SetInduction, FiniteSetTheorems, TLAPS

USE DEF Routes

(* Where a request on a serialized route holds the pipeline lock. *)
Locked == {"selecting", "screening", "looking_up", "handling", "reading_seq",
           "storing", "paying_out"}

RequestFields == {"pc", "id", "call", "scene", "decision", "before", "after",
                  "attempted", "answer"}

Shape ==
  /\ DOMAIN request = Clients /\ request = [c \in Clients |-> request[c]]
  /\ \A c \in Clients : /\ DOMAIN request[c] = RequestFields
                        /\ request[c] = [f \in RequestFields |-> request[c][f]]

KnownCalls == \A c \in Clients : Me(c).pc # "idle" => Call(c) \in Calls

Mutex == \A c \in Clients : Me(c).pc \in Locked /\ Route(c).serialized => lock = c

Turns ==
  /\ IsFiniteSet(handled) /\ resets \in Nat
  /\ \A h \in handled : /\ h.turn \in Nat /\ h.turn < Cardinality(handled)
                        /\ h.scene \in Nat /\ h.scene <= resets

(* Who is about to run a handler has just looked its key up in vain. *)
Fresh ==
  \A c \in Clients :
    Me(c).pc = "handling" /\ Slot(Call(c)) # <<>> => ~Stored(c)

(* The thread on its way to store the answer for a slot. *)
Storing(c, slot) ==
  /\ Slot(Call(c)) = slot
  /\ \/ Me(c).pc = "reading_seq" /\ Me(c).answer.status = "ok"
     \/ Me(c).pc = "storing"

(* An answered keyed request of this scenario is on record, or about to be. *)
Kept ==
  \A h \in handled :
    h.ends = "ok" /\ h.slot # <<>> /\ h.scene = resets =>
      h.slot \in DOMAIN idempotent \/ \E c \in Clients : Storing(c, h.slot)

IInv == Shape /\ KnownCalls /\ Mutex /\ Turns /\ Fresh /\ Kept /\ OneCommitPerKey

(* A request with a key that is in the pipeline holds the lock. *)
LEMMA KeyHoldsLock ==
  ASSUME KnownCalls, Mutex, NEW c \in Clients, Me(c).pc \in Locked,
         Slot(Call(c)) # <<>>
  PROVE  lock = c
<1>1. Me(c).pc # "idle" BY DEF Locked
<1>2. Call(c).route \in Routes BY <1>1, PipelineAssumption DEF KnownCalls
<1>3. Route(c).scope # NoScope BY DEF Slot, Route
<1>4. Route(c).serialized BY <1>2, <1>3, KeyedAssumption DEF Route
<1> QED BY <1>4 DEF Mutex

(* What a step of c does to the requests: it moves c and nobody else. *)
Moved(c, pc) ==
  /\ Shape'
  /\ \A d \in Clients \ {c} : request'[d] = request[d]
  /\ request'[c].call = request[c].call /\ request'[c].pc = pc

LEMMA GoMoves ==
  ASSUME Shape, NEW c \in Clients, NEW pc, Go(c, pc)
  PROVE  Moved(c, pc)
BY DEF Shape, Go, Moved, RequestFields

LEMMA LeaveMoves ==
  ASSUME Shape, NEW c \in Clients, NEW pc, NEW answer, Leave(c, pc, answer)
  PROVE  Moved(c, pc) /\ request'[c].answer = answer
BY DEF Shape, Leave, Moved, RequestFields

LEMMA DecideMoves ==
  ASSUME Shape, NEW c \in Clients, NEW decision, Decide(c, decision)
  PROVE  Moved(c, "screening")
BY DEF Shape, Decide, Moved, RequestFields

LEMMA AttemptMoves ==
  ASSUME Shape, NEW c \in Clients, NEW pc, Attempt(c, pc)
  PROVE  Moved(c, pc)
BY DEF Shape, Attempt, Moved, RequestFields

(* What steps 3 to 9 and the error shaping have in common: c goes on, the  *)
(* lock stays or is let go on the way out, a handler is reached only by a  *)
(* key that is not on record, and nobody leaves who still has to store.    *)
Advances(c, pc) ==
  /\ Moved(c, pc) /\ Me(c).pc # "idle"
  /\ \/ UNCHANGED lock /\ (pc \in Locked => Me(c).pc \in Locked)
     \/ Unlock(c) /\ pc \notin Locked
  /\ pc = "handling" /\ Slot(Call(c)) # <<>> => ~Stored(c)
  /\ Me(c).pc # "storing"
  /\ Me(c).pc = "reading_seq" /\ Me(c).answer.status = "ok" => pc = "storing"
  /\ UNCHANGED <<idempotent, handled, resets>>

LEMMA AdvancePreserves ==
  ASSUME IInv, NEW c \in Clients, NEW pc, Advances(c, pc)
  PROVE  IInv'
<1> USE DEF Advances
<1>1. /\ request'[c].call = Call(c) /\ request'[c].pc = pc
      /\ \A d \in Clients \ {c} : request'[d] = request[d]
      /\ idempotent' = idempotent /\ handled' = handled /\ resets' = resets
  BY DEF Moved, Call, Me
<1>2. Shape' BY DEF Moved
<1>3. KnownCalls' BY <1>1 DEF IInv, KnownCalls, Call, Me
<1>4. Mutex'
  <2> SUFFICES ASSUME NEW d \in Clients, request'[d].pc \in Locked,
                      RouteOf[request'[d].call.route].serialized
               PROVE  lock' = d
    BY DEF Mutex, Route, Call, Me
  <2>1. CASE d = c
    <3>1. lock' = lock /\ Me(c).pc \in Locked BY <1>1, <2>1
    <3>2. lock = c BY <1>1, <2>1, <3>1 DEF IInv, Mutex, Route, Call
    <3> QED BY <2>1, <3>1, <3>2
  <2>2. CASE d # c
    <3>1. lock = d BY <1>1, <2>2 DEF IInv, Mutex, Route, Call, Me
    <3> QED BY <2>2, <3>1 DEF Unlock
  <2> QED BY <2>1, <2>2
<1>5. Turns' BY <1>1 DEF IInv, Turns
<1>6. Fresh' BY <1>1 DEF IInv, Fresh, Stored, Call, Me
<1>7. Kept'
  <2> SUFFICES ASSUME NEW h \in handled, h.ends = "ok", h.slot # <<>>, h.scene = resets,
                      h.slot \notin DOMAIN idempotent
               PROVE  \E d \in Clients : Storing(d, h.slot)'
    BY <1>1 DEF Kept
  <2>1. PICK d \in Clients : Storing(d, h.slot) BY DEF IInv, Kept
  <2>2. Storing(d, h.slot)'
    BY <1>1, <2>1 DEF Storing, Call, Me
  <2> QED BY <2>2
<1>8. OneCommitPerKey' BY <1>1 DEF IInv, OneCommitPerKey
<1> QED BY <1>2, <1>3, <1>4, <1>5, <1>6, <1>7, <1>8 DEF IInv

LEMMA InitEstablishes == PipelineInit => IInv
<1> SUFFICES ASSUME PipelineInit PROVE IInv OBVIOUS
<1>1. /\ request = [c \in Clients |-> NoRequest] /\ handled = {} /\ resets = 0
      /\ NoRequest.pc = "idle"
  BY DEF PipelineInit, NoRequest
<1>2. Shape BY <1>1 DEF Shape, RequestFields, NoRequest
<1>3. KnownCalls /\ Mutex /\ Fresh
  BY <1>1 DEF KnownCalls, Mutex, Fresh, Me, Locked
<1>4. Turns BY <1>1, FS_EmptySet DEF Turns
<1>5. Kept /\ OneCommitPerKey BY <1>1 DEF Kept, OneCommitPerKey
<1> QED BY <1>2, <1>3, <1>4, <1>5 DEF IInv

(* Raise lets go of the lock and leaves. *)
LEMMA RaiseAdvances ==
  ASSUME IInv, NEW c \in Clients, NEW status, Raise(c, status),
         Me(c).pc \notin {"idle", "storing", "reading_seq"},
         UNCHANGED <<idempotent, handled, resets>>
  PROVE  Advances(c, "shaping")
<1>1. Moved(c, "shaping") BY LeaveMoves DEF IInv, Raise
<1> QED BY <1>1 DEF Advances, Raise, Locked

LEMMA SelectPreserves ==
  ASSUME IInv, NEW c \in Clients, SelectInBand(c) \/ SelectRule(c)
  PROVE  IInv'
<1>1. Moved(c, "screening")
  <2>1. CASE SelectInBand(c) BY <2>1, DecideMoves DEF IInv, SelectInBand
  <2>2. CASE SelectRule(c) BY <2>2, DecideMoves DEF IInv, SelectRule
  <2> QED BY <2>1, <2>2
<1>2. Advances(c, "screening")
  BY <1>1 DEF Advances, SelectInBand, SelectRule, Locked
<1> QED BY <1>2, AdvancePreserves

LEMMA ScreenPreserves ==
  ASSUME IInv, NEW c \in Clients, Screen(c)
  PROVE  IInv'
<1>1. CASE Refused(c) = "passed"
  <2>1. Moved(c, "looking_up") BY <1>1, GoMoves DEF IInv, Screen
  <2>2. Advances(c, "looking_up") BY <1>1, <2>1 DEF Advances, Screen, Locked
  <2> QED BY <2>2, AdvancePreserves
<1>2. CASE Refused(c) # "passed"
  <2>1. Advances(c, "shaping") BY <1>2, RaiseAdvances DEF Screen
  <2> QED BY <2>1, AdvancePreserves
<1> QED BY <1>1, <1>2

LEMMA ReplayPreserves ==
  ASSUME IInv, NEW c \in Clients, Replay(c)
  PROVE  IInv'
<1>1. CASE Conflicts(c)
  <2>1. Advances(c, "shaping") BY <1>1, RaiseAdvances DEF Replay
  <2> QED BY <2>1, AdvancePreserves
<1>2. CASE ~Conflicts(c)
  <2>1. Moved(c, "paying_out") BY <1>2, LeaveMoves DEF IInv, Replay
  <2>2. Advances(c, "paying_out") BY <1>2, <2>1 DEF Advances, Replay, Locked
  <2> QED BY <2>2, AdvancePreserves
<1> QED BY <1>1, <1>2

LEMMA MissPreserves ==
  ASSUME IInv, NEW c \in Clients, Miss(c)
  PROVE  IInv'
<1> DEFINE required == /\ Route(c).scope # NoScope /\ Route(c).required
                       /\ Call(c).key = NoKey
<1>1. CASE required
  <2>1. Advances(c, "shaping") BY <1>1, RaiseAdvances DEF Miss
  <2> QED BY <2>1, AdvancePreserves
<1>2. CASE ~required
  <2>1. Moved(c, "handling") BY <1>2 DEF IInv, Shape, Miss, Moved, RequestFields
  <2>2. Advances(c, "handling") BY <1>2, <2>1 DEF Advances, Miss, Locked
  <2> QED BY <2>2, AdvancePreserves
<1> QED BY <1>1, <1>2

LEMMA ReadSeqPreserves ==
  ASSUME IInv, NEW c \in Clients, ReadSeq(c)
  PROVE  IInv'
<1> DEFINE pc == CASE Me(c).answer.status = "ok"    -> "storing"
                   [] Me(c).answer.status = "crash" -> "finishing"
                   [] OTHER                         -> "shaping"
<1>1. Moved(c, pc) BY DEF IInv, Shape, ReadSeq, Moved, RequestFields, Me
<1>2. Advances(c, pc) BY <1>1 DEF Advances, ReadSeq, Locked
<1> QED BY <1>2, AdvancePreserves

LEMMA PayOutPreserves ==
  ASSUME IInv, NEW c \in Clients, PayOut(c)
  PROVE  IInv'
<1>1. PICK pc \in {"shaping", "finishing"} : Moved(c, pc)
  BY GoMoves, AttemptMoves DEF IInv, PayOut
<1>2. Advances(c, pc) BY <1>1 DEF Advances, PayOut, Locked
<1> QED BY <1>2, AdvancePreserves

LEMMA ShapeErrorPreserves ==
  ASSUME IInv, NEW c \in Clients, ShapeError(c)
  PROVE  IInv'
<1>1. Moved(c, "finishing") BY AttemptMoves, LeaveMoves DEF IInv, ShapeError
<1>2. Advances(c, "finishing") BY <1>1 DEF Advances, ShapeError, Locked
<1> QED BY <1>2, AdvancePreserves

(* c comes in or leaves for good: outside the lock before and after, or    *)
(* through the door of Enter, which nobody else passes meanwhile.          *)
LEMMA BorderPreserves ==
  ASSUME IInv, NEW c \in Clients, Shape',
         \A d \in Clients \ {c} : request'[d] = request[d],
         request'[c].pc # "idle" => request'[c].call \in Calls,
         Me(c).pc \notin Locked, request'[c].pc \notin Locked \ {"selecting"},
         UNCHANGED <<idempotent, handled, resets>>,
         \/ UNCHANGED lock /\ request'[c].pc \notin Locked
         \/ UNCHANGED lock /\ ~RouteOf[request'[c].call.route].serialized
         \/ lock = Nobody /\ lock' = c
  PROVE  IInv'
<1>1. KnownCalls' BY DEF IInv, KnownCalls, Call, Me
<1>2. Mutex'
  <2> SUFFICES ASSUME NEW d \in Clients, request'[d].pc \in Locked,
                      RouteOf[request'[d].call.route].serialized
               PROVE  lock' = d
    BY DEF Mutex, Route, Call, Me
  <2>1. CASE d = c BY <2>1
  <2>2. CASE d # c
    <3>1. lock = d BY <2>2 DEF IInv, Mutex, Route, Call, Me
    <3>2. lock # Nobody BY <3>1, PipelineAssumption
    <3> QED BY <3>1, <3>2
  <2> QED BY <2>1, <2>2
<1>3. Turns' BY DEF IInv, Turns
<1>4. Fresh' BY DEF IInv, Fresh, Stored, Call, Me, Locked
<1>5. Kept'
  <2> SUFFICES ASSUME NEW h \in handled, h.ends = "ok", h.slot # <<>>, h.scene = resets,
                      h.slot \notin DOMAIN idempotent
               PROVE  \E d \in Clients : Storing(d, h.slot)'
    BY DEF Kept
  <2>1. PICK d \in Clients : Storing(d, h.slot) BY DEF IInv, Kept
  <2>2. d # c BY <2>1 DEF Storing, Locked
  <2>3. Storing(d, h.slot)' BY <2>1, <2>2 DEF Storing, Call, Me
  <2> QED BY <2>3
<1>6. OneCommitPerKey' BY DEF IInv, OneCommitPerKey
<1> QED BY <1>1, <1>2, <1>3, <1>4, <1>5, <1>6 DEF IInv

LEMMA ArrivePreserves ==
  ASSUME IInv, NEW c \in Clients, NEW call \in Calls, Arrive(c, call)
  PROVE  IInv'
<1>1. /\ request'[c] = [NoRequest EXCEPT !.pc = "matched", !.id = sent + 1, !.call = call]
      /\ \A d \in Clients \ {c} : request'[d] = request[d]
  BY DEF IInv, Shape, Arrive
<1>2. request'[c].pc = "matched" /\ request'[c].call = call BY <1>1 DEF NoRequest
<1>3. Shape' BY DEF IInv, Shape, Arrive, RequestFields, NoRequest
<1> QED BY <1>1, <1>2, <1>3, BorderPreserves DEF Arrive, Locked

LEMMA EnterPreserves ==
  ASSUME IInv, NEW c \in Clients, Enter(c)
  PROVE  IInv'
<1>1. Moved(c, "selecting") BY DEF IInv, Shape, Enter, Moved, RequestFields
<1>2. Call(c) \in Calls BY DEF IInv, KnownCalls, Enter
<1> QED BY <1>1, <1>2, BorderPreserves DEF Enter, Moved, Locked, Route, Call, Me

LEMMA FinishPreserves ==
  ASSUME IInv, NEW c \in Clients, Finish(c)
  PROVE  IInv'
<1>1. /\ request'[c] = NoRequest
      /\ \A d \in Clients \ {c} : request'[d] = request[d]
  BY DEF IInv, Shape, Finish
<1>2. request'[c].pc = "idle" BY <1>1 DEF NoRequest
<1>3. Shape' BY DEF IInv, Shape, Finish, RequestFields, NoRequest
<1> QED BY <1>1, <1>2, <1>3, BorderPreserves DEF Finish, Locked

(* A reset finds the lock free, so no keyed request is inside, and opens a *)
(* scenario in which nothing was handled yet.                              *)
LEMMA ResetPreserves ==
  ASSUME IInv, StateReset
  PROVE  IInv'
<1>1. Shape' /\ KnownCalls' /\ Mutex'
  BY DEF IInv, StateReset, Shape, KnownCalls, Mutex, Route, Call, Me
<1>2. Turns' /\ Kept' BY DEF IInv, StateReset, Turns, Kept
<1>3. Fresh' BY DEF StateReset, Fresh, Stored
<1>4. OneCommitPerKey' BY DEF IInv, StateReset, OneCommitPerKey
<1> QED BY <1>1, <1>2, <1>3, <1>4 DEF IInv

(* The answer goes on record before the lock is let go. *)
LEMMA StorePreserves ==
  ASSUME IInv, NEW c \in Clients, Store(c)
  PROVE  IInv'
<1> DEFINE slot == Slot(Call(c))
<1>1. /\ Me(c).pc = "storing" /\ Moved(c, "paying_out")
      /\ UNCHANGED <<lock, handled, resets>>
  BY GoMoves DEF IInv, Store, StoreAnswer
<1>2. DOMAIN idempotent' = DOMAIN idempotent \cup ({slot} \ {<<>>})
  BY DEF IInv, Shape, Store, StoreAnswer
<1>3. KnownCalls' BY <1>1 DEF IInv, KnownCalls, Moved, Call, Me
<1>4. Mutex' BY <1>1 DEF IInv, Mutex, Moved, Route, Call, Me, Locked
<1>5. Turns' BY <1>1 DEF IInv, Turns
<1>6. Fresh'
  <2> SUFFICES ASSUME NEW d \in Clients, request'[d].pc = "handling",
                      Slot(request'[d].call) # <<>>
               PROVE  Slot(request'[d].call) \notin DOMAIN idempotent'
    BY DEF Fresh, Stored, Call, Me
  <2>1. d # c BY <1>1 DEF Moved
  <2>2. request'[d] = request[d] BY <1>1, <2>1 DEF Moved
  <2>3. slot = <<>>
    <3>1. lock = d BY <2>2, KeyHoldsLock DEF IInv, Locked, Call, Me
    <3>2. slot # <<>> => lock = c BY <1>1, KeyHoldsLock DEF IInv, Locked
    <3> QED BY <2>1, <3>1, <3>2
  <2> QED BY <1>2, <2>2, <2>3 DEF IInv, Fresh, Stored, Call, Me
<1>7. Kept'
  <2> SUFFICES ASSUME NEW h \in handled, h.ends = "ok", h.slot # <<>>, h.scene = resets,
                      h.slot \notin DOMAIN idempotent'
               PROVE  \E d \in Clients : Storing(d, h.slot)'
    BY <1>1 DEF Kept
  <2>1. PICK d \in Clients : Storing(d, h.slot) BY <1>2 DEF IInv, Kept
  <2>2. d # c BY <1>2, <2>1 DEF Storing
  <2>3. Storing(d, h.slot)' BY <1>1, <2>1, <2>2 DEF Moved, Storing, Call, Me
  <2> QED BY <2>3
<1>8. OneCommitPerKey' BY <1>1 DEF IInv, OneCommitPerKey
<1> QED BY <1>1, <1>3, <1>4, <1>5, <1>6, <1>7, <1>8 DEF IInv, Moved

(* Nobody handled this key before: an answer to it would be on record, or  *)
(* on its way there in a thread that holds the lock c holds.               *)
LEMMA UnansweredYet ==
  ASSUME IInv, NEW c \in Clients, Me(c).pc = "handling", Slot(Call(c)) # <<>>,
         NEW h \in handled, h.ends = "ok", h.slot = Slot(Call(c)), h.scene = resets
  PROVE  FALSE
<1>1. h.slot \notin DOMAIN idempotent BY DEF IInv, Fresh, Stored
<1>2. PICK d \in Clients : Storing(d, h.slot) BY <1>1 DEF IInv, Kept
<1>3. lock = d BY <1>2, KeyHoldsLock DEF IInv, Storing, Locked
<1>4. lock = c BY KeyHoldsLock DEF IInv, Locked
<1> QED BY <1>2, <1>3, <1>4 DEF Storing

LEMMA HandlePreserves ==
  ASSUME IInv, NEW c \in Clients, NEW ending, Handle(c, ending)
  PROVE  IInv'
<1> DEFINE commit == IF ending.commits THEN seq' ELSE 0
           new == [id |-> Me(c).id, turn |-> Cardinality(handled),
                   slot |-> Slot(Call(c)), scene |-> resets,
                   ends |-> ending.ends, commit |-> commit]
           answer == Answer(ending.ends, IF ending.ends = "ok" THEN commit ELSE 0)
<1>1. /\ Me(c).pc = "handling" /\ UNCHANGED <<lock, idempotent, resets>>
      /\ handled' = handled \cup {new}
      /\ Leave(c, "reading_seq", answer)
  BY DEF Handle
<1>2. Moved(c, "reading_seq") /\ request'[c].answer = answer
  BY <1>1, LeaveMoves DEF IInv
<1>3. answer.status = ending.ends BY DEF Answer
<1>4. KnownCalls' BY <1>1, <1>2 DEF IInv, KnownCalls, Moved, Call, Me
<1>5. Mutex' BY <1>1, <1>2 DEF IInv, Mutex, Moved, Route, Call, Me, Locked
<1>6. Fresh' BY <1>1, <1>2 DEF IInv, Fresh, Stored, Moved, Call, Me
<1>7. IsFiniteSet(handled) /\ Cardinality(handled) \in Nat
  BY FS_CardinalityType DEF IInv, Turns
<1>8. new \notin handled BY <1>7 DEF IInv, Turns
<1>9. IsFiniteSet(handled') /\ Cardinality(handled') = Cardinality(handled) + 1
  BY <1>1, <1>7, <1>8, FS_AddElement
<1>10. Turns'
  <2>1. resets' \in Nat /\ resets' = resets BY <1>1 DEF IInv, Turns
  <2>2. ASSUME NEW h \in handled'
        PROVE  /\ h.turn \in Nat /\ h.turn < Cardinality(handled')
               /\ h.scene \in Nat /\ h.scene <= resets
    <3>1. CASE h = new BY <2>1, <3>1, <1>7, <1>9
    <3>2. CASE h \in handled BY <3>2, <1>7, <1>9 DEF IInv, Turns
    <3> QED BY <1>1, <3>1, <3>2
  <2> QED BY <1>9, <2>1, <2>2 DEF Turns
<1>11. Kept'
  <2> SUFFICES ASSUME NEW h \in handled', h.ends = "ok", h.slot # <<>>, h.scene = resets,
                      h.slot \notin DOMAIN idempotent
               PROVE  \E d \in Clients : Storing(d, h.slot)'
    BY <1>1 DEF Kept
  <2>1. CASE h = new
    <3>1. h.slot = Slot(Call(c)) BY <2>1
    <3>2. ending.ends = "ok" BY <2>1
    <3>3. Storing(c, h.slot)'
      BY <1>2, <1>3, <3>1, <3>2 DEF Moved, Storing, Call, Me
    <3> QED BY <3>3
  <2>2. CASE h \in handled
    <3>1. PICK d \in Clients : Storing(d, h.slot) BY <2>2 DEF IInv, Kept
    <3>2. d # c BY <1>1, <3>1 DEF Storing
    <3>3. Storing(d, h.slot)' BY <1>2, <3>1, <3>2 DEF Moved, Storing, Call, Me
    <3> QED BY <3>3
  <2> QED BY <1>1, <2>1, <2>2
<1>12. OneCommitPerKey'
  <2> SUFFICES ASSUME NEW a \in handled', NEW b \in handled', a.ends = "ok", a.slot # <<>>,
                      a.slot = b.slot, a.scene = b.scene
               PROVE  b.turn <= a.turn
    BY DEF OneCommitPerKey
  <2>1. CASE a = new
    <3>1. a.turn = Cardinality(handled) BY <2>1
    <3>2. CASE b = new BY <2>1, <3>2, <1>7
    <3>3. CASE b \in handled BY <3>1, <3>3, <1>7 DEF IInv, Turns
    <3> QED BY <1>1, <3>2, <3>3
  <2>2. CASE a \in handled /\ b = new
    <3>1. b.slot = Slot(Call(c)) /\ b.scene = resets BY <2>2
    <3> QED BY <1>1, <2>2, <3>1, UnansweredYet
  <2>3. CASE a \in handled /\ b \in handled
    BY <2>3 DEF IInv, OneCommitPerKey
  <2> QED BY <1>1, <2>1, <2>2, <2>3
<1> QED BY <1>2, <1>4, <1>5, <1>6, <1>10, <1>11, <1>12 DEF IInv, Moved

LEMMA StutterPreserves == IInv /\ UNCHANGED pipelineVars => IInv'
BY DEF IInv, pipelineVars, Shape, KnownCalls, Mutex, Turns, Fresh, Stored, Kept, Storing,
       OneCommitPerKey, Route, Call, Me

LEMMA StepPreserves == IInv /\ [PipelineNext]_pipelineVars => IInv'
<1> SUFFICES ASSUME IInv, [PipelineNext]_pipelineVars PROVE IInv' OBVIOUS
<1>1. CASE StateReset BY <1>1, ResetPreserves
<1>2. ASSUME NEW c \in Clients, NEW call \in Calls, Arrive(c, call) PROVE IInv'
  BY <1>2, ArrivePreserves
<1>3. ASSUME NEW c \in Clients, Request_Next(c) PROVE IInv'
  <2>1. CASE Enter(c) BY <1>3, <2>1, EnterPreserves
  <2>2. CASE SelectInBand(c) \/ SelectRule(c) BY <1>3, <2>2, SelectPreserves
  <2>3. CASE Screen(c) BY <1>3, <2>3, ScreenPreserves
  <2>4. CASE Replay(c) BY <1>3, <2>4, ReplayPreserves
  <2>5. CASE Miss(c) BY <1>3, <2>5, MissPreserves
  <2>6. CASE \E ending \in UNION {Endings[r] : r \in Routes} : Handle(c, ending)
    BY <1>3, <2>6, HandlePreserves
  <2>7. CASE ReadSeq(c) BY <1>3, <2>7, ReadSeqPreserves
  <2>8. CASE Store(c) BY <1>3, <2>8, StorePreserves
  <2>9. CASE PayOut(c) BY <1>3, <2>9, PayOutPreserves
  <2>10. CASE ShapeError(c) BY <1>3, <2>10, ShapeErrorPreserves
  <2>11. CASE Finish(c) BY <1>3, <2>11, FinishPreserves
  <2> QED BY <1>3, <2>1, <2>2, <2>3, <2>4, <2>5, <2>6, <2>7, <2>8, <2>9, <2>10, <2>11
          DEF Request_Next
<1>4. CASE UNCHANGED pipelineVars BY <1>4, StutterPreserves
<1> QED BY <1>1, <1>2, <1>3, <1>4 DEF PipelineNext

(* One thread at a time is inside the pipeline with a key: the lock of     *)
(* Unit.handle excludes the others (unit.py:913).                          *)
THEOREM KeyedRequestsExclude == PipelineSpec => []Mutex
<1>1. PipelineSpec => []IInv BY InitEstablishes, StepPreserves, PTL DEF PipelineSpec
<1>2. IInv => Mutex BY DEF IInv
<1> QED BY <1>1, <1>2, PTL

(* However requests, faults and resets meet: once a request with a key was *)
(* handled and answered, no later request with it reaches a handler in the *)
(* same scenario (unit.py:1103).                                           *)
THEOREM KeysAreSafeToRetry == PipelineSpec => []OneCommitPerKey
<1>1. PipelineSpec => []IInv BY InitEstablishes, StepPreserves, PTL DEF PipelineSpec
<1>2. IInv => OneCommitPerKey BY DEF IInv
<1> QED BY <1>1, <1>2, PTL

(***************************************************************************)
(* What a request may say at each step, from what was drawn for it.        *)
(***************************************************************************)
Early == {"matched", "selecting"}
Inner == {"looking_up", "handling", "reading_seq", "storing", "paying_out"}
Phases == Early \cup {"screening"} \cup Inner \cup {"shaping", "finishing"}
RequestFaults == PreAuth \cup PostAuth

Statuses == {"none", "ok", "refused", "crash", "diagnostic", "unauthorized", "forbidden_scope",
             "conflict", "missing_field"} \cup RequestFaults
Answers == [status : Statuses, commit : Nat, fault : AllFaults \cup {"none"}, replay : BOOLEAN]
Decisions == [id : RuleIds \cup {Overlay, "none"}, fault : AllFaults \cup {"none"}]
Requests == [pc : Phases, id : Nat \ {0}, call : Calls, scene : Nat, decision : Decisions,
             before : Nat, after : Nat, attempted : BOOLEAN, answer : Answers]

Typed ==
  /\ \A c \in Clients : Me(c) = NoRequest \/ Me(c) \in Requests
  /\ answered \subseteq Requests
  /\ sent \in Nat /\ seq \in Nat /\ resets \in Nat
  /\ \A slot \in DOMAIN idempotent : idempotent[slot].answer \in Answers

LetIn(x) == RouteOf[x.call.route].auth => x.call.token = "good"

(* An answer that was raised: by the fault that was drawn, or by a payout  *)
(* that failed, or by neither.                                             *)
Raised(x) ==
  /\ ~x.answer.replay /\ x.answer.fault = "none"
  /\ IF x.attempted
       THEN x.answer.status = "diagnostic" /\ x.decision.fault = "bad_params"
       ELSE /\ x.answer.status \notin {"diagnostic", "crash"}
            /\ x.answer.status \in RequestFaults => x.answer.status = x.decision.fault
            /\ x.decision.fault \in PreAuth => x.answer.status = x.decision.fault
            /\ x.decision.fault \in PostAuth =>
                 x.answer.status \in {x.decision.fault, "unauthorized", "forbidden_scope"}

PaidFault(x) ==
  \/ x.decision.fault \in {"none", "unknown"}
  \/ x.answer.status \in {"crash", "diagnostic"}
  \/ /\ x.decision.fault \in PostAuth
     /\ x.answer.status \in {"unauthorized", "forbidden_scope"}
  \/ x.answer.fault = x.decision.fault

(* The answer that leaves. *)
Paid(x) ==
  /\ PaidFault(x)
  /\ (x.attempted /\ x.decision.fault # "slow_body")
       <=> (x.answer.status = "diagnostic" \/ x.answer.fault = "mangle")
  /\ x.answer.replay =>
       /\ x.answer.fault = IF x.decision.fault \in Response THEN x.decision.fault ELSE "none"
       /\ LetIn(x)

Course(x) ==
  /\ x.pc \in Early => x.decision = NoDecision
  /\ x.pc \in Early \cup {"screening"} \cup Inner => ~x.attempted /\ x.answer.fault = "none"
  /\ x.pc \in Early \cup {"screening", "looking_up", "handling"} => x.answer = Answer("none", 0)
  /\ x.pc \in Inner => x.decision.fault \notin RequestFaults /\ LetIn(x)
  /\ x.pc = "reading_seq" => x.answer.status \in {"ok", "refused", "crash"} /\ ~x.answer.replay
  /\ x.pc = "storing" => x.answer.status = "ok" /\ ~x.answer.replay
  /\ x.pc = "paying_out" => x.answer.status = "ok"
  /\ x.pc = "shaping" => Raised(x)
  /\ x.pc = "finishing" => Paid(x)

Recorded ==
  \A slot \in DOMAIN idempotent :
    LET answer == idempotent[slot].answer IN
      slot # <<>> /\ answer.fault = "none" /\ ~answer.replay /\ answer.status = "ok"

Courses ==
  /\ \A c \in Clients : Me(c).pc # "idle" => Course(Me(c))
  /\ \A x \in answered : x.pc = "finishing" /\ Course(x)

Told == Shape /\ Typed /\ Recorded /\ Courses /\ TypeOK

LEMMA FaultsAreKnown ==
  /\ \A r \in Rules : RuleOf[r].fault \in AllFaults /\ RuleOf[r].id \in RuleIds
  /\ \A call \in Calls : /\ call.route \in Routes
                         /\ call.token \in {"good", "narrow", "bad"}
                         /\ call.magic \in AllFaults \cup {"none"}
  /\ Overlay \notin RuleIds
<1>1. RuleOf \in [Rules -> RuleShape] /\ Overlay \notin RuleIds /\ Faults = AllFaults
  BY EngineAssumption, RulesAssumption
<1>2. \A r \in Rules : RuleOf[r].fault \in AllFaults /\ RuleOf[r].id \in RuleIds
  BY <1>1 DEF RuleShape
<1> QED BY <1>1, <1>2, PipelineAssumption

(* The fields a step leaves alone. *)
SameCall(c) == request'[c].id = request[c].id /\ request'[c].call = request[c].call
SameScene(c) == request'[c].scene = request[c].scene
SameDecision(c) == request'[c].decision = request[c].decision
SameWindow(c) == request'[c].before = request[c].before /\ request'[c].after = request[c].after
SameAnswer(c) == request'[c].attempted = request[c].attempted /\ request'[c].answer = request[c].answer
Others(c) == Shape' /\ \A d \in Clients \ {c} : request'[d] = request[d]

LEMMA GoIs ==
  ASSUME Shape, NEW c \in Clients, NEW pc, Go(c, pc)
  PROVE  /\ Others(c) /\ SameCall(c) /\ SameScene(c) /\ SameDecision(c) /\ SameWindow(c)
         /\ SameAnswer(c) /\ request'[c].pc = pc
BY DEF Shape, Go, RequestFields, Others, SameCall, SameScene, SameDecision, SameWindow, SameAnswer

LEMMA LeaveIs ==
  ASSUME Shape, NEW c \in Clients, NEW pc, NEW answer, Leave(c, pc, answer)
  PROVE  /\ Others(c) /\ SameCall(c) /\ SameScene(c) /\ SameDecision(c) /\ SameWindow(c)
         /\ request'[c].attempted = request[c].attempted
         /\ request'[c].pc = pc /\ request'[c].answer = answer
BY DEF Shape, Leave, RequestFields, Others, SameCall, SameScene, SameDecision, SameWindow

LEMMA DecideIs ==
  ASSUME Shape, NEW c \in Clients, NEW decision, Decide(c, decision)
  PROVE  /\ Others(c) /\ SameCall(c) /\ SameScene(c) /\ SameWindow(c) /\ SameAnswer(c)
         /\ request'[c].pc = "screening" /\ request'[c].decision = decision
BY DEF Shape, Decide, RequestFields, Others, SameCall, SameScene, SameWindow, SameAnswer

LEMMA AttemptIs ==
  ASSUME Shape, NEW c \in Clients, NEW pc, Attempt(c, pc)
  PROVE  /\ Others(c) /\ SameCall(c) /\ SameScene(c) /\ SameDecision(c) /\ SameWindow(c)
         /\ request'[c].pc = pc /\ request'[c].attempted = TRUE
         /\ request'[c].answer = PaidOut(c)
BY DEF Shape, Attempt, RequestFields, Others, SameCall, SameScene, SameDecision, SameWindow

(* A request whose fields are right is one. *)
LEMMA FieldsMakeRequest ==
  ASSUME NEW y, DOMAIN y = RequestFields, y = [f \in RequestFields |-> y[f]],
         y.pc \in Phases, y.id \in Nat \ {0}, y.call \in Calls, y.scene \in Nat,
         y.decision \in Decisions, y.before \in Nat, y.after \in Nat, y.attempted \in BOOLEAN,
         y.answer \in Answers
  PROVE  y \in Requests
BY DEF Requests, RequestFields

(* What is left to show of a step that only moves c. *)
Goes(c) == request'[c] \in Requests /\ Course(request'[c]) /\ Me(c).pc # "idle"

LEMMA FieldsGo ==
  ASSUME Told, NEW c \in Clients, Others(c),
         request'[c].pc \in Phases, SameCall(c), request'[c].scene \in Nat,
         request'[c].decision \in Decisions, request'[c].before \in Nat,
         request'[c].after \in Nat, request'[c].attempted \in BOOLEAN,
         request'[c].answer \in Answers, Me(c).pc # "idle"
  PROVE  request'[c] \in Requests
<1>1. /\ DOMAIN request'[c] = RequestFields
      /\ request'[c] = [f \in RequestFields |-> request'[c][f]]
  BY DEF Others, Shape
<1>2. request[c] \in Requests
  BY DEF Told, Typed, Me, NoRequest
<1>3. request[c].id \in Nat \ {0} /\ request[c].call \in Calls
  BY <1>2 DEF Requests
<1> QED
  BY <1>1, <1>3, FieldsMakeRequest DEF SameCall

(* The fields of a request on its way. *)
LEMMA FieldsAre ==
  ASSUME Told, NEW c \in Clients, Me(c).pc # "idle"
  PROVE  /\ request[c] \in Requests /\ Course(request[c])
         /\ request[c].pc \in Phases /\ request[c].id \in Nat \ {0}
         /\ request[c].call \in Calls /\ request[c].scene \in Nat
         /\ request[c].decision \in Decisions /\ request[c].before \in Nat
         /\ request[c].after \in Nat /\ request[c].attempted \in BOOLEAN
         /\ request[c].answer \in Answers
         /\ request[c].decision.fault \in AllFaults \cup {"none"}
         /\ request[c].answer.status \in Statuses /\ request[c].answer.commit \in Nat
         /\ request[c].answer.fault \in AllFaults \cup {"none"}
         /\ request[c].answer.replay \in BOOLEAN
<1>1. request[c] \in Requests
  BY DEF Told, Typed, Me, NoRequest
<1>2. request[c].decision \in Decisions /\ request[c].answer \in Answers
  BY <1>1 DEF Requests
<1> QED
  BY <1>1, <1>2 DEF Requests, Decisions, Answers, Told, Courses, Me

LEMMA AnswerIs ==
  ASSUME NEW status \in Statuses, NEW commit \in Nat
  PROVE  /\ Answer(status, commit) \in Answers
         /\ Answer(status, commit).status = status /\ Answer(status, commit).commit = commit
         /\ Answer(status, commit).fault = "none" /\ Answer(status, commit).replay = FALSE
BY DEF Answer, Answers, Statuses

(* A raise that the drawn fault explains, or that has no fault's name. *)
LEMMA RaiseGoes ==
  ASSUME Told, NEW c \in Clients, Me(c).pc \in {"screening", "looking_up"},
         NEW status \in Statuses, Raise(c, status),
         Raised([attempted |-> FALSE, decision |-> Me(c).decision,
                 answer |-> Answer(status, 0)])
  PROVE  Goes(c) /\ Others(c)
<1>1. /\ Others(c) /\ SameCall(c) /\ SameScene(c) /\ SameDecision(c) /\ SameWindow(c)
      /\ request'[c].attempted = request[c].attempted
      /\ request'[c].pc = "shaping" /\ request'[c].answer = Answer(status, 0)
  BY LeaveIs DEF Told, Raise
<1>2. Me(c).pc # "idle"
  OBVIOUS
<1>3. request[c].attempted = FALSE
  BY <1>2, FieldsAre DEF Course, Me, Inner
<1>4. request'[c] \in Requests
  <2>1. /\ request'[c].scene \in Nat /\ request'[c].decision \in Decisions
        /\ request'[c].before \in Nat /\ request'[c].after \in Nat
    BY <1>1, <1>2, FieldsAre DEF SameScene, SameDecision, SameWindow
  <2>2. request'[c].answer \in Answers
    BY <1>1 DEF Answer, Answers
  <2> QED
    BY <1>1, <1>2, <1>3, <2>1, <2>2, FieldsGo DEF Phases
<1>5. Raised(request'[c])
  BY <1>1, <1>3 DEF Raised, SameDecision, Me
<1> QED
  BY <1>1, <1>2, <1>4, <1>5 DEF Goes, Course, Early, Inner

LEMMA ArriveGoes ==
  ASSUME Told, NEW c \in Clients, NEW call \in Calls, Arrive(c, call)
  PROVE  /\ Others(c) /\ request'[c] \in Requests /\ Course(request'[c])
         /\ request'[c].id = sent + 1 /\ request'[c].call = call /\ request'[c].pc = "matched"
         /\ request'[c].answer.replay = FALSE /\ request'[c].before = 0 /\ request'[c].after = 0
<1> DEFINE y == [pc |-> "matched", id |-> sent + 1, call |-> call, scene |-> 0,
                 decision |-> NoDecision, before |-> 0, after |-> 0,
                 attempted |-> FALSE, answer |-> Answer("none", 0)]
<1>1. request'[c] = y
  BY DEF Told, Shape, Arrive, NoRequest
<1>2. \A d \in Clients \ {c} : request'[d] = request[d]
  BY DEF Told, Shape, Arrive
<1>3. Shape'
  BY DEF Told, Shape, Arrive, RequestFields, NoRequest
<1>4. sent \in Nat
  BY DEF Told, Typed
<1>5. y \in Requests
  <2>1. Answer("none", 0) \in Answers
    BY DEF Answer, Answers, Statuses
  <2>2. NoDecision \in Decisions
    BY DEF Decisions, NoDecision
  <2> QED
    BY <1>4, <2>1, <2>2 DEF Requests, Phases, Early
<1>6. Course(y)
  BY DEF Course, Early, Inner, Answer
<1> QED
  BY <1>1, <1>2, <1>3, <1>5, <1>6 DEF Others, Answer

LEMMA EnterGoes ==
  ASSUME Told, NEW c \in Clients, Enter(c)
  PROVE  /\ Goes(c) /\ Others(c) /\ SameCall(c) /\ SameDecision(c) /\ SameWindow(c)
         /\ SameAnswer(c) /\ request'[c].pc = "selecting" /\ request'[c].scene = resets
<1>1. /\ Others(c) /\ SameCall(c) /\ SameDecision(c) /\ SameWindow(c)
      /\ SameAnswer(c) /\ request'[c].pc = "selecting" /\ request'[c].scene = resets
  BY DEF Told, Shape, Enter, RequestFields, Others, SameCall, SameDecision, SameWindow, SameAnswer
<1>2. Me(c).pc = "matched" /\ Me(c).pc # "idle"
  BY DEF Enter
<1>3. request'[c] \in Requests
  BY <1>1, <1>2, FieldsAre, FieldsGo
     DEF SameAnswer, SameDecision, SameWindow, Phases, Early, Told, Typed
<1>4. Course(request[c]) /\ request[c].pc = "matched"
  BY <1>2, FieldsAre DEF Me
<1> QED
  BY <1>1, <1>2, <1>3, <1>4 DEF Goes, Course, Early, Inner, SameAnswer, SameDecision


(***************************************************************************)
(* What an evaluation does to the engine: it remembers one rule that fired *)
(* and counts that fire, or none.                                          *)
(***************************************************************************)
Firings == [id : RuleIds \cup {Overlay}, rule : Rules \cup {Overlay},
            subject : Routes, occurrence : Nat]

Fires(id) == state[id].fires

FiredBy(id, rule) ==
  /\ Len(history') = Len(history) + 1
  /\ Last(history').id = id /\ Last(history').rule = rule
  /\ \A other \in RuleIds : Fires(other)' = Fires(other) + IF other = id THEN 1 ELSE 0

LEMMA CountsAreNat ==
  ASSUME TypeOK, NEW subject, NEW id, NEW n \in Nat
  PROVE  Counted(subject, id, n) \in Nat
<1>1. IsFiniteSet(1..n)
  BY FS_Interval
<1> DEFINE counted == {i \in 1..n : Id(i) = id /\ Matches(i, subject)}
<1>2. counted \subseteq 1..n
  OBVIOUS
<1>3. Counted(subject, id, n) = Cardinality(counted)
  BY DEF Counted
<1> HIDE DEF counted
<1>4. Cardinality(counted) \in Nat
  BY <1>1, <1>2, FS_Subset, FS_CardinalityType
<1> QED
  BY <1>3, <1>4

LEMMA ChosenIsOne ==
  ASSUME NEW subject, NEW draws, NEW i \in Chosen(subject, draws),
         rules \in Seq(Rules)
  PROVE  Chosen(subject, draws) = {i} /\ i \in 1..Len(rules)
<1>1. Len(rules) \in Nat
  OBVIOUS
<1>2. Chosen(subject, draws) \subseteq 1..Len(rules)
  BY DEF Chosen
<1>3. \A k \in Chosen(subject, draws) : i <= k /\ k <= i
  BY DEF Chosen
<1> QED
  BY <1>1, <1>2, <1>3

LEMMA EvaluateIs ==
  ASSUME TypeOK, NEW subject \in Routes, Evaluate(subject)
  PROVE  /\ TypeOK' /\ rules' = rules
         /\ \/ history' = history /\ \A id \in RuleIds : Fires(id)' = Fires(id)
            \/ \E r \in Rules : FiredBy(RuleOf[r].id, r)
<1>1. PICK draws : EvaluateWith(subject, Chosen(subject, draws))
  BY DEF Evaluate
<1> DEFINE chosen == Chosen(subject, draws)
<1>2. /\ rules \in Seq(Rules) /\ state \in [RuleIds -> [matches : Nat, fires : Nat]]
      /\ enabled \in BOOLEAN /\ trace \in Seq(Routes) /\ since \in [RuleIds -> 0 .. Len(trace)]
      /\ history \in Seq(Firings)
  BY DEF TypeOK, Firings
<1>3. rules' = rules /\ enabled' = enabled /\ since' = since
  BY <1>1 DEF EvaluateWith
<1>4. CASE ~enabled
  <2>1. UNCHANGED <<state, history, trace>>
    BY <1>1, <1>4 DEF EvaluateWith
  <2> QED
    BY <1>3, <2>1 DEF TypeOK, Fires
<1>5. CASE enabled
  <2>1. /\ CountMatches(subject, chosen)
        /\ Remember(subject, chosen)
        /\ trace' = Append(trace, subject)
    BY <1>1, <1>5 DEF EvaluateWith
  <2>2. trace' \in Seq(Routes) /\ since' \in [RuleIds -> 0 .. Len(trace')]
    BY <1>2, <1>3, <2>1
  <2>3. \A id : Fired(chosen, id) = IF \E i \in chosen : Id(i) = id THEN 1 ELSE 0
    BY DEF Fired
  <2> DEFINE next(id) == [matches |-> state[id].matches + Counted(subject, id, Len(rules)),
                          fires   |-> state[id].fires + Fired(chosen, id)]
  <2>4. state' = [id \in RuleIds |-> next(id)]
    BY <2>1 DEF CountMatches
  <2>5. ASSUME NEW id \in RuleIds
        PROVE  /\ next(id) \in [matches : Nat, fires : Nat]
               /\ Fires(id)' = Fires(id) + Fired(chosen, id)
    <3>1. Counted(subject, id, Len(rules)) \in Nat
      BY <1>2, CountsAreNat
    <3>2. Fired(chosen, id) \in Nat
      BY <2>3
    <3>3. state[id].matches \in Nat /\ state[id].fires \in Nat
      BY <1>2
    <3>4. state'[id] = next(id)
      BY <2>4
    <3> QED
      BY <3>1, <3>2, <3>3, <3>4 DEF Fires
  <2> HIDE DEF next
  <2>6. state' \in [RuleIds -> [matches : Nat, fires : Nat]]
    BY <2>4, <2>5
  <2>7. CASE chosen = {}
    <3>1. history' = history
      BY <2>1, <2>7 DEF Remember
    <3>2. \A id \in RuleIds : Fires(id)' = Fires(id)
      <4> SUFFICES ASSUME NEW id \in RuleIds PROVE Fires(id)' = Fires(id)
        OBVIOUS
      <4>1. Fired(chosen, id) = 0 /\ Fires(id) \in Nat
        BY <1>2, <2>3, <2>7 DEF Fires
      <4> QED
        BY <2>5, <4>1
    <3> QED
      BY <1>2, <1>3, <2>2, <2>6, <3>1, <3>2 DEF TypeOK
  <2>8. CASE chosen # {}
    <3>1. PICK i \in chosen :
            history' = Append(history, [id |-> Id(i), rule |-> rules[i],
                                        subject |-> subject,
                                        occurrence |-> Occurrence(subject, i)])
      BY <2>1, <2>8 DEF Remember
    <3>2. chosen = {i} /\ i \in 1..Len(rules)
      BY <1>2, ChosenIsOne
    <3>3. rules[i] \in Rules /\ i \in Nat
      BY <1>2, <3>2
    <3>4. Id(i) = RuleOf[rules[i]].id /\ Id(i) \in RuleIds
      BY <3>3, FaultsAreKnown DEF Id
    <3>5. Occurrence(subject, i) \in Nat
      <4>1. Counted(subject, Id(i), i) \in Nat
        BY <3>3, CountsAreNat
      <4>2. state[Id(i)].matches \in Nat
        BY <1>2, <3>4
      <4> QED
        BY <4>1, <4>2 DEF Occurrence
    <3> DEFINE fired == [id |-> Id(i), rule |-> rules[i], subject |-> subject,
                         occurrence |-> Occurrence(subject, i)]
    <3>6. fired \in Firings /\ fired.id = Id(i) /\ fired.rule = rules[i]
      BY <3>3, <3>4, <3>5 DEF Firings
    <3> HIDE DEF fired
    <3>7. history' = Append(history, fired)
      BY <3>1 DEF fired
    <3>8. history' \in Seq(Firings) /\ Len(history') = Len(history) + 1 /\ Last(history') = fired
      BY <1>2, <3>6, <3>7 DEF Last
    <3>9. \A id \in RuleIds : Fires(id)' = Fires(id) + IF id = Id(i) THEN 1 ELSE 0
      BY <2>3, <2>5, <3>2
    <3>10. FiredBy(Id(i), rules[i])
      BY <3>6, <3>8, <3>9 DEF FiredBy
    <3>11. TypeOK'
      BY <1>2, <1>3, <2>2, <2>6, <3>8 DEF TypeOK, Firings
    <3> QED
      BY <1>3, <3>3, <3>4, <3>10, <3>11
  <2> QED
    BY <2>7, <2>8
<1> QED
  BY <1>2, <1>4, <1>5

LEMMA OverlayIs ==
  ASSUME TypeOK, NEW subject \in Routes, RecordOverlay(subject)
  PROVE  /\ TypeOK' /\ rules' = rules /\ state' = state
         /\ Len(history') = Len(history) + 1
<1> DEFINE fired == [id |-> Overlay, rule |-> Overlay, subject |-> subject, occurrence |-> 1]
<1>1. fired \in Firings
  BY DEF Firings
<1> HIDE DEF fired
<1>2. history \in Seq(Firings) /\ history' = Append(history, fired)
  BY DEF TypeOK, Firings, RecordOverlay, fired
<1>3. history' \in Seq(Firings) /\ Len(history') = Len(history) + 1
  BY <1>1, <1>2
<1> QED
  BY <1>3 DEF TypeOK, Firings, RecordOverlay


(* What step 3 drew is what it remembered. *)
Drew(c) ==
  LET decision == request'[c].decision IN
  \/ /\ decision = NoDecision /\ Len(history') = Len(history)
     /\ \A id \in RuleIds : Fires(id)' = Fires(id)
  \/ /\ decision # NoDecision /\ Len(history') = Len(history) + 1
     /\ \A id \in RuleIds : Fires(id)' = Fires(id) + IF id = decision.id THEN 1 ELSE 0

LEMMA SelectGoes ==
  ASSUME Told, NEW c \in Clients, SelectInBand(c) \/ SelectRule(c)
  PROVE  /\ Goes(c) /\ Others(c) /\ SameCall(c) /\ SameScene(c) /\ SameWindow(c)
         /\ SameAnswer(c) /\ request'[c].pc = "screening" /\ Me(c).pc = "selecting"
         /\ TypeOK' /\ rules' = rules /\ Drew(c)
<1>1. Me(c).pc = "selecting" /\ Me(c).pc # "idle" /\ request[c].pc = "selecting"
  BY DEF SelectInBand, SelectRule, Me
<1>2. Call(c).route \in Routes /\ Call(c).magic \in AllFaults \cup {"none"}
  BY <1>1, FieldsAre, FaultsAreKnown DEF Call, Me
<1>3. PICK decision \in Decisions :
        /\ Decide(c, decision) /\ TypeOK' /\ rules' = rules
        /\ \/ /\ decision = NoDecision /\ Len(history') = Len(history)
              /\ \A id \in RuleIds : Fires(id)' = Fires(id)
           \/ /\ decision # NoDecision /\ Len(history') = Len(history) + 1
              /\ \A id \in RuleIds : Fires(id)' = Fires(id) + IF id = decision.id THEN 1 ELSE 0
  <2>1. CASE SelectInBand(c)
    <3> DEFINE decision == [id |-> Overlay, fault |-> Call(c).magic]
    <3>1. /\ TypeOK' /\ rules' = rules /\ state' = state
          /\ Len(history') = Len(history) + 1
      BY <1>2, <2>1, OverlayIs DEF Told, SelectInBand
    <3>2. Decide(c, decision) /\ Call(c).magic # "none"
      BY <2>1 DEF SelectInBand
    <3>3. decision \in Decisions /\ decision # NoDecision /\ decision.id = Overlay
      BY <1>2, <3>2 DEF Decisions, NoDecision
    <3>4. \A id \in RuleIds : /\ Fires(id)' = Fires(id) + IF id = decision.id THEN 1 ELSE 0
      <4> SUFFICES ASSUME NEW id \in RuleIds PROVE Fires(id)' = Fires(id) /\ Fires(id) \in Nat
        BY <3>3, FaultsAreKnown
      <4> QED
        BY <3>1 DEF Fires, Told, TypeOK
    <3> QED
      BY <3>1, <3>2, <3>3, <3>4
  <2>2. CASE SelectRule(c)
    <3>1. /\ TypeOK' /\ rules' = rules
          /\ \/ history' = history /\ \A id \in RuleIds : Fires(id)' = Fires(id)
             \/ \E r \in Rules : FiredBy(RuleOf[r].id, r)
      BY <1>2, <2>2, EvaluateIs DEF Told, SelectRule
    <3>2. CASE history' = history /\ \A id \in RuleIds : Fires(id)' = Fires(id)
      <4>1. Decide(c, NoDecision)
        BY <2>2, <3>2 DEF SelectRule
      <4>2. NoDecision \in Decisions
        BY DEF NoDecision, Decisions
      <4> QED
        BY <3>1, <3>2, <4>1, <4>2
    <3>3. ASSUME NEW r \in Rules, FiredBy(RuleOf[r].id, r)
          PROVE  /\ [id |-> RuleOf[r].id, fault |-> RuleOf[r].fault] \in Decisions
                 /\ [id |-> RuleOf[r].id, fault |-> RuleOf[r].fault] # NoDecision
                 /\ Decide(c, [id |-> RuleOf[r].id, fault |-> RuleOf[r].fault])
      <4>1. RuleOf[r].id \in RuleIds /\ RuleOf[r].fault \in AllFaults /\ "none" \notin AllFaults
        BY FaultsAreKnown DEF AllFaults, PreAuth, PostAuth, Response
      <4>2. Last(history').id = RuleOf[r].id /\ Last(history').rule = r
        BY <3>3 DEF FiredBy
      <4>3. history' # history
        <5>1. Len(history) \in Nat /\ Len(history') = Len(history) + 1
          BY <3>3 DEF FiredBy, Told, TypeOK
        <5>2. \A n \in Nat : n # n + 1
          OBVIOUS
        <5>3. Len(history') # Len(history)
          BY <5>1, <5>2
        <5> QED
          BY <5>3
      <4>4. Decide(c, [id |-> RuleOf[r].id, fault |-> RuleOf[r].fault])
        BY <2>2, <4>2, <4>3 DEF SelectRule
      <4> QED
        BY <4>1, <4>4 DEF Decisions, NoDecision
    <3>4. CASE \E r \in Rules : FiredBy(RuleOf[r].id, r)
      <4>1. PICK r \in Rules : FiredBy(RuleOf[r].id, r)
        BY <3>4
      <4> DEFINE decision == [id |-> RuleOf[r].id, fault |-> RuleOf[r].fault]
      <4>2. decision \in Decisions /\ decision # NoDecision /\ Decide(c, decision)
        BY <3>3, <4>1
      <4>3. decision.id = RuleOf[r].id
        OBVIOUS
      <4> HIDE DEF decision
      <4>4. /\ Len(history') = Len(history) + 1
            /\ \A id \in RuleIds : Fires(id)' = Fires(id) + IF id = decision.id THEN 1 ELSE 0
        BY <4>1, <4>3 DEF FiredBy
      <4> QED
        BY <3>1, <4>2, <4>4
    <3> QED
      BY <3>1, <3>2, <3>4
  <2> QED
    BY <2>1, <2>2
<1>4. /\ Others(c) /\ SameCall(c) /\ SameScene(c) /\ SameWindow(c) /\ SameAnswer(c)
      /\ request'[c].pc = "screening" /\ request'[c].decision = decision
  BY <1>3, DecideIs DEF Told
<1>5. request'[c] \in Requests
  BY <1>1, <1>4, FieldsAre, FieldsGo DEF SameScene, SameWindow, SameAnswer, Phases
<1>6. Course(request'[c])
  BY <1>1, <1>4, FieldsAre DEF Course, Early, Inner, SameAnswer
<1> QED
  BY <1>1, <1>3, <1>4, <1>5, <1>6 DEF Goes, Drew

(* Steps that only move on. *)
LEMMA GoGoes ==
  ASSUME Told, NEW c \in Clients, NEW pc \in Phases, Go(c, pc), Me(c).pc # "idle"
  PROVE  /\ Others(c) /\ SameCall(c) /\ SameScene(c) /\ SameDecision(c) /\ SameWindow(c)
         /\ SameAnswer(c) /\ request'[c].pc = pc /\ request'[c] \in Requests
<1>1. /\ Others(c) /\ SameCall(c) /\ SameScene(c) /\ SameDecision(c) /\ SameWindow(c)
      /\ SameAnswer(c) /\ request'[c].pc = pc
  BY GoIs DEF Told
<1>2. request'[c] \in Requests
  BY <1>1, FieldsAre, FieldsGo DEF SameScene, SameDecision, SameWindow, SameAnswer
<1> QED
  BY <1>1, <1>2

LEMMA ScreenGoes ==
  ASSUME Told, NEW c \in Clients, Screen(c)
  PROVE  /\ Goes(c) /\ Others(c) /\ SameCall(c) /\ SameScene(c) /\ SameWindow(c)
         /\ ~request'[c].answer.replay /\ Me(c).pc = "screening"
         /\ request'[c].pc \in {"looking_up", "shaping"}
         /\ SameDecision(c)
<1>1. Me(c).pc = "screening" /\ request[c].pc = "screening" /\ Me(c).pc # "idle"
  BY DEF Screen, Me
<1>2. Course(request[c]) /\ request[c].call \in Calls
  BY <1>1, FieldsAre
<1>3. CASE Refused(c) = "passed"
  <2>1. Go(c, "looking_up")
    BY <1>3 DEF Screen
  <2>2. /\ Others(c) /\ SameCall(c) /\ SameScene(c) /\ SameDecision(c) /\ SameWindow(c)
        /\ SameAnswer(c) /\ request'[c].pc = "looking_up" /\ request'[c] \in Requests
    BY <1>1, <2>1, GoGoes DEF Phases, Inner
  <2>3. Fault(c) \notin PreAuth /\ Fault(c) \notin PostAuth
    BY <1>3 DEF Refused, FirstRefusal, PreAuth, PostAuth
  <2>4. Route(c).auth => Call(c).token \notin {"bad", "narrow"}
    BY <1>3, <2>3 DEF Refused, FirstRefusal
  <2>5. Call(c).token \in {"good", "narrow", "bad"}
    BY <1>2, FaultsAreKnown DEF Call, Me
  <2>6. LetIn(request'[c])
    BY <2>2, <2>4, <2>5 DEF LetIn, SameCall, Route, Call, Me
  <2>7. ~request[c].attempted /\ request[c].answer = Answer("none", 0)
    BY <1>1, <1>2 DEF Course
  <2>8. request[c].answer.fault = "none" /\ request[c].answer.replay = FALSE
    BY <2>7 DEF Answer
  <2>9. request'[c].decision.fault \notin RequestFaults
    BY <2>2, <2>3 DEF SameDecision, RequestFaults, Fault, Me
  <2>10. Course(request'[c])
    BY <2>2, <2>6, <2>7, <2>8, <2>9 DEF Course, Early, Inner, SameAnswer
  <2> QED
    BY <1>1, <2>2, <2>8, <2>10 DEF Goes, SameAnswer
<1>4. CASE Refused(c) # "passed"
  <2> DEFINE status == Refused(c)
  <2>1. Raise(c, status)
    BY <1>4 DEF Screen
  <2>2. /\ status \in RequestFaults \cup {"unauthorized", "forbidden_scope"}
        /\ status \in RequestFaults => status = Fault(c)
        /\ Fault(c) \in PreAuth => status = Fault(c)
        /\ Fault(c) \in PostAuth => status \in {Fault(c), "unauthorized", "forbidden_scope"}
    BY <1>4 DEF Refused, FirstRefusal, PreAuth, PostAuth, RequestFaults
  <2> HIDE DEF status
  <2>3. Raised([attempted |-> FALSE, decision |-> Me(c).decision, answer |-> Answer(status, 0)])
    BY <2>2 DEF Raised, Answer, Fault, RequestFaults, PreAuth, PostAuth
  <2>4. status \in Statuses
    BY <2>2 DEF Statuses
  <2>5. Goes(c) /\ Others(c)
    BY <1>1, <2>1, <2>3, <2>4, RaiseGoes
  <2>6. /\ SameCall(c) /\ SameScene(c) /\ SameWindow(c) /\ SameDecision(c)
        /\ request'[c].pc = "shaping" /\ request'[c].answer = Answer(status, 0)
    BY <2>1, LeaveIs DEF Told, Raise
  <2>7. ~request'[c].answer.replay
    BY <2>6 DEF Answer
  <2> QED
    BY <1>1, <2>5, <2>6, <2>7
<1> QED
  BY <1>3, <1>4


LEMMA ReplayGoes ==
  ASSUME Told, NEW c \in Clients, Replay(c)
  PROVE  /\ Goes(c) /\ Others(c) /\ SameCall(c) /\ SameScene(c) /\ SameWindow(c)
         /\ SameDecision(c) /\ Me(c).pc = "looking_up" /\ Stored(c)
         /\ \/ request'[c].pc = "shaping" /\ ~request'[c].answer.replay
            \/ /\ request'[c].pc = "paying_out"
               /\ request'[c].answer.commit = idempotent[Slot(Call(c))].answer.commit
<1>1. Me(c).pc = "looking_up" /\ request[c].pc = "looking_up" /\ Me(c).pc # "idle" /\ Stored(c)
  BY DEF Replay, Me
<1>2. Course(request[c])
  BY <1>1, FieldsAre
<1>3. ~request[c].attempted /\ request[c].decision.fault \notin RequestFaults /\ LetIn(request[c])
  BY <1>1, <1>2 DEF Course, Inner
<1>4. CASE Conflicts(c)
  <2>1. Raise(c, "conflict")
    BY <1>4 DEF Replay
  <2>2. Raised([attempted |-> FALSE, decision |-> Me(c).decision,
                answer |-> Answer("conflict", 0)])
    BY <1>3 DEF Raised, Answer, RequestFaults, PreAuth, PostAuth, Me
  <2>3. Goes(c) /\ Others(c)
    BY <1>1, <2>1, <2>2, RaiseGoes DEF Statuses
  <2>4. /\ SameCall(c) /\ SameScene(c) /\ SameWindow(c) /\ SameDecision(c)
        /\ request'[c].pc = "shaping" /\ request'[c].answer = Answer("conflict", 0)
    BY <2>1, LeaveIs DEF Told, Raise
  <2> QED
    BY <1>1, <2>3, <2>4 DEF Answer
<1>5. CASE ~Conflicts(c)
  <2>1. Leave(c, "paying_out", ReplayOf(c))
    BY <1>5 DEF Replay
  <2>2. /\ Others(c) /\ SameCall(c) /\ SameScene(c) /\ SameDecision(c) /\ SameWindow(c)
        /\ request'[c].attempted = request[c].attempted
        /\ request'[c].pc = "paying_out" /\ request'[c].answer = ReplayOf(c)
    BY <2>1, LeaveIs DEF Told
  <2> DEFINE stored == idempotent[Slot(Call(c))].answer
  <2>3. stored \in Answers /\ stored.fault = "none" /\ stored.status = "ok"
    BY <1>1 DEF Told, Typed, Recorded, Stored
  <2>4. ReplayOf(c) = [stored EXCEPT !.replay = TRUE]
    BY DEF ReplayOf
  <2> HIDE DEF stored
  <2>5. /\ ReplayOf(c) \in Answers /\ ReplayOf(c).fault = "none" /\ ReplayOf(c).status = "ok"
        /\ ReplayOf(c).commit = stored.commit
    BY <2>3, <2>4 DEF Answers
  <2>6. request'[c] \in Requests
    BY <1>1, <2>2, <2>5, FieldsAre, FieldsGo
       DEF SameScene, SameDecision, SameWindow, Phases, Inner
  <2>7. LetIn(request'[c])
    BY <1>3, <2>2 DEF LetIn, SameCall
  <2>8. Course(request'[c])
    BY <1>3, <2>2, <2>5, <2>7 DEF Course, Early, Inner, SameDecision
  <2>9. request'[c].answer.commit = idempotent[Slot(Call(c))].answer.commit
    BY <2>2, <2>5 DEF stored
  <2> QED
    BY <1>1, <2>2, <2>6, <2>8, <2>9 DEF Goes
<1> QED
  BY <1>4, <1>5

LEMMA MissGoes ==
  ASSUME Told, NEW c \in Clients, Miss(c)
  PROVE  /\ Goes(c) /\ Others(c) /\ SameCall(c) /\ SameScene(c)
         /\ SameDecision(c) /\ Me(c).pc = "looking_up" /\ ~request'[c].answer.replay
         /\ \/ request'[c].pc = "shaping" /\ SameWindow(c)
            \/ request'[c].pc = "handling" /\ request'[c].before = seq
<1>1. Me(c).pc = "looking_up" /\ request[c].pc = "looking_up" /\ Me(c).pc # "idle"
  BY DEF Miss, Me
<1>2. Course(request[c])
  BY <1>1, FieldsAre
<1>3. /\ ~request[c].attempted /\ request[c].decision.fault \notin RequestFaults
      /\ LetIn(request[c]) /\ request[c].answer = Answer("none", 0)
  BY <1>1, <1>2 DEF Course, Inner
<1>4. CASE Route(c).scope # NoScope /\ Route(c).required /\ Call(c).key = NoKey
  <2>1. Raise(c, "missing_field")
    BY <1>4 DEF Miss
  <2>2. Raised([attempted |-> FALSE, decision |-> Me(c).decision,
                answer |-> Answer("missing_field", 0)])
    BY <1>3 DEF Raised, Answer, RequestFaults, PreAuth, PostAuth, Me
  <2>3. Goes(c) /\ Others(c)
    BY <1>1, <2>1, <2>2, RaiseGoes DEF Statuses
  <2>4. /\ SameCall(c) /\ SameScene(c) /\ SameWindow(c) /\ SameDecision(c)
        /\ request'[c].pc = "shaping" /\ request'[c].answer = Answer("missing_field", 0)
    BY <2>1, LeaveIs DEF Told, Raise
  <2> QED
    BY <1>1, <2>3, <2>4 DEF Answer
<1>5. CASE ~(Route(c).scope # NoScope /\ Route(c).required /\ Call(c).key = NoKey)
  <2>1. request' = [request EXCEPT ![c].pc = "handling", ![c].before = seq]
    BY <1>5 DEF Miss
  <2>2. /\ Others(c) /\ SameCall(c) /\ SameScene(c) /\ SameDecision(c) /\ SameAnswer(c)
        /\ request'[c].pc = "handling" /\ request'[c].before = seq
        /\ request'[c].after = request[c].after
    BY <2>1 DEF Told, Shape, RequestFields, Others, SameCall, SameScene, SameDecision, SameAnswer
  <2>3. request'[c] \in Requests
    BY <1>1, <2>2, FieldsAre, FieldsGo
       DEF SameScene, SameDecision, SameAnswer, Phases, Inner, Told, Typed
  <2>4. LetIn(request'[c])
    BY <1>3, <2>2 DEF LetIn, SameCall
  <2>5. request'[c].answer.fault = "none" /\ ~request'[c].answer.replay
    BY <1>3, <2>2 DEF SameAnswer, Answer
  <2>6. Course(request'[c])
    BY <1>3, <2>2, <2>4, <2>5 DEF Course, Early, Inner, SameDecision, SameAnswer
  <2> QED
    BY <1>1, <2>2, <2>3, <2>5, <2>6 DEF Goes
<1> QED
  BY <1>4, <1>5

(* What a handler's run leaves behind. *)
RunOf(c, ending) ==
  [id |-> Me(c).id, turn |-> Cardinality(handled), slot |-> Slot(Call(c)), scene |-> resets,
   ends |-> ending.ends, commit |-> IF ending.commits THEN seq' ELSE 0]

LEMMA HandleGoes ==
  ASSUME Told, NEW c \in Clients, NEW ending, Handle(c, ending)
  PROVE  /\ Goes(c) /\ Others(c) /\ SameCall(c) /\ SameScene(c) /\ SameWindow(c)
         /\ SameDecision(c) /\ Me(c).pc = "handling" /\ request'[c].pc = "reading_seq"
         /\ ~request'[c].answer.replay /\ request'[c].answer.status = ending.ends
         /\ request'[c].answer.status = "ok" =>
              request'[c].answer.commit = RunOf(c, ending).commit
         /\ seq' = IF ending.commits THEN seq + 1 ELSE seq
         /\ seq' \in Nat /\ seq \in Nat /\ handled' = handled \cup {RunOf(c, ending)}
         /\ ending.commits => Route(c).serialized
<1>1. Me(c).pc = "handling" /\ request[c].pc = "handling" /\ Me(c).pc # "idle"
  BY DEF Handle, Me
<1>2. Course(request[c])
  BY <1>1, FieldsAre
<1>3. /\ ~request[c].attempted /\ request[c].decision.fault \notin RequestFaults
      /\ LetIn(request[c])
  BY <1>1, <1>2 DEF Course, Inner
<1>4. Call(c).route \in Routes /\ ending \in Endings[Call(c).route]
  BY <1>1, FieldsAre, FaultsAreKnown DEF Handle, Call, Me
<1>5. ending \in [commits : BOOLEAN, ends : {"ok", "refused", "crash"}]
  BY <1>4, PipelineAssumption
<1>6. ending.commits => Route(c).serialized
  BY <1>4, WritersAssumption DEF Route
<1>7. /\ seq' = IF ending.commits THEN seq + 1 ELSE seq
      /\ handled' = handled \cup {RunOf(c, ending)}
  BY DEF Handle, RunOf
<1>8. seq' \in Nat /\ seq \in Nat
  BY <1>7 DEF Told, Typed
<1> DEFINE commit == IF ending.commits THEN seq' ELSE 0
           answer == Answer(ending.ends, IF ending.ends = "ok" THEN commit ELSE 0)
<1>9. Leave(c, "reading_seq", answer)
  BY DEF Handle
<1>10. /\ answer \in Answers /\ answer.fault = "none" /\ ~answer.replay
       /\ answer.status = ending.ends /\ answer.status \in {"ok", "refused", "crash"}
       /\ answer.status = "ok" => answer.commit = RunOf(c, ending).commit
  BY <1>5, <1>8 DEF Answer, Answers, Statuses, RunOf
<1> HIDE DEF answer, commit
<1>11. /\ Others(c) /\ SameCall(c) /\ SameScene(c) /\ SameDecision(c) /\ SameWindow(c)
       /\ request'[c].attempted = request[c].attempted
       /\ request'[c].pc = "reading_seq" /\ request'[c].answer = answer
  BY <1>9, LeaveIs DEF Told
<1>12. request'[c] \in Requests
  BY <1>1, <1>10, <1>11, FieldsAre, FieldsGo
     DEF SameScene, SameDecision, SameWindow, Phases, Inner
<1>13. LetIn(request'[c])
  BY <1>3, <1>11 DEF LetIn, SameCall
<1>14. Course(request'[c])
  BY <1>3, <1>10, <1>11, <1>13 DEF Course, Early, Inner, SameDecision
<1> QED
  BY <1>1, <1>6, <1>7, <1>8, <1>10, <1>11, <1>12, <1>14 DEF Goes

LEMMA ReadSeqGoes ==
  ASSUME Told, NEW c \in Clients, ReadSeq(c)
  PROVE  /\ Goes(c) /\ Others(c) /\ SameCall(c) /\ SameScene(c) /\ SameAnswer(c)
         /\ SameDecision(c) /\ Me(c).pc = "reading_seq"
         /\ request'[c].before = request[c].before /\ request'[c].after = seq
         /\ request'[c].pc \in {"storing", "finishing", "shaping"}
         /\ request'[c].pc = "storing" => request[c].answer.status = "ok"
         /\ ~request'[c].answer.replay
<1>1. Me(c).pc = "reading_seq" /\ request[c].pc = "reading_seq" /\ Me(c).pc # "idle"
  BY DEF ReadSeq, Me
<1>2. Course(request[c])
  BY <1>1, FieldsAre
<1>3. /\ ~request[c].attempted /\ request[c].decision.fault \notin RequestFaults
      /\ LetIn(request[c]) /\ request[c].answer.fault = "none"
      /\ request[c].answer.status \in {"ok", "refused", "crash"} /\ ~request[c].answer.replay
  BY <1>1, <1>2 DEF Course, Inner
<1> DEFINE pc == CASE Me(c).answer.status = "ok"    -> "storing"
                   [] Me(c).answer.status = "crash" -> "finishing"
                   [] OTHER                         -> "shaping"
<1>4. /\ Others(c) /\ SameCall(c) /\ SameScene(c) /\ SameDecision(c) /\ SameAnswer(c)
      /\ request'[c].before = request[c].before /\ request'[c].after = seq
      /\ request'[c].pc = pc
  BY DEF Told, Shape, ReadSeq, RequestFields, Others, SameCall, SameScene, SameDecision,
         SameAnswer, Me
<1>5. \/ pc = "storing" /\ request[c].answer.status = "ok"
      \/ pc = "finishing" /\ request[c].answer.status = "crash"
      \/ pc = "shaping" /\ request[c].answer.status = "refused"
  <2>1. CASE request[c].answer.status = "ok"
    BY <2>1 DEF Me
  <2>2. CASE request[c].answer.status = "crash"
    BY <2>2 DEF Me
  <2>3. CASE request[c].answer.status = "refused"
    BY <2>3 DEF Me
  <2> QED
    BY <1>3, <2>1, <2>2, <2>3
<1> HIDE DEF pc
<1>6. request'[c] \in Requests
  BY <1>1, <1>4, <1>5, FieldsAre, FieldsGo
     DEF SameScene, SameDecision, SameAnswer, Phases, Inner, Told, Typed
<1>7. LetIn(request'[c])
  BY <1>3, <1>4 DEF LetIn, SameCall
<1>8. Course(request'[c])
  BY <1>3, <1>4, <1>5, <1>7
     DEF Course, Early, Inner, SameDecision, SameAnswer, Raised, Paid, PaidFault, RequestFaults,
         PreAuth, PostAuth
<1> QED
  BY <1>1, <1>3, <1>4, <1>5, <1>6, <1>8 DEF Goes, SameAnswer

LEMMA StoreGoes ==
  ASSUME Told, NEW c \in Clients, Store(c)
  PROVE  /\ Goes(c) /\ Others(c) /\ SameCall(c) /\ SameScene(c) /\ SameAnswer(c)
         /\ SameDecision(c) /\ SameWindow(c) /\ Me(c).pc = "storing"
         /\ request'[c].pc = "paying_out" /\ ~request'[c].answer.replay
         /\ DOMAIN idempotent' = DOMAIN idempotent \cup ({Slot(Call(c))} \ {<<>>})
         /\ \A slot \in DOMAIN idempotent' :
              idempotent'[slot].answer = IF slot = Slot(Call(c)) THEN request[c].answer
                                         ELSE idempotent[slot].answer
         /\ Typed' /\ Recorded'
<1>1. Me(c).pc = "storing" /\ request[c].pc = "storing" /\ Me(c).pc # "idle"
  BY DEF Store, StoreAnswer, Me
<1>2. Course(request[c]) /\ request[c].answer \in Answers
  BY <1>1, FieldsAre
<1>3. /\ ~request[c].attempted /\ request[c].decision.fault \notin RequestFaults
      /\ LetIn(request[c]) /\ request[c].answer.fault = "none"
      /\ request[c].answer.status = "ok" /\ ~request[c].answer.replay
  BY <1>1, <1>2 DEF Course, Inner
<1>4. Go(c, "paying_out")
  BY DEF Store, StoreAnswer
<1>5. /\ Others(c) /\ SameCall(c) /\ SameScene(c) /\ SameDecision(c) /\ SameWindow(c)
      /\ SameAnswer(c) /\ request'[c].pc = "paying_out" /\ request'[c] \in Requests
  BY <1>1, <1>4, GoGoes DEF Phases, Inner
<1>6. LetIn(request'[c])
  BY <1>3, <1>5 DEF LetIn, SameCall
<1>7. Course(request'[c])
  BY <1>3, <1>5, <1>6 DEF Course, Early, Inner, SameDecision, SameAnswer
<1> DEFINE slot == Slot(Call(c))
<1>8. idempotent' = IF slot = <<>> THEN idempotent
       ELSE [x \in DOMAIN idempotent \cup {slot} |->
               IF x = slot THEN [body |-> Call(c).body, answer |-> Me(c).answer]
                           ELSE idempotent[x]]
  BY DEF Store, StoreAnswer
<1>9. <<>> \notin DOMAIN idempotent
  BY DEF Told, Recorded
<1> HIDE DEF slot
<1>10. /\ DOMAIN idempotent' = DOMAIN idempotent \cup ({slot} \ {<<>>})
       /\ \A s \in DOMAIN idempotent' :
            idempotent'[s].answer = IF s = slot THEN request[c].answer ELSE idempotent[s].answer
  <2>1. CASE slot = <<>>
    BY <1>8, <1>9, <2>1
  <2>2. CASE slot # <<>>
    <3>1. idempotent' = [x \in DOMAIN idempotent \cup {slot} |->
               IF x = slot THEN [body |-> Call(c).body, answer |-> Me(c).answer]
                           ELSE idempotent[x]]
      BY <1>8, <2>2
    <3> QED
      BY <2>2, <3>1 DEF Me
  <2> QED
    BY <2>1, <2>2
<1>11. \A s \in DOMAIN idempotent' :
         idempotent'[s].answer \in Answers /\ s # <<>>
         /\ idempotent'[s].answer.fault = "none" /\ ~idempotent'[s].answer.replay
         /\ idempotent'[s].answer.status = "ok"
  <2> SUFFICES ASSUME NEW s \in DOMAIN idempotent'
               PROVE  /\ idempotent'[s].answer \in Answers /\ s # <<>>
                      /\ idempotent'[s].answer.fault = "none" /\ ~idempotent'[s].answer.replay
                      /\ idempotent'[s].answer.status = "ok"
    OBVIOUS
  <2>1. CASE s = slot
    <3>1. idempotent'[s].answer = request[c].answer
      BY <1>10, <2>1
    <3> QED
      BY <1>2, <1>3, <1>9, <1>10, <2>1, <3>1
  <2>2. CASE s # slot
    <3>1. idempotent'[s].answer = idempotent[s].answer /\ s \in DOMAIN idempotent
      BY <1>10, <2>2
    <3> QED
      BY <3>1 DEF Told, Typed, Recorded
  <2> QED
    BY <2>1, <2>2
<1>12. Recorded'
  BY <1>11 DEF Recorded
<1>13. Typed'
  <2>1. sent' = sent /\ seq' = seq /\ resets' = resets /\ answered' = answered
    BY DEF Store, StoreAnswer
  <2>2. \A d \in Clients : request'[d] = NoRequest \/ request'[d] \in Requests
    BY <1>5 DEF Others, Told, Typed, Me
  <2> QED
    BY <1>11, <2>1, <2>2 DEF Typed, Told, Me
<1> QED
  BY <1>1, <1>3, <1>5, <1>7, <1>10, <1>12, <1>13 DEF Goes, SameAnswer, slot

(* What a payout leaves of the answer. *)
LEMMA PaidOutIs ==
  ASSUME Told, NEW c \in Clients, Me(c).pc # "idle", Owed(c)
  PROVE  /\ PaidOut(c) \in Answers
         /\ Fault(c) = "bad_params" => PaidOut(c) = Answer("diagnostic", 0)
         /\ Fault(c) # "bad_params" =>
              /\ PaidOut(c).status = request[c].answer.status
              /\ PaidOut(c).fault = Fault(c) /\ PaidOut(c).replay = request[c].answer.replay
              /\ PaidOut(c).commit = request[c].answer.commit
<1>1. request[c].answer \in Answers /\ Fault(c) \in AllFaults
  BY FieldsAre DEF Owed, AllFaults, Response
<1>2. CASE Fault(c) = "bad_params"
  <2>1. PaidOut(c) = Answer("diagnostic", 0)
    BY <1>2 DEF PaidOut
  <2> QED
    BY <1>2, <2>1 DEF Answer, Answers, Statuses
<1>3. CASE Fault(c) # "bad_params"
  <2>1. PaidOut(c) = [request[c].answer EXCEPT !.fault = Fault(c)]
    BY <1>3 DEF PaidOut, Me
  <2> QED
    BY <1>1, <1>3, <2>1 DEF Answers
<1> QED
  BY <1>2, <1>3

LEMMA PayOutGoes ==
  ASSUME Told, NEW c \in Clients, PayOut(c)
  PROVE  /\ Goes(c) /\ Others(c) /\ SameCall(c) /\ SameScene(c) /\ SameDecision(c)
         /\ SameWindow(c) /\ Me(c).pc = "paying_out"
         /\ request'[c].pc \in {"shaping", "finishing"}
         /\ request'[c].answer.replay =>
              /\ request[c].answer.replay
              /\ request'[c].answer.commit = request[c].answer.commit
<1>1. Me(c).pc = "paying_out" /\ request[c].pc = "paying_out" /\ Me(c).pc # "idle"
  BY DEF PayOut, Me
<1>2. Course(request[c])
  BY <1>1, FieldsAre
<1>3. /\ ~request[c].attempted /\ request[c].decision.fault \notin RequestFaults
      /\ LetIn(request[c]) /\ request[c].answer.fault = "none"
      /\ request[c].answer.status = "ok"
      /\ request[c].decision.fault \in AllFaults \cup {"none"}
  BY <1>1, <1>2, FieldsAre DEF Course, Inner
<1>4. CASE ~Owed(c)
  <2>1. Go(c, "finishing")
    BY <1>4 DEF PayOut
  <2>2. /\ Others(c) /\ SameCall(c) /\ SameScene(c) /\ SameDecision(c) /\ SameWindow(c)
        /\ SameAnswer(c) /\ request'[c].pc = "finishing" /\ request'[c] \in Requests
    BY <1>1, <2>1, GoGoes DEF Phases
  <2>3. request[c].decision.fault \in {"none", "unknown"} /\ request[c].decision.fault \notin Response
    BY <1>3, <1>4 DEF Owed, Fault, Me, AllFaults, RequestFaults
  <2>4. LetIn(request'[c])
    BY <1>3, <2>2 DEF LetIn, SameCall
  <2>5. Paid(request'[c])
    BY <1>3, <2>2, <2>3, <2>4 DEF Paid, PaidFault, SameDecision, SameAnswer
  <2>6. Course(request'[c])
    BY <2>2, <2>5 DEF Course, Early, Inner
  <2> QED
    BY <1>1, <2>2, <2>6 DEF Goes, SameAnswer
<1>5. CASE Owed(c)
  <2> DEFINE pc == IF Fault(c) = "bad_params" THEN "shaping" ELSE "finishing"
  <2>1. Attempt(c, pc)
    BY <1>5 DEF PayOut
  <2>2. /\ Others(c) /\ SameCall(c) /\ SameScene(c) /\ SameDecision(c) /\ SameWindow(c)
        /\ request'[c].pc = pc /\ request'[c].attempted = TRUE
        /\ request'[c].answer = PaidOut(c)
    BY <2>1, AttemptIs DEF Told
  <2>3. PaidOut(c) \in Answers
    BY <1>1, <1>5, PaidOutIs
  <2>4. request'[c] \in Requests
    BY <1>1, <2>2, <2>3, FieldsAre, FieldsGo DEF SameScene, SameDecision, SameWindow, Phases
  <2>5. LetIn(request'[c])
    BY <1>3, <2>2 DEF LetIn, SameCall
  <2>6. request[c].decision.fault = Fault(c) /\ request'[c].decision.fault = Fault(c)
    BY <2>2 DEF SameDecision, Fault, Me
  <2>7. CASE Fault(c) = "bad_params"
    <3>1. PaidOut(c) = Answer("diagnostic", 0) /\ pc = "shaping"
      BY <1>1, <1>5, <2>7, PaidOutIs
    <3>2. Raised(request'[c])
      BY <2>2, <2>6, <2>7, <3>1 DEF Raised, Answer
    <3>3. Course(request'[c])
      BY <2>2, <3>1, <3>2 DEF Course, Early, Inner
    <3> QED
      BY <1>1, <2>2, <2>4, <3>1, <3>3 DEF Goes, Answer
  <2>8. CASE Fault(c) # "bad_params"
    <3>1. /\ PaidOut(c).status = "ok" /\ PaidOut(c).fault = Fault(c) /\ pc = "finishing"
          /\ PaidOut(c).replay = request[c].answer.replay
          /\ PaidOut(c).commit = request[c].answer.commit
      BY <1>1, <1>3, <1>5, <2>8, PaidOutIs
    <3>2. Fault(c) \in {"mangle", "slow_body"} /\ Fault(c) \in Response
      BY <1>5, <2>8 DEF Owed, Response
    <3> HIDE DEF pc
    <3>3. Paid(request'[c])
      BY <2>2, <2>5, <2>6, <3>1, <3>2 DEF Paid, PaidFault
    <3>4. Course(request'[c])
      BY <2>2, <3>1, <3>3 DEF Course, Early, Inner
    <3> QED
      BY <1>1, <2>2, <2>4, <3>1, <3>4 DEF Goes
  <2> QED
    BY <2>7, <2>8
<1> QED
  BY <1>4, <1>5

LEMMA ShapeErrorGoes ==
  ASSUME Told, NEW c \in Clients, ShapeError(c)
  PROVE  /\ Goes(c) /\ Others(c) /\ SameCall(c) /\ SameScene(c) /\ SameDecision(c)
         /\ SameWindow(c) /\ Me(c).pc = "shaping" /\ request'[c].pc = "finishing"
         /\ ~request'[c].answer.replay
<1>1. Me(c).pc = "shaping" /\ request[c].pc = "shaping" /\ Me(c).pc # "idle"
  BY DEF ShapeError, Me
<1>2. /\ Raised(request[c]) /\ request[c].decision.fault \in AllFaults \cup {"none"}
      /\ request[c].attempted \in BOOLEAN /\ request[c].answer \in Answers
      /\ ~request[c].answer.replay /\ request[c].answer.fault = "none"
  BY <1>1, FieldsAre DEF Course, Raised
<1>3. request[c].decision.fault = Fault(c)
  BY DEF Fault, Me
<1>4. CASE Owed(c) /\ ~Me(c).attempted
  <2>1. Attempt(c, "finishing")
    BY <1>4 DEF ShapeError
  <2>2. /\ Others(c) /\ SameCall(c) /\ SameScene(c) /\ SameDecision(c) /\ SameWindow(c)
        /\ request'[c].pc = "finishing" /\ request'[c].attempted = TRUE
        /\ request'[c].answer = PaidOut(c)
    BY <2>1, AttemptIs DEF Told
  <2>3. PaidOut(c) \in Answers
    BY <1>1, <1>4, PaidOutIs
  <2>4. request'[c] \in Requests
    BY <1>1, <2>2, <2>3, FieldsAre, FieldsGo DEF SameScene, SameDecision, SameWindow, Phases
  <2>5. request[c].answer.status # "diagnostic" /\ Fault(c) \in Response
    BY <1>2, <1>4 DEF Raised, Owed, Me
  <2>6. CASE Fault(c) = "bad_params"
    <3>1. PaidOut(c) = Answer("diagnostic", 0)
      BY <1>1, <1>4, <2>6, PaidOutIs
    <3>2. Paid(request'[c]) /\ ~request'[c].answer.replay
      BY <1>3, <2>2, <2>6, <3>1 DEF Paid, PaidFault, Answer, SameDecision
    <3> QED
      BY <1>1, <2>2, <2>4, <3>2 DEF Goes, Course, Early, Inner
  <2>7. CASE Fault(c) # "bad_params"
    <3>1. /\ PaidOut(c).status = request[c].answer.status /\ PaidOut(c).fault = Fault(c)
          /\ PaidOut(c).replay = request[c].answer.replay
      BY <1>1, <1>4, <2>7, PaidOutIs
    <3>2. Fault(c) \in {"mangle", "slow_body"}
      BY <2>5, <2>7 DEF Response
    <3>3. Paid(request'[c]) /\ ~request'[c].answer.replay
      BY <1>2, <1>3, <2>2, <2>5, <3>1, <3>2 DEF Paid, PaidFault, SameDecision
    <3> QED
      BY <1>1, <2>2, <2>4, <3>3 DEF Goes, Course, Early, Inner
  <2> QED
    BY <2>6, <2>7
<1>5. CASE ~(Owed(c) /\ ~Me(c).attempted)
  <2> DEFINE answer == IF Me(c).answer.status \in PreAuth \cup PostAuth
                         THEN [Me(c).answer EXCEPT !.fault = Fault(c)]
                         ELSE Me(c).answer
  <2>1. Leave(c, "finishing", answer)
    BY <1>5 DEF ShapeError
  <2>2. /\ answer \in Answers /\ answer.status = request[c].answer.status
        /\ answer.replay = request[c].answer.replay
        /\ answer.fault = IF request[c].answer.status \in RequestFaults THEN Fault(c) ELSE "none"
    <3>1. CASE request[c].answer.status \in RequestFaults
      <4>1. answer = [request[c].answer EXCEPT !.fault = Fault(c)]
        BY <3>1 DEF RequestFaults, Me
      <4> QED
        BY <1>2, <1>3, <3>1, <4>1 DEF Answers
    <3>2. CASE request[c].answer.status \notin RequestFaults
      <4>1. answer = request[c].answer
        BY <3>2 DEF RequestFaults, Me
      <4> QED
        BY <1>2, <3>2, <4>1
    <3> QED
      BY <3>1, <3>2
  <2> HIDE DEF answer
  <2>3. /\ Others(c) /\ SameCall(c) /\ SameScene(c) /\ SameDecision(c) /\ SameWindow(c)
        /\ request'[c].attempted = request[c].attempted
        /\ request'[c].pc = "finishing" /\ request'[c].answer = answer
    BY <2>1, LeaveIs DEF Told
  <2>4. request'[c] \in Requests
    BY <1>1, <2>2, <2>3, FieldsAre, FieldsGo DEF SameScene, SameDecision, SameWindow, Phases
  <2>5. request'[c].decision.fault = Fault(c)
    BY <1>3, <2>3 DEF SameDecision
  <2>6. CASE request[c].attempted
    <3>1. request[c].answer.status = "diagnostic" /\ Fault(c) = "bad_params"
      BY <1>2, <1>3, <2>6 DEF Raised
    <3>2. Paid(request'[c])
      BY <1>2, <2>2, <2>3, <2>5, <2>6, <3>1 DEF Paid, PaidFault
    <3> QED
      BY <1>1, <1>2, <2>2, <2>3, <2>4, <3>2 DEF Goes, Course, Early, Inner
  <2>7. CASE ~request[c].attempted
    <3>1. Fault(c) \in RequestFaults \cup {"none", "unknown"}
      BY <1>2, <1>3, <1>5, <2>7 DEF Owed, AllFaults, RequestFaults, Me
    <3>2. /\ request[c].answer.status \notin {"diagnostic", "crash"}
          /\ request[c].answer.status \in RequestFaults => request[c].answer.status = Fault(c)
          /\ Fault(c) \in PreAuth => request[c].answer.status = Fault(c)
          /\ Fault(c) \in PostAuth =>
               request[c].answer.status \in {Fault(c), "unauthorized", "forbidden_scope"}
      BY <1>2, <1>3, <2>7 DEF Raised
    <3>3. PaidFault(request'[c])
      <4>1. CASE Fault(c) \in {"none", "unknown"}
        BY <2>5, <4>1 DEF PaidFault
      <4>2. CASE Fault(c) \in RequestFaults /\ request[c].answer.status = Fault(c)
        BY <2>2, <2>3, <2>5, <4>2 DEF PaidFault
      <4>3. CASE /\ Fault(c) \in PostAuth
                 /\ request[c].answer.status \in {"unauthorized", "forbidden_scope"}
        BY <2>2, <2>3, <2>5, <4>3 DEF PaidFault
      <4> QED
        BY <3>1, <3>2, <4>1, <4>2, <4>3 DEF RequestFaults
    <3>4. request'[c].answer.fault # "mangle" /\ request'[c].answer.status # "diagnostic"
      BY <2>2, <2>3, <3>1, <3>2 DEF RequestFaults, PreAuth, PostAuth
    <3>5. Paid(request'[c])
      BY <1>2, <2>2, <2>3, <2>7, <3>3, <3>4 DEF Paid
    <3> QED
      BY <1>1, <1>2, <2>2, <2>3, <2>4, <3>5 DEF Goes, Course, Early, Inner
  <2> QED
    BY <1>2, <2>6, <2>7
<1> QED
  BY <1>4, <1>5

LEMMA FinishGoes ==
  ASSUME Told, NEW c \in Clients, Finish(c)
  PROVE  /\ Others(c) /\ request'[c] = NoRequest /\ Me(c).pc = "finishing"
         /\ answered' = answered \cup {request[c]}
         /\ request[c] \in Requests /\ Course(request[c])
<1>1. Me(c).pc = "finishing" /\ Me(c).pc # "idle" /\ answered' = answered \cup {request[c]}
  BY DEF Finish, Me
<1>2. Others(c) /\ request'[c] = NoRequest
  BY DEF Told, Shape, Finish, RequestFields, NoRequest, Others
<1> QED
  BY <1>1, <1>2, FieldsAre

(* The records of this scenario keep their shape. *)
Records == Recorded /\ \A slot \in DOMAIN idempotent : idempotent[slot].answer \in Answers

LEMMA ToldStep ==
  ASSUME Told, NEW c \in Clients, Others(c),
         request'[c] = NoRequest \/ (request'[c] \in Requests /\ Course(request'[c])),
         \A x \in answered' :
           x \in answered \/ (x \in Requests /\ x.pc = "finishing" /\ Course(x)),
         sent' \in Nat, seq' \in Nat, resets' = resets, Records', TypeOK'
  PROVE  Told'
<1>1. NoRequest.pc = "idle"
  BY DEF NoRequest
<1>2. \A d \in Clients : request'[d] = NoRequest \/ request'[d] \in Requests
  BY DEF Others, Told, Typed, Me
<1>3. Typed'
  BY <1>2 DEF Typed, Told, Records, Me
<1>4. Courses'
  <2>1. \A d \in Clients : request'[d].pc # "idle" => Course(request'[d])
    BY <1>1 DEF Others, Told, Courses, Me
  <2>2. \A x \in answered' : x.pc = "finishing" /\ Course(x)
    BY DEF Told, Courses
  <2> QED
    BY <2>1, <2>2 DEF Courses, Me, Course, Raised, Paid, PaidFault, LetIn
<1> QED
  BY <1>3, <1>4 DEF Told, Others, Records

LEMMA EngineKept ==
  ASSUME TypeOK, UNCHANGED vars
  PROVE  TypeOK' /\ history' = history /\ state' = state /\ rules' = rules
BY DEF TypeOK, vars

LEMMA RecordsKept ==
  ASSUME Told, UNCHANGED idempotent
  PROVE  Records'
BY DEF Told, Typed, Recorded, Records

LEMMA ToldMoves ==
  ASSUME Told, NEW c \in Clients, Others(c), request'[c] \in Requests, Course(request'[c]),
         UNCHANGED <<answered, resets>>, sent' \in Nat, seq' \in Nat, Records', TypeOK'
  PROVE  Told'
<1>1. \A x \in answered' : x \in answered
  OBVIOUS
<1> QED
  BY <1>1, ToldStep

LEMMA ToldInit == PipelineInit => Told
<1> SUFFICES ASSUME PipelineInit PROVE Told
  OBVIOUS
<1>1. Shape
  BY InitEstablishes DEF IInv
<1>2. /\ request = [c \in Clients |-> NoRequest] /\ NoRequest.pc = "idle"
      /\ idempotent = <<>> /\ seq = 0 /\ sent = 0 /\ resets = 0 /\ answered = {}
  BY DEF PipelineInit, NoRequest
<1>3. Typed /\ Recorded /\ Courses
  BY <1>2 DEF Typed, Recorded, Courses, Me
<1>4. TypeOK
  <2>1. /\ rules \in RuleLists /\ state = [id \in RuleIds |-> Zero]
        /\ enabled = TRUE /\ history = <<>> /\ trace = <<>> /\ since = [id \in RuleIds |-> 0]
    BY DEF PipelineInit, Init
  <2>2. rules \in Seq(Rules)
    BY <2>1, EngineAssumption
  <2>3. state \in [RuleIds -> [matches : Nat, fires : Nat]]
    BY <2>1 DEF Zero
  <2>4. history \in Seq(Firings) /\ trace \in Seq(Routes) /\ Len(trace) = 0
    BY <2>1
  <2>5. since \in [RuleIds -> 0 .. Len(trace)]
    BY <2>1, <2>4
  <2> QED
    BY <2>1, <2>2, <2>3, <2>4, <2>5 DEF TypeOK, Firings
<1> QED
  BY <1>1, <1>3, <1>4 DEF Told

LEMMA ToldReset ==
  ASSUME Told, StateReset
  PROVE  Told'
<1>1. Shape' /\ Recorded' /\ TypeOK'
  BY EngineKept DEF Told, Shape, Recorded, StateReset
<1>2. Typed'
  BY DEF Told, Typed, Me, StateReset
<1>3. Courses'
  BY DEF Told, Courses, Course, Raised, Paid, PaidFault, LetIn, Me, StateReset
<1> QED
  BY <1>1, <1>2, <1>3 DEF Told

LEMMA ToldRequest ==
  ASSUME Told, NEW c \in Clients, Request_Next(c)
  PROVE  Told'
<1>1. sent \in Nat /\ seq \in Nat
  BY DEF Told, Typed
<1>2. ASSUME UNCHANGED <<idempotent, seq, sent, resets, answered, vars>>, Goes(c), Others(c)
      PROVE  Told'
  BY <1>1, <1>2, EngineKept, RecordsKept, ToldMoves DEF Told, Goes
<1>3. CASE Enter(c)
  BY <1>2, <1>3, EnterGoes DEF Enter
<1>4. CASE SelectInBand(c) \/ SelectRule(c)
  BY <1>1, <1>4, SelectGoes, RecordsKept, ToldMoves DEF SelectInBand, SelectRule, Goes
<1>5. CASE Screen(c)
  BY <1>2, <1>5, ScreenGoes DEF Screen
<1>6. CASE Replay(c)
  BY <1>2, <1>6, ReplayGoes DEF Replay
<1>7. CASE Miss(c)
  BY <1>2, <1>7, MissGoes DEF Miss
<1>8. CASE \E ending \in UNION {Endings[r] : r \in Routes} : Handle(c, ending)
  <2>1. PICK ending : Handle(c, ending)
    BY <1>8
  <2>2. seq' \in Nat /\ Goes(c) /\ Others(c)
    BY <2>1, HandleGoes
  <2> QED
    BY <1>1, <2>1, <2>2, EngineKept, RecordsKept, ToldMoves DEF Told, Goes, Handle
<1>9. CASE ReadSeq(c)
  BY <1>2, <1>9, ReadSeqGoes DEF ReadSeq
<1>10. CASE Store(c)
  <2>1. Goes(c) /\ Others(c) /\ Typed' /\ Recorded'
    BY <1>10, StoreGoes
  <2>2. Records'
    BY <2>1 DEF Records, Typed
  <2> QED
    BY <1>1, <1>10, <2>1, <2>2, EngineKept, ToldMoves DEF Store, StoreAnswer, Told, Goes
<1>11. CASE PayOut(c)
  BY <1>2, <1>11, PayOutGoes DEF PayOut
<1>12. CASE ShapeError(c)
  BY <1>2, <1>12, ShapeErrorGoes DEF ShapeError
<1>13. CASE Finish(c)
  <2>1. /\ Others(c) /\ request'[c] = NoRequest /\ request[c].pc = "finishing"
        /\ answered' = answered \cup {request[c]}
        /\ request[c] \in Requests /\ Course(request[c])
    BY <1>13, FinishGoes DEF Me
  <2>2. Records' /\ TypeOK'
    BY <1>13, RecordsKept, EngineKept DEF Finish, Told
  <2>3. \A x \in answered' :
          x \in answered \/ (x \in Requests /\ x.pc = "finishing" /\ Course(x))
    BY <2>1
  <2>4. sent' \in Nat /\ seq' \in Nat /\ resets' = resets
    BY <1>1, <1>13 DEF Finish
  <2> HIDE DEF Told
  <2> QED
    BY <2>1, <2>2, <2>3, <2>4, ToldStep
<1> QED
  BY <1>3, <1>4, <1>5, <1>6, <1>7, <1>8, <1>9, <1>10, <1>11, <1>12, <1>13 DEF Request_Next

LEMMA ToldStutter == Told /\ UNCHANGED pipelineVars => Told'
<1> SUFFICES ASSUME Told, UNCHANGED pipelineVars PROVE Told'
  OBVIOUS
<1>1. TypeOK'
  BY EngineKept DEF Told, pipelineVars
<1> QED
  BY <1>1 DEF Told, pipelineVars, Shape, Typed, Recorded, Courses, Course, Raised, Paid, PaidFault, LetIn, Me

LEMMA ToldNext == Told /\ [PipelineNext]_pipelineVars => Told'
<1> SUFFICES ASSUME Told, [PipelineNext]_pipelineVars PROVE Told'
  OBVIOUS
<1>1. ASSUME NEW c \in Clients, NEW call \in Calls, Arrive(c, call) PROVE Told'
  <2>1. Others(c) /\ request'[c] \in Requests /\ Course(request'[c])
    BY <1>1, ArriveGoes
  <2>2. sent' \in Nat /\ seq' \in Nat
    BY <1>1 DEF Arrive, Told, Typed
  <2> QED
    BY <1>1, <2>1, <2>2, EngineKept, RecordsKept, ToldMoves DEF Arrive, Told
<1> QED
  BY <1>1, ToldRequest, ToldReset, ToldStutter DEF PipelineNext

(* What was drawn at step 3 is what the caller sees, whichever way the     *)
(* request left the pipeline (unit.py:24).                                 *)
THEOREM DrawnFaultsArePaid == PipelineSpec => []FaultsArePaidOut
<1>1. PipelineSpec => []Told
  BY ToldInit, ToldNext, PTL DEF PipelineSpec
<1>2. Told => FaultsArePaidOut
  BY DEF Told, Courses, Course, Paid, PaidFault, FaultsArePaidOut
<1> QED
  BY <1>1, <1>2, PTL

(***************************************************************************)
(* What a request did, told from the handlers that ran.                    *)
(***************************************************************************)
Unrun == {"matched", "selecting", "screening", "looking_up", "handling"}

(* Every request has a number of its own. *)
Numbered ==
  /\ \A c \in Clients : Me(c).pc # "idle" => Me(c).id <= sent
  /\ \A c, d \in Clients :
       Me(c).pc # "idle" /\ Me(d).pc # "idle" /\ Me(c).id = Me(d).id => c = d
  /\ \A x \in answered : x.id <= sent /\ \A c \in Clients : Me(c).id # x.id
  /\ \A x, y \in answered : x.id = y.id => x = y
  /\ \A h \in handled : h.id \in 1 .. sent /\ h.commit \in Nat

Ran(h, slot, scene, commit) ==
  h.ends = "ok" /\ h.slot = slot /\ h.scene = scene /\ h.commit = commit

(* These speak of the handlers' runs, the scenario and the last commit of  *)
(* a state that the caller names.                                          *)
ReplaysRun(x, runs) ==
  x.answer.replay =>
    \E h \in runs : Ran(h, Slot(x.call), x.scene, x.answer.commit) /\ h.id # x.id

Past(x, runs, scene) ==
  /\ x.pc \in Unrun => \A h \in runs : h.id # x.id
  /\ x.pc \in Locked /\ RouteOf[x.call.route].serialized => x.scene = scene
  /\ x.pc = "storing" \/ (x.pc = "reading_seq" /\ x.answer.status = "ok") =>
       \/ Slot(x.call) = <<>>
       \/ \E h \in runs : Ran(h, Slot(x.call), x.scene, x.answer.commit)
  /\ ReplaysRun(x, runs)

(* The commits of the request of this number are this one, or none.        *)
Tells(runs, id, commit) ==
  /\ \A h \in runs : h.id = id /\ h.commit > 0 => h.commit = commit
  /\ commit > 0 => \E h \in runs : h.id = id /\ h.commit = commit

Seen(x, last) == IF last > x.before THEN last ELSE 0

(* On a serialized route the two reads of journal_seq frame the commit. *)
Window(x, runs, last) ==
  RouteOf[x.call.route].serialized =>
    /\ x.pc = "handling" => x.before = last
    /\ x.pc = "reading_seq" => Tells(runs, x.id, Seen(x, last))
    /\ x.pc \notin {"handling", "reading_seq"} => Tells(runs, x.id, Seen(x, x.after))

(* A record holds the answer of a handler of this scenario. *)
Backed ==
  \A slot \in DOMAIN idempotent :
    \E h \in handled : Ran(h, slot, resets, idempotent[slot].answer.commit)

Pasts == \A c \in Clients : Me(c).pc # "idle" => Past(Me(c), handled, resets)
Windows == \A c \in Clients : Me(c).pc # "idle" => Window(Me(c), handled, seq)
Replayed == \A x \in answered : ReplaysRun(x, handled)

History == Numbered /\ Backed /\ Pasts /\ Windows /\ Replayed

(* Nobody else is in a serialized request while c is. *)
LEMMA Alone ==
  ASSUME IInv, NEW c \in Clients, NEW d \in Clients, Me(c).pc \in Locked, Me(d).pc \in Locked,
         Route(c).serialized, Route(d).serialized
  PROVE  c = d
BY DEF IInv, Mutex

LEMMA KeyIsSerialized ==
  ASSUME NEW call \in Calls, Slot(call) # <<>>
  PROVE  RouteOf[call.route].serialized
<1>1. call.route \in Routes
  BY PipelineAssumption
<1> QED
  BY <1>1, KeyedAssumption DEF Slot

LEMMA NumberedMove ==
  ASSUME Told, Numbered, NEW c \in Clients, Me(c).pc # "idle", request'[c].pc # "idle",
         SameCall(c), Others(c), UNCHANGED <<answered, sent>>,
         \A h \in handled' : h \in handled \/ (h.id = Me(c).id /\ h.commit \in Nat)
  PROVE  Numbered'
<1>1. request'[c].id = request[c].id /\ request[c].id \in Nat \ {0} /\ sent \in Nat
  BY FieldsAre DEF SameCall, Told, Typed
<1>2. request[c].id <= sent
  BY DEF Numbered, Me
<1>3. \A h \in handled' : h.id \in 1 .. sent /\ h.commit \in Nat
  <2> SUFFICES ASSUME NEW h \in handled' PROVE h.id \in 1 .. sent /\ h.commit \in Nat
    OBVIOUS
  <2>1. CASE h \in handled
    BY <2>1 DEF Numbered
  <2>2. CASE h.id = Me(c).id /\ h.commit \in Nat
    BY <1>1, <1>2, <2>2 DEF Me
  <2> QED
    BY <2>1, <2>2
<1>4. \A d \in Clients : request'[d].pc # "idle" => request'[d].id <= sent
  BY <1>1 DEF Others, Numbered, Me
<1>5. \A d, e \in Clients :
        request'[d].pc # "idle" /\ request'[e].pc # "idle" /\ request'[d].id = request'[e].id => d = e
  BY <1>1 DEF Others, Numbered, Me
<1>6. \A x \in answered : x.id <= sent /\ \A d \in Clients : request'[d].id # x.id
  BY <1>1 DEF Others, Numbered, Me
<1> QED
  BY <1>3, <1>4, <1>5, <1>6 DEF Numbered, Me

LEMMA NumberedArrive ==
  ASSUME Told, Numbered, NEW c \in Clients, NEW call \in Calls, Arrive(c, call)
  PROVE  Numbered'
<1>1. /\ Others(c) /\ request'[c].id = sent + 1 /\ sent \in Nat /\ sent' = sent + 1
      /\ UNCHANGED <<answered, handled>>
  BY ArriveGoes DEF Arrive, Told, Typed
<1>2. \A d \in Clients : Me(d).pc # "idle" => Me(d).id \in Nat
  BY FieldsAre DEF Me
<1>3. \A x \in answered : x.id \in Nat
  BY DEF Told, Typed, Requests
<1>4. \A d \in Clients : request'[d].pc # "idle" => request'[d].id <= sent'
  BY <1>1, <1>2 DEF Others, Numbered, Me
<1>5. \A d, e \in Clients :
        request'[d].pc # "idle" /\ request'[e].pc # "idle" /\ request'[d].id = request'[e].id => d = e
  BY <1>1, <1>2 DEF Others, Numbered, Me
<1>6. \A x \in answered : x.id <= sent' /\ \A d \in Clients : request'[d].id # x.id
  BY <1>1, <1>3 DEF Others, Numbered, Me
<1>7. \A h \in handled : h.id \in 1 .. sent' /\ h.commit \in Nat
  BY <1>1 DEF Numbered
<1> QED
  BY <1>1, <1>4, <1>5, <1>6, <1>7 DEF Numbered, Me

LEMMA NumberedFinish ==
  ASSUME Told, Numbered, NEW c \in Clients, Finish(c)
  PROVE  Numbered'
<1>1. /\ Others(c) /\ request'[c] = NoRequest /\ Me(c).pc # "idle"
      /\ answered' = answered \cup {request[c]} /\ UNCHANGED <<sent, handled>>
  BY FinishGoes DEF Finish
<1>2. request[c].id \in Nat \ {0} /\ request[c].id <= sent
  BY <1>1, FieldsAre DEF Numbered, Me
<1>3. NoRequest.pc = "idle" /\ NoRequest.id = 0
  BY DEF NoRequest
<1>4. \A x \in answered : x.id \in Nat \ {0}
  BY DEF Told, Typed, Requests
<1>5. \A d \in Clients : Me(d).id = 0 \/ Me(d).pc # "idle"
  BY <1>3 DEF Told, Typed, Requests, Phases, Early, Inner
<1>6. \A d \in Clients : request'[d].pc # "idle" => request'[d].id <= sent
  BY <1>1, <1>3 DEF Others, Numbered, Me
<1>7. \A d, e \in Clients :
        request'[d].pc # "idle" /\ request'[e].pc # "idle" /\ request'[d].id = request'[e].id => d = e
  BY <1>1, <1>3 DEF Others, Numbered, Me
<1>8. \A x \in answered' : x.id <= sent
  BY <1>1, <1>2 DEF Numbered
<1>9. \A x \in answered', d \in Clients : request'[d].id # x.id
  <2> SUFFICES ASSUME NEW x \in answered', NEW d \in Clients PROVE request'[d].id # x.id
    OBVIOUS
  <2>1. CASE d = c
    BY <1>1, <1>2, <1>3, <1>4, <2>1
  <2>2. CASE d # c /\ x \in answered
    BY <1>1, <2>2 DEF Others, Numbered, Me
  <2>3. CASE d # c /\ x = request[c]
    BY <1>1, <1>2, <1>5, <2>3 DEF Others, Numbered, Me
  <2> QED
    BY <1>1, <2>1, <2>2, <2>3
<1>10. \A x, y \in answered' : x.id = y.id => x = y
  BY <1>1 DEF Numbered, Me
<1> QED
  BY <1>1, <1>6, <1>7, <1>8, <1>9, <1>10 DEF Numbered, Me

(* What the run of another request leaves alone. *)
LEMMA PastOther ==
  ASSUME NEW x, NEW runs, NEW more, NEW scene, Past(x, runs, scene), runs \subseteq more,
         \A h \in more : h \in runs \/ h.id # x.id
  PROVE  Past(x, more, scene)
BY DEF Past, ReplaysRun

LEMMA TellsOther ==
  ASSUME NEW runs, NEW more, NEW id, NEW commit, Tells(runs, id, commit), runs \subseteq more,
         \A h \in more : h \in runs \/ h.id # id
  PROVE  Tells(more, id, commit)
BY DEF Tells

LEMMA WindowOther ==
  ASSUME NEW x, NEW runs, NEW more, NEW last, NEW next, Window(x, runs, last),
         runs \subseteq more, \A h \in more : h \in runs \/ h.id # x.id,
         \/ next = last
         \/ ~RouteOf[x.call.route].serialized
         \/ x.pc \notin {"handling", "reading_seq"}
  PROVE  Window(x, more, next)
BY TellsOther DEF Window

(* A step of c that runs no handler: the others' pasts stay.               *)
LEMMA PastMoves ==
  ASSUME History, NEW c \in Clients, Others(c), UNCHANGED <<handled, resets, seq>>,
         request'[c].pc # "idle" => /\ Past(request'[c], handled, resets)
                                    /\ Window(request'[c], handled, seq)
  PROVE  Pasts' /\ Windows'
<1>1. ASSUME NEW d \in Clients, request'[d].pc # "idle"
      PROVE  /\ Past(request'[d], handled', resets')
             /\ Window(request'[d], handled', seq')
  <2>1. CASE d = c
    BY <1>1, <2>1
  <2>2. CASE d # c
    BY <1>1, <2>2 DEF Others, History, Pasts, Windows, Me
  <2> QED
    BY <2>1, <2>2
<1> QED
  BY <1>1 DEF Pasts, Windows, Me

(* A step of c inside the pipeline, or out of it, that looks at no record  *)
(* and runs no handler.                                                    *)
LEMMA PastGoes ==
  ASSUME History, NEW c \in Clients, Me(c).pc # "idle", SameCall(c), SameScene(c),
         request'[c].pc \in Unrun => Me(c).pc \in Unrun,
         request'[c].pc \in Locked => Me(c).pc \in Locked,
         request'[c].pc = "storing" =>
           Me(c).pc = "reading_seq" /\ Me(c).answer.status = "ok" /\ SameAnswer(c),
         request'[c].pc # "reading_seq",
         request'[c].answer.replay =>
           Me(c).answer.replay /\ request'[c].answer.commit = Me(c).answer.commit
  PROVE  Past(request'[c], handled, resets)
<1>1. Past(request[c], handled, resets)
  BY DEF History, Pasts, Me
<1> QED
  BY <1>1 DEF Past, ReplaysRun, SameCall, SameScene, SameAnswer, Me

LEMMA WindowGoes ==
  ASSUME History, NEW c \in Clients, Me(c).pc # "idle", SameCall(c), SameWindow(c),
         Me(c).pc \notin {"handling", "reading_seq"},
         request'[c].pc \notin {"handling", "reading_seq"}
  PROVE  Window(request'[c], handled, seq)
<1>1. Window(request[c], handled, seq)
  BY DEF History, Windows, Me
<1> QED
  BY <1>1 DEF Window, Seen, SameCall, SameWindow, Me

(* The records, the runs and the answers stay. *)
LEMMA HistoryMoves ==
  ASSUME Told, History, NEW c \in Clients, Me(c).pc # "idle", request'[c].pc # "idle",
         SameCall(c), Others(c), UNCHANGED <<handled, resets, seq, answered, sent, idempotent>>,
         Past(request'[c], handled, resets), Window(request'[c], handled, seq)
  PROVE  History'
<1>1. Numbered'
  BY NumberedMove DEF History
<1>2. Backed' /\ Replayed'
  BY DEF History, Backed, Replayed
<1>3. Pasts' /\ Windows'
  BY PastMoves
<1> QED
  BY <1>1, <1>2, <1>3 DEF History

(* Steps of c that leave records, runs, numbers and windows alone.         *)
LEMMA HistoryInside ==
  ASSUME Told, History, NEW c \in Clients,
         Enter(c) \/ SelectInBand(c) \/ SelectRule(c) \/ Screen(c) \/ PayOut(c) \/ ShapeError(c)
  PROVE  History'
<1>1. CASE Enter(c)
  <2>1. /\ Others(c) /\ SameCall(c) /\ SameWindow(c) /\ SameAnswer(c)
        /\ request'[c].pc = "selecting" /\ request'[c].scene = resets
        /\ Me(c).pc = "matched" /\ Me(c).pc # "idle"
    BY <1>1, EnterGoes DEF Enter
  <2>2. ~request[c].answer.replay
    BY <2>1, FieldsAre DEF Course, Answer, Early, Me
  <2>3. Past(request[c], handled, resets) /\ request[c].pc \in Unrun
    BY <2>1 DEF History, Pasts, Unrun, Me
  <2>4. Past(request'[c], handled, resets)
    BY <2>1, <2>2, <2>3 DEF Past, ReplaysRun, SameCall, SameAnswer, Unrun
  <2>5. Window(request'[c], handled, seq)
    BY <2>1, WindowGoes
  <2> QED
    BY <1>1, <2>1, <2>4, <2>5, HistoryMoves DEF Enter
<1>2. CASE SelectInBand(c) \/ SelectRule(c)
  <2>1. /\ Others(c) /\ SameCall(c) /\ SameScene(c) /\ SameWindow(c) /\ SameAnswer(c)
        /\ request'[c].pc = "screening" /\ Me(c).pc = "selecting" /\ Me(c).pc # "idle"
    BY <1>2, SelectGoes
  <2>2. Past(request'[c], handled, resets)
    BY <2>1, PastGoes DEF SameAnswer, Unrun, Locked, Me
  <2>3. Window(request'[c], handled, seq)
    BY <2>1, WindowGoes
  <2> QED
    BY <1>2, <2>1, <2>2, <2>3, HistoryMoves DEF SelectInBand, SelectRule
<1>3. CASE Screen(c)
  <2>1. /\ Others(c) /\ SameCall(c) /\ SameScene(c) /\ SameWindow(c)
        /\ request'[c].pc \in {"looking_up", "shaping"} /\ Me(c).pc = "screening"
        /\ Me(c).pc # "idle" /\ ~request'[c].answer.replay
    BY <1>3, ScreenGoes
  <2>2. Past(request'[c], handled, resets)
    BY <2>1, PastGoes DEF Unrun, Locked
  <2>3. Window(request'[c], handled, seq)
    BY <2>1, WindowGoes
  <2> QED
    BY <1>3, <2>1, <2>2, <2>3, HistoryMoves DEF Screen
<1>4. CASE PayOut(c)
  <2>1. /\ Others(c) /\ SameCall(c) /\ SameScene(c) /\ SameWindow(c)
        /\ request'[c].pc \in {"shaping", "finishing"} /\ Me(c).pc = "paying_out"
        /\ Me(c).pc # "idle"
        /\ request'[c].answer.replay =>
             Me(c).answer.replay /\ request'[c].answer.commit = Me(c).answer.commit
    BY <1>4, PayOutGoes DEF Me
  <2>2. Past(request'[c], handled, resets)
    BY <2>1, PastGoes DEF Unrun, Locked
  <2>3. Window(request'[c], handled, seq)
    BY <2>1, WindowGoes
  <2> QED
    BY <1>4, <2>1, <2>2, <2>3, HistoryMoves DEF PayOut
<1>5. CASE ShapeError(c)
  <2>1. /\ Others(c) /\ SameCall(c) /\ SameScene(c) /\ SameWindow(c)
        /\ request'[c].pc = "finishing" /\ Me(c).pc = "shaping"
        /\ Me(c).pc # "idle" /\ ~request'[c].answer.replay
    BY <1>5, ShapeErrorGoes
  <2>2. Past(request'[c], handled, resets)
    BY <2>1, PastGoes DEF Unrun, Locked
  <2>3. Window(request'[c], handled, seq)
    BY <2>1, WindowGoes
  <2> QED
    BY <1>5, <2>1, <2>2, <2>3, HistoryMoves DEF ShapeError
<1> QED
  BY <1>1, <1>2, <1>3, <1>4, <1>5

(* A record stands for the handler that wrote it; the request that looks   *)
(* it up ran none, so this one is another's.                               *)
LEMMA HistoryReplay ==
  ASSUME Told, History, NEW c \in Clients, Replay(c)
  PROVE  History'
<1>1. /\ Others(c) /\ SameCall(c) /\ SameScene(c) /\ SameWindow(c)
      /\ Me(c).pc = "looking_up" /\ Me(c).pc # "idle" /\ Stored(c)
      /\ \/ request'[c].pc = "shaping" /\ ~request'[c].answer.replay
         \/ /\ request'[c].pc = "paying_out"
            /\ request'[c].answer.commit = idempotent[Slot(Call(c))].answer.commit
  BY ReplayGoes
<1>2. Window(request'[c], handled, seq)
  BY <1>1, WindowGoes
<1>3. Past(request[c], handled, resets)
  BY <1>1 DEF History, Pasts, Me
<1>4. Past(request'[c], handled, resets)
  <2>1. CASE request'[c].pc = "shaping" /\ ~request'[c].answer.replay
    BY <1>1, <2>1, PastGoes DEF Unrun, Locked
  <2>2. CASE /\ request'[c].pc = "paying_out"
             /\ request'[c].answer.commit = idempotent[Slot(Call(c))].answer.commit
    <3> DEFINE slot == Slot(Call(c))
    <3>1. slot \in DOMAIN idempotent /\ slot # <<>>
      BY <1>1 DEF Stored, Told, Recorded
    <3>2. RouteOf[request[c].call.route].serialized
      BY <1>1, <3>1, FieldsAre, KeyIsSerialized DEF Call, Me
    <3>3. request[c].scene = resets /\ \A h \in handled : h.id # request[c].id
      BY <1>1, <1>3, <3>2 DEF Past, Locked, Unrun, Me
    <3>4. PICK h \in handled : Ran(h, slot, resets, idempotent[slot].answer.commit)
      BY <3>1 DEF History, Backed
    <3>5. /\ request'[c].call = request[c].call /\ request'[c].scene = resets
          /\ request'[c].id = request[c].id /\ Slot(request'[c].call) = slot
      BY <1>1, <3>3 DEF SameCall, SameScene, Call, Me
    <3>6. h.id # request'[c].id
      BY <3>3, <3>5
    <3> HIDE DEF slot
    <3>7. Ran(h, Slot(request'[c].call), request'[c].scene, request'[c].answer.commit)
      BY <2>2, <3>4, <3>5 DEF slot
    <3>8. ReplaysRun(request'[c], handled)
      BY <3>6, <3>7 DEF ReplaysRun
    <3> QED
      BY <2>2, <3>5, <3>8 DEF Past, Unrun
  <2> QED
    BY <1>1, <2>1, <2>2
<1> QED
  BY <1>1, <1>2, <1>4, HistoryMoves DEF Replay

LEMMA HistoryMiss ==
  ASSUME Told, History, NEW c \in Clients, Miss(c)
  PROVE  History'
<1>1. /\ Others(c) /\ SameCall(c) /\ SameScene(c)
      /\ Me(c).pc = "looking_up" /\ Me(c).pc # "idle" /\ ~request'[c].answer.replay
      /\ \/ request'[c].pc = "shaping" /\ SameWindow(c)
         \/ request'[c].pc = "handling" /\ request'[c].before = seq
  BY MissGoes
<1>2. Past(request'[c], handled, resets)
  BY <1>1, PastGoes DEF Unrun, Locked
<1>3. Window(request'[c], handled, seq)
  <2>1. CASE request'[c].pc = "shaping" /\ SameWindow(c)
    BY <1>1, <2>1, WindowGoes
  <2>2. CASE request'[c].pc = "handling" /\ request'[c].before = seq
    BY <2>2 DEF Window
  <2> QED
    BY <1>1, <2>1, <2>2
<1> QED
  BY <1>1, <1>2, <1>3, HistoryMoves DEF Miss

LEMMA HistoryReadSeq ==
  ASSUME Told, History, NEW c \in Clients, ReadSeq(c)
  PROVE  History'
<1>1. /\ Others(c) /\ SameCall(c) /\ SameScene(c) /\ SameAnswer(c)
      /\ Me(c).pc = "reading_seq" /\ Me(c).pc # "idle"
      /\ request'[c].before = request[c].before /\ request'[c].after = seq
      /\ request'[c].pc \in {"storing", "finishing", "shaping"}
      /\ request'[c].pc = "storing" => Me(c).answer.status = "ok"
      /\ ~request'[c].answer.replay
  BY ReadSeqGoes DEF Me
<1>2. Past(request'[c], handled, resets)
  BY <1>1, PastGoes DEF Unrun, Locked
<1>3. Window(request[c], handled, seq)
  BY <1>1 DEF History, Windows, Me
<1>4. Window(request'[c], handled, seq)
  BY <1>1, <1>3 DEF Window, Seen, SameCall, Me
<1> QED
  BY <1>1, <1>2, <1>4, HistoryMoves DEF ReadSeq

(* The answer that goes on record is the one of the handler that just ran, *)
(* in this scenario: no reset found the lock free since.                   *)
LEMMA HistoryStore ==
  ASSUME Told, History, NEW c \in Clients, Store(c)
  PROVE  History'
<1> DEFINE slot == Slot(Call(c))
<1>1. /\ Others(c) /\ SameCall(c) /\ SameScene(c) /\ SameAnswer(c) /\ SameWindow(c)
      /\ Me(c).pc = "storing" /\ Me(c).pc # "idle" /\ request'[c].pc = "paying_out"
      /\ ~request'[c].answer.replay
      /\ DOMAIN idempotent' = DOMAIN idempotent \cup ({slot} \ {<<>>})
      /\ \A s \in DOMAIN idempotent' :
           idempotent'[s].answer = IF s = slot THEN request[c].answer ELSE idempotent[s].answer
      /\ UNCHANGED <<handled, resets, seq, answered, sent>>
  BY StoreGoes DEF Store, StoreAnswer
<1>2. Past(request'[c], handled, resets)
  BY <1>1, PastGoes DEF Unrun, Locked
<1>3. Window(request'[c], handled, seq)
  BY <1>1, WindowGoes
<1>4. Numbered'
  BY <1>1, NumberedMove DEF History
<1>5. Pasts' /\ Windows' /\ Replayed'
  BY <1>1, <1>2, <1>3, PastMoves DEF History, Replayed
<1>6. Past(request[c], handled, resets)
  BY <1>1 DEF History, Pasts, Me
<1>7. slot # <<>> => \E h \in handled : Ran(h, slot, resets, request[c].answer.commit)
  <2> SUFFICES ASSUME slot # <<>>
               PROVE  \E h \in handled : Ran(h, slot, resets, request[c].answer.commit)
    OBVIOUS
  <2>1. RouteOf[request[c].call.route].serialized
    BY <1>1, FieldsAre, KeyIsSerialized DEF Call, Me
  <2>2. request[c].scene = resets
    BY <1>1, <1>6, <2>1 DEF Past, Locked, Me
  <2> QED
    BY <1>1, <1>6, <2>2 DEF Past, Call, Me
<1>8. ASSUME NEW s \in DOMAIN idempotent'
      PROVE  \E h \in handled : Ran(h, s, resets, idempotent'[s].answer.commit)
  <2>1. CASE s = slot
    <3>1. s # <<>>
      BY <1>1, <2>1 DEF Told, Recorded
    <3>2. idempotent'[s].answer = request[c].answer
      BY <1>1, <2>1
    <3> QED
      BY <1>7, <2>1, <3>1, <3>2
  <2>2. CASE s # slot
    <3>1. s \in DOMAIN idempotent /\ idempotent'[s].answer = idempotent[s].answer
      BY <1>1, <2>2
    <3> QED
      BY <3>1 DEF History, Backed
  <2> QED
    BY <2>1, <2>2
<1>9. Backed'
  BY <1>1, <1>8 DEF Backed
<1> QED
  BY <1>4, <1>5, <1>9 DEF History

LEMMA HistoryArrive ==
  ASSUME Told, History, NEW c \in Clients, NEW call \in Calls, Arrive(c, call)
  PROVE  History'
<1>1. /\ Others(c) /\ request'[c].id = sent + 1 /\ request'[c].pc = "matched"
      /\ request'[c].answer.replay = FALSE /\ request'[c].before = 0 /\ request'[c].after = 0
      /\ UNCHANGED <<handled, resets, seq, answered, idempotent>> /\ sent \in Nat
  BY ArriveGoes DEF Arrive, Told, Typed
<1>2. Numbered'
  BY NumberedArrive DEF History
<1>3. \A h \in handled : h.id # request'[c].id
  BY <1>1 DEF History, Numbered
<1>4. Past(request'[c], handled, resets)
  BY <1>1, <1>3 DEF Past, ReplaysRun, Unrun, Locked
<1>5. Window(request'[c], handled, seq)
  BY <1>1, <1>3 DEF Window, Tells, Seen
<1>6. Pasts' /\ Windows'
  BY <1>1, <1>4, <1>5, PastMoves
<1>7. Backed' /\ Replayed'
  BY <1>1 DEF History, Backed, Replayed
<1> QED
  BY <1>2, <1>6, <1>7 DEF History

LEMMA HistoryFinish ==
  ASSUME Told, History, NEW c \in Clients, Finish(c)
  PROVE  History'
<1>1. /\ Others(c) /\ request'[c] = NoRequest /\ NoRequest.pc = "idle" /\ Me(c).pc # "idle"
      /\ answered' = answered \cup {request[c]}
      /\ UNCHANGED <<handled, resets, seq, sent, idempotent>>
  BY FinishGoes DEF Finish, NoRequest
<1>2. Numbered'
  BY NumberedFinish DEF History
<1>3. Pasts' /\ Windows'
  BY <1>1, PastMoves
<1>4. ReplaysRun(request[c], handled)
  BY <1>1 DEF History, Pasts, Past, Me
<1>5. Backed' /\ Replayed'
  BY <1>1, <1>4 DEF History, Backed, Replayed
<1> QED
  BY <1>2, <1>3, <1>5 DEF History

(* A reset finds nobody of the serialized routes inside. *)
LEMMA HistoryReset ==
  ASSUME IInv, Told, History, StateReset
  PROVE  History'
<1>1. /\ UNCHANGED <<request, handled, answered>> /\ sent' = sent + 1 /\ sent \in Nat
      /\ idempotent' = <<>> /\ lock = Nobody
  BY DEF StateReset, Told, Typed
<1>2. \A c \in Clients : ~(Me(c).pc \in Locked /\ Route(c).serialized)
  BY <1>1, PipelineAssumption DEF IInv, Mutex
<1>3. Numbered'
  <2>1. \A c \in Clients : Me(c).pc # "idle" => Me(c).id \in Nat
    BY FieldsAre DEF Me
  <2>2. \A x \in answered : x.id \in Nat
    BY DEF Told, Typed, Requests
  <2>3. \A c \in Clients : request[c].pc # "idle" => request[c].id <= sent'
    BY <1>1, <2>1 DEF History, Numbered, Me
  <2>4. \A x \in answered : x.id <= sent'
    BY <1>1, <2>2 DEF History, Numbered
  <2>5. \A h \in handled : h.id \in 1 .. sent' /\ h.commit \in Nat
    BY <1>1 DEF History, Numbered
  <2> QED
    BY <1>1, <2>3, <2>4, <2>5 DEF History, Numbered, Me
<1>4. Backed' /\ Replayed'
  BY <1>1 DEF History, Backed, Replayed
<1>5. ASSUME NEW c \in Clients, request[c].pc # "idle"
      PROVE  Past(request[c], handled, resets') /\ Window(request[c], handled, seq')
  <2>1. Past(request[c], handled, resets) /\ Window(request[c], handled, seq)
    BY <1>5 DEF History, Pasts, Windows, Me
  <2>2. ~(request[c].pc \in Locked /\ RouteOf[request[c].call.route].serialized)
    BY <1>2 DEF Route, Call, Me
  <2> QED
    BY <2>1, <2>2 DEF Past, Window, Locked
<1>6. Pasts' /\ Windows'
  BY <1>1, <1>5 DEF Pasts, Windows, Me
<1> QED
  BY <1>3, <1>4, <1>6 DEF History

LEMMA HistoryHandle ==
  ASSUME IInv, Told, History, NEW c \in Clients, NEW ending, Handle(c, ending)
  PROVE  History'
<1> DEFINE new == RunOf(c, ending)
<1>1. /\ Others(c) /\ SameCall(c) /\ SameScene(c) /\ SameWindow(c)
      /\ Me(c).pc = "handling" /\ Me(c).pc # "idle" /\ request'[c].pc = "reading_seq"
      /\ ~request'[c].answer.replay /\ request'[c].answer.status = ending.ends
      /\ request'[c].answer.status = "ok" => request'[c].answer.commit = new.commit
      /\ seq' = IF ending.commits THEN seq + 1 ELSE seq
      /\ seq' \in Nat /\ seq \in Nat /\ handled' = handled \cup {new}
      /\ ending.commits => Route(c).serialized
  BY HandleGoes
<1>2. UNCHANGED <<resets, answered, sent, idempotent>>
  BY DEF Handle
<1>3. /\ new.id = request[c].id /\ new.slot = Slot(request[c].call) /\ new.scene = resets
      /\ new.ends = ending.ends /\ new.commit = IF ending.commits THEN seq' ELSE 0
  BY DEF RunOf, Call, Me
<1> HIDE DEF new
<1>4. new.commit \in Nat
  BY <1>1, <1>3
<1>5. Numbered'
  BY <1>1, <1>2, <1>3, <1>4, NumberedMove DEF History, Me
<1>6. Backed' /\ Replayed'
  BY <1>1, <1>2 DEF History, Backed, Replayed, ReplaysRun
<1>7. Past(request[c], handled, resets) /\ Window(request[c], handled, seq)
  BY <1>1 DEF History, Pasts, Windows, Me
<1>8. \A h \in handled : h.id # request[c].id
  BY <1>1, <1>7 DEF Past, Unrun, Me
<1>9. Past(request'[c], handled', resets')
  <2>1. RouteOf[request[c].call.route].serialized => request[c].scene = resets
    BY <1>1, <1>7 DEF Past, Locked, Me
  <2>2. /\ request'[c].call = request[c].call /\ request'[c].scene = request[c].scene
    BY <1>1 DEF SameCall, SameScene
  <2>3. Slot(request[c].call) # <<>> => RouteOf[request[c].call.route].serialized
    BY <1>1, FieldsAre, KeyIsSerialized
  <2>4. ASSUME request'[c].answer.status = "ok", Slot(request[c].call) # <<>>
        PROVE  Ran(new, Slot(request'[c].call), request'[c].scene, request'[c].answer.commit)
    BY <1>1, <1>3, <2>1, <2>2, <2>3, <2>4 DEF Ran
  <2>5. \/ request'[c].answer.status # "ok" \/ Slot(request'[c].call) = <<>>
        \/ \E h \in handled' : Ran(h, Slot(request'[c].call), request'[c].scene,
                                   request'[c].answer.commit)
    BY <1>1, <2>2, <2>4
  <2> QED
    BY <1>1, <1>2, <2>1, <2>2, <2>5 DEF Past, ReplaysRun, Unrun
<1>10. Window(request'[c], handled', seq')
  <2>1. request'[c].call = request[c].call /\ request'[c].id = request[c].id
        /\ request'[c].before = request[c].before
    BY <1>1 DEF SameCall, SameWindow
  <2> SUFFICES ASSUME RouteOf[request[c].call.route].serialized
               PROVE  Tells(handled', request'[c].id, Seen(request'[c], seq'))
    BY <1>1, <2>1 DEF Window
  <2>2. request[c].before = seq
    BY <1>1, <1>7 DEF Window, Me
  <2>3. Seen(request'[c], seq') = new.commit
    BY <1>1, <1>3, <2>1, <2>2 DEF Seen
  <2> QED
    BY <1>1, <1>3, <1>8, <2>1, <2>3 DEF Tells
<1>11. ASSUME NEW d \in Clients, d # c, request[d].pc # "idle"
       PROVE  Past(request[d], handled', resets') /\ Window(request[d], handled', seq')
  <2>1. Past(request[d], handled, resets) /\ Window(request[d], handled, seq)
    BY <1>11 DEF History, Pasts, Windows, Me
  <2>2. request[d].id # request[c].id
    BY <1>1, <1>11 DEF History, Numbered, Me
  <2>3. handled \subseteq handled' /\ \A h \in handled' : h \in handled \/ h.id # request[d].id
    BY <1>1, <1>3, <2>2
  <2>4. Past(request[d], handled', resets')
    BY <1>2, <2>1, <2>3, PastOther
  <2>5. \/ seq' = seq
        \/ ~RouteOf[request[d].call.route].serialized
        \/ request[d].pc \notin {"handling", "reading_seq"}
    <3> SUFFICES ASSUME ending.commits, Route(d).serialized, Me(d).pc \in {"handling", "reading_seq"}
                 PROVE  FALSE
      BY <1>1 DEF Route, Call, Me
    <3> QED
      BY <1>1, <1>11, Alone DEF Locked
  <2> QED
    BY <2>1, <2>3, <2>4, <2>5, WindowOther
<1>12. Pasts' /\ Windows'
  <2>1. ASSUME NEW d \in Clients, request'[d].pc # "idle"
        PROVE  Past(request'[d], handled', resets') /\ Window(request'[d], handled', seq')
    BY <1>1, <1>9, <1>10, <1>11, <2>1 DEF Others
  <2> QED
    BY <2>1 DEF Pasts, Windows, Me
<1> QED
  BY <1>5, <1>6, <1>12 DEF History

LEMMA HistoryInit == PipelineInit => History
<1> SUFFICES ASSUME PipelineInit PROVE History
  OBVIOUS
<1>1. /\ request = [c \in Clients |-> NoRequest] /\ NoRequest.pc = "idle"
      /\ idempotent = <<>> /\ answered = {} /\ handled = {}
  BY DEF PipelineInit, NoRequest
<1> QED
  BY <1>1 DEF History, Numbered, Backed, Pasts, Windows, Replayed, Me

LEMMA HistoryNext == IInv /\ Told /\ History /\ [PipelineNext]_pipelineVars => History'
<1> SUFFICES ASSUME IInv, Told, History, [PipelineNext]_pipelineVars PROVE History'
  OBVIOUS
<1>1. ASSUME NEW c \in Clients, Request_Next(c) PROVE History'
  <2>1. CASE Enter(c) \/ SelectInBand(c) \/ SelectRule(c) \/ Screen(c) \/ PayOut(c) \/ ShapeError(c)
    BY <2>1, HistoryInside
  <2>2. CASE Replay(c)
    BY <2>2, HistoryReplay
  <2>3. CASE Miss(c)
    BY <2>3, HistoryMiss
  <2>4. CASE \E ending \in UNION {Endings[r] : r \in Routes} : Handle(c, ending)
    BY <2>4, HistoryHandle
  <2>5. CASE ReadSeq(c)
    BY <2>5, HistoryReadSeq
  <2>6. CASE Store(c)
    BY <2>6, HistoryStore
  <2>7. CASE Finish(c)
    BY <2>7, HistoryFinish
  <2> QED
    BY <1>1, <2>1, <2>2, <2>3, <2>4, <2>5, <2>6, <2>7 DEF Request_Next
<1>2. CASE UNCHANGED pipelineVars
  BY <1>2 DEF pipelineVars, History, Numbered, Backed, Pasts, Windows, Replayed, Me
<1> QED
  BY <1>1, <1>2, HistoryArrive, HistoryReset DEF PipelineNext

LEMMA AlwaysHistory == PipelineSpec => [](IInv /\ Told /\ History)
<1>1. PipelineInit => IInv /\ Told /\ History
  BY InitEstablishes, ToldInit, HistoryInit
<1>2. IInv /\ Told /\ History /\ [PipelineNext]_pipelineVars => (IInv /\ Told /\ History)'
  BY StepPreserves, ToldNext, HistoryNext
<1> QED
  BY <1>1, <1>2, PTL DEF PipelineSpec

(* A replay is the answer of a handler that ran for another request with   *)
(* this key in this scenario, carries no fault but this request's own, and *)
(* went to nobody who was not let in (unit.py:41).                         *)
THEOREM ReplaysAreTrue == PipelineSpec => []ReplaysNameTheCommit
<1>1. IInv /\ Told /\ History => ReplaysNameTheCommit
  BY DEF Told, Courses, Course, Paid, LetIn, History, Replayed, ReplaysRun, Ran, ReplaysNameTheCommit
<1> QED
  BY <1>1, AlwaysHistory, PTL

(***************************************************************************)
(* The request log.                                                        *)
(***************************************************************************)
Rows == [id : Nat, status : Statuses, fault : AllFaults \cup {"none"}, commit : Nat,
         discarded : BOOLEAN]

KeptBack(x) == x.answer.status = "diagnostic" \/ x.answer.fault = "mangle"

RowTells(row, x, runs) ==
  /\ x.id = row.id
  /\ RouteOf[x.call.route].serialized =>
       Tells(runs, row.id, row.commit) /\ row.discarded = (row.commit > 0 /\ KeptBack(x))

Logged ==
  /\ log \in Seq(Rows)
  /\ \A i \in 1 .. Len(log) : \E x \in answered : RowTells(log[i], x, handled)

LEMMA RowIsTold ==
  ASSUME Told, History, NEW c \in Clients, Me(c).pc = "finishing"
  PROVE  LogRow(c) \in Rows /\ RowTells(LogRow(c), request[c], handled)
<1> DEFINE x == request[c]
           row == LogRow(c)
<1>1. /\ Me(c).pc # "idle" /\ x.pc = "finishing" /\ x.id \in Nat /\ x.before \in Nat
      /\ x.after \in Nat /\ x.attempted \in BOOLEAN /\ Paid(x) /\ x.answer.status \in Statuses
      /\ x.decision.fault \in AllFaults \cup {"none"}
  BY FieldsAre DEF Course, Me
<1>2. Window(x, handled, seq)
  BY <1>1 DEF History, Windows, Me
<1>3. /\ row.id = x.id /\ row.status = x.answer.status /\ row.fault = x.decision.fault
      /\ row.commit = Seen(x, x.after)
      /\ row.discarded = (x.after > x.before /\ x.attempted /\ x.decision.fault # "slow_body")
      /\ row = [id |-> row.id, status |-> row.status, fault |-> row.fault,
                commit |-> row.commit, discarded |-> row.discarded]
  BY DEF LogRow, Row, Seen, Fault, Me
<1> HIDE DEF x, row
<1>4. row.commit \in Nat /\ (row.commit > 0 <=> x.after > x.before)
  BY <1>1, <1>3 DEF Seen
<1>5. row.discarded = (row.commit > 0 /\ KeptBack(x))
  <2>1. (x.attempted /\ x.decision.fault # "slow_body") <=> KeptBack(x)
    BY <1>1 DEF Paid, KeptBack
  <2>2. row.discarded <=> (row.commit > 0 /\ KeptBack(x))
    BY <1>3, <1>4, <2>1
  <2> QED
    BY <1>3, <2>2
<1>6. row \in Rows
  BY <1>1, <1>3, <1>4 DEF Rows
<1>7. RouteOf[x.call.route].serialized => Tells(handled, row.id, row.commit)
  BY <1>1, <1>2, <1>3 DEF Window
<1> QED
  BY <1>3, <1>5, <1>6, <1>7 DEF RowTells, x, row

LEMMA LoggedFinish ==
  ASSUME Told, History, Logged, NEW c \in Clients, Finish(c)
  PROVE  Logged'
<1>1. /\ Me(c).pc = "finishing" /\ answered' = answered \cup {request[c]} /\ handled' = handled
  BY FinishGoes DEF Finish
<1>2. LogRow(c) \in Rows /\ RowTells(LogRow(c), request[c], handled)
  BY <1>1, RowIsTold
<1> DEFINE row == LogRow(c)
           base == IF Len(log) < LogCapacity THEN log ELSE Tail(log)
<1>3. log' = IF LogCapacity = 0 THEN log ELSE Append(base, row)
  BY DEF Finish, Record
<1>4. log \in Seq(Rows) /\ LogCapacity \in Nat /\ Len(log) \in Nat
  BY PipelineAssumption DEF Logged
<1> HIDE DEF row
<1>5. CASE LogCapacity = 0
  BY <1>1, <1>3, <1>5 DEF Logged
<1>6. CASE LogCapacity # 0
  <2>1. base \in Seq(Rows) /\ \A i \in 1 .. Len(base) : \E k \in 1 .. Len(log) : base[i] = log[k]
    <3>1. CASE Len(log) < LogCapacity
      BY <1>4, <3>1
    <3>2. CASE ~(Len(log) < LogCapacity)
      <4>1. base = Tail(log) /\ log # <<>>
        BY <1>4, <1>6, <3>2
      <4>2. /\ base \in Seq(Rows) /\ Len(base) = Len(log) - 1
            /\ \A i \in 1 .. Len(base) : base[i] = log[i + 1]
        BY <1>4, <4>1
      <4> HIDE DEF base
      <4>3. \A i \in 1 .. Len(base) : i + 1 \in 1 .. Len(log)
        BY <1>4, <4>2
      <4> QED
        BY <4>2, <4>3
    <3> QED
      BY <3>1, <3>2
  <2> HIDE DEF base
  <2>2. row \in Rows /\ log' = Append(base, row)
    BY <1>2, <1>3, <1>6 DEF row
  <2>3. /\ log' \in Seq(Rows) /\ Len(log') = Len(base) + 1 /\ log'[Len(base) + 1] = row
        /\ \A i \in 1 .. Len(base) : log'[i] = base[i]
    BY <2>1, <2>2
  <2>4. ASSUME NEW i \in 1 .. Len(log')
        PROVE  \E x \in answered' : RowTells(log'[i], x, handled')
    <3>1. CASE i = Len(base) + 1
      BY <1>1, <1>2, <2>3, <3>1 DEF row
    <3>2. CASE i # Len(base) + 1
      <4>1. i \in 1 .. Len(base)
        BY <2>1, <2>3, <3>2
      <4>2. PICK k \in 1 .. Len(log) : log'[i] = log[k]
        BY <2>1, <2>3, <4>1
      <4> QED
        BY <1>1, <4>2 DEF Logged
    <3> QED
      BY <3>1, <3>2
  <2> QED
    BY <2>3, <2>4 DEF Logged
<1> QED
  BY <1>5, <1>6

(* A handler runs for a request that is still to be logged. *)
LEMMA LoggedHandle ==
  ASSUME Told, History, Logged, NEW c \in Clients, NEW ending, Handle(c, ending)
  PROVE  Logged'
<1>1. /\ handled' = handled \cup {RunOf(c, ending)} /\ UNCHANGED <<log, answered>>
      /\ RunOf(c, ending).id = request[c].id
  BY HandleGoes DEF Handle, RunOf, Me
<1>2. ASSUME NEW i \in 1 .. Len(log) PROVE \E x \in answered : RowTells(log[i], x, handled')
  <2>1. PICK x \in answered : RowTells(log[i], x, handled)
    BY DEF Logged
  <2>2. x.id # request[c].id /\ x.id = log[i].id
    BY <2>1 DEF History, Numbered, RowTells, Me
  <2>3. handled \subseteq handled' /\ \A h \in handled' : h \in handled \/ h.id # log[i].id
    BY <1>1, <2>2
  <2>4. RowTells(log[i], x, handled')
    BY <2>1, <2>3, TellsOther DEF RowTells
  <2> QED
    BY <2>4
<1> QED
  BY <1>1, <1>2 DEF Logged

LEMMA LoggedNext == Told /\ History /\ Logged /\ [PipelineNext]_pipelineVars => Logged'
<1> SUFFICES ASSUME Told, History, Logged, [PipelineNext]_pipelineVars PROVE Logged'
  OBVIOUS
<1>1. CASE UNCHANGED <<log, answered, handled>>
  BY <1>1 DEF Logged
<1>2. CASE StateReset
  BY <1>2 DEF StateReset, Logged
<1>3. CASE \E c \in Clients : \E ending : Handle(c, ending)
  BY <1>3, LoggedHandle
<1>4. CASE \E c \in Clients : Finish(c)
  BY <1>4, LoggedFinish
<1>5. ASSUME NEW c \in Clients, Request_Next(c) PROVE Logged'
  <2>1. CASE \/ Enter(c) \/ SelectInBand(c) \/ SelectRule(c) \/ Screen(c) \/ Replay(c) \/ Miss(c)
             \/ ReadSeq(c) \/ Store(c) \/ PayOut(c) \/ ShapeError(c)
    BY <1>1, <2>1 DEF Enter, SelectInBand, SelectRule, Screen, Replay, Miss, ReadSeq, Store,
                      StoreAnswer, PayOut, ShapeError
  <2> QED
    BY <1>3, <1>4, <1>5, <2>1 DEF Request_Next
<1>6. ASSUME NEW c \in Clients, NEW call \in Calls, Arrive(c, call) PROVE Logged'
  BY <1>1, <1>6 DEF Arrive
<1>7. CASE UNCHANGED pipelineVars
  BY <1>1, <1>7 DEF pipelineVars
<1> QED
  BY <1>2, <1>5, <1>6, <1>7 DEF PipelineNext

(* A row of the request log names its own request's commit, and says       *)
(* discarded when a fault kept that answer from the caller (unit.py:492).  *)
THEOREM LogRowsAreTrue == PipelineSpec => []LogTellsCommits
<1>1. PipelineInit => Logged
  BY DEF PipelineInit, Logged
<1>2. Told /\ History /\ Logged => LogTellsCommits
  <2> DEFINE x(i) == CHOOSE y \in answered : y.id = log[i].id
  <2> SUFFICES ASSUME Told, History, Logged, NEW i \in 1 .. Len(log),
                        RouteOf[x(i).call.route].serialized
                 PROVE  TellsItsCommit(log[i]) /\ log[i].discarded = (log[i].commit > 0 /\ KeptBack(x(i)))
    BY Zenon DEF LogTellsCommits, KeptBack
  <2>1. PICK y \in answered : RowTells(log[i], y, handled)
    BY DEF Logged
  <2>2. x(i) = y
    BY <2>1 DEF RowTells, History, Numbered
  <2> HIDE DEF x
  <2>3. Tells(handled, log[i].id, log[i].commit) /\ log[i].discarded = (log[i].commit > 0 /\ KeptBack(x(i)))
    BY <2>1, <2>2 DEF RowTells
  <2>4. log[i].commit \in Nat
    <3>1. log \in Seq(Rows)
      BY DEF Logged
    <3>2. log[i] \in Rows
      BY <3>1
    <3> QED
      BY <3>2 DEF Rows
  <2>5. TellsItsCommit(log[i])
    <3> DEFINE mine == {h \in handled : h.id = log[i].id /\ h.commit > 0}
    <3>1. \A n : n \in {h.commit : h \in mine} <=> n \in {log[i].commit} \ {0}
      BY <2>3, <2>4 DEF Tells
    <3>2. {h.commit : h \in mine} = {log[i].commit} \ {0}
      BY <3>1
    <3> QED
      BY <3>2 DEF TellsItsCommit
  <2> QED
    BY <2>3, <2>5
<1> QED
  BY <1>1, <1>2, LoggedNext, AlwaysHistory, PTL DEF PipelineSpec

(***************************************************************************)
(* Draws, counted by the numbers of the requests that made them.           *)
(***************************************************************************)
Decided == {x \in answered \cup InFlight : x.decision # NoDecision}

(* The numbers of the requests that carry a decision: any, or this rule's. *)
DecidedIds == {n \in 1 .. sent : \E x \in Decided : x.id = n}
DecidedBy(id) == {n \in 1 .. sent : \E x \in Decided : x.id = n /\ x.decision.id = id}

Draws ==
  /\ Len(history) = Cardinality(DecidedIds)
  /\ \A id \in RuleIds : Fires(id) <= Cardinality(DecidedBy(id))

(* One record for each number: as many records as numbers. *)
LEMMA CountByNumber ==
  ASSUME NEW S, NEW N, IsFiniteSet(N), \A x \in S : x.id \in N,
         \A n \in N : \E x \in S : x.id = n, \A x, y \in S : x.id = y.id => x = y
  PROVE  IsFiniteSet(S) /\ Cardinality(S) = Cardinality(N)
<1> DEFINE f == [n \in N |-> CHOOSE x \in S : x.id = n]
<1>1. \A n \in N : f[n] \in S /\ f[n].id = n
  OBVIOUS
<1>2. f \in [N -> S] /\ DOMAIN f = N
  BY <1>1
<1>3. \A x \in S : f[x.id] = x
  BY <1>1
<1> HIDE DEF f
<1>4. f \in Surjection(N, S) /\ f \in Injection(N, S)
  BY <1>1, <1>2, <1>3 DEF Surjection, Injection, IsInjective
<1>5. ExistsBijection(N, S)
  BY <1>4 DEF Bijection, ExistsBijection
<1> QED
  BY <1>5, FS_Bijection

LEMMA DecidedAreNumbered ==
  ASSUME Told, Numbered
  PROVE  /\ \A x \in Decided : x.id \in 1 .. sent
         /\ \A x, y \in Decided : x.id = y.id => x = y
         /\ sent \in Nat
<1>1. \A x \in answered : x.id \in 1 .. sent
  BY DEF Told, Typed, Requests, Numbered
<1>2. \A x \in InFlight : \E c \in Clients : Me(c).pc # "idle" /\ x = Me(c)
  BY DEF InFlight, Me
<1>3. \A c \in Clients : Me(c).pc # "idle" => Me(c).id \in 1 .. sent
  BY FieldsAre DEF Numbered, Told, Typed, Me
<1>4. \A x, y \in InFlight : x.id = y.id => x = y
  BY <1>2 DEF Numbered
<1>5. \A x \in answered, y \in InFlight : x.id # y.id
  BY <1>2 DEF Numbered
<1> QED
  BY <1>1, <1>2, <1>3, <1>4, <1>5 DEF Decided, Numbered, Told, Typed

LEMMA CountsAreFinite ==
  ASSUME Told, Numbered
  PROVE  /\ IsFiniteSet(DecidedIds) /\ Cardinality(DecidedIds) \in Nat
         /\ \A id : IsFiniteSet(DecidedBy(id)) /\ Cardinality(DecidedBy(id)) \in Nat
<1>1. IsFiniteSet(1 .. sent)
  BY FS_Interval DEF Told, Typed
<1>2. DecidedIds \subseteq 1 .. sent /\ \A id : DecidedBy(id) \subseteq 1 .. sent
  BY DEF DecidedIds, DecidedBy
<1> QED
  BY <1>1, <1>2, FS_Subset, FS_CardinalityType

(* Which requests carry what decision, as the state tells it. *)
Carries(n, decision) ==
  \/ \E x \in answered : x.id = n /\ x.decision = decision
  \/ \E c \in Clients : Me(c).pc # "idle" /\ Me(c).id = n /\ Me(c).decision = decision

Tally ==
  /\ DecidedIds = {n \in 1 .. sent : \E d : d # NoDecision /\ Carries(n, d)}
  /\ \A id : DecidedBy(id) =
               {n \in 1 .. sent : \E d : d # NoDecision /\ d.id = id /\ Carries(n, d)}

LEMMA CarriersAre == Tally
<1>1. \A x : x \in InFlight <=> \E c \in Clients : Me(c).pc # "idle" /\ x = Me(c)
  BY DEF InFlight, Me
<1>2. \A n, d : d # NoDecision => (Carries(n, d) <=> \E x \in Decided : x.id = n /\ x.decision = d)
  BY <1>1 DEF Carries, Decided
<1> QED
  BY <1>2 DEF Tally, DecidedIds, DecidedBy, Decided

LEMMA CarriersNumbered ==
  ASSUME Told, Numbered, NEW n, NEW d, d # NoDecision, Carries(n, d)
  PROVE  n \in 1 .. sent
<1>1. \E x \in Decided : x.id = n
  BY DEF Carries, Decided, InFlight, Me
<1> QED
  BY <1>1, DecidedAreNumbered

(* The same requests carry the same decisions, and nothing fired. *)
LEMMA DrawsKept ==
  ASSUME Told, Numbered, Draws, sent' = sent \/ sent' = sent + 1,
         Len(history') = Len(history), \A id \in RuleIds : Fires(id)' = Fires(id),
         \A n, d : d # NoDecision => (Carries(n, d)' <=> Carries(n, d))
  PROVE  Draws'
<1>1. sent \in Nat
  BY DEF Told, Typed
<1>2. \A n, d : d # NoDecision /\ Carries(n, d) => n \in 1 .. sent
  BY CarriersNumbered
<1>3. /\ DecidedIds' = {n \in 1 .. sent' : \E d : d # NoDecision /\ Carries(n, d)'}
      /\ \A id : DecidedBy(id)' =
                   {n \in 1 .. sent' : \E d : d # NoDecision /\ d.id = id /\ Carries(n, d)'}
  <2>1. Tally'
    BY CarriersAre, PTL
  <2> QED
    BY <2>1 DEF Tally
<1>4. \A n, d : d # NoDecision /\ Carries(n, d) => n \in 1 .. sent'
  BY <1>1, <1>2
<1>5. DecidedIds' = DecidedIds
  BY <1>2, <1>3, <1>4, CarriersAre DEF Tally
<1>6. \A id : DecidedBy(id)' = DecidedBy(id)
  BY <1>2, <1>3, <1>4, CarriersAre DEF Tally
<1> QED
  BY <1>5, <1>6 DEF Draws

LEMMA DrawsSelect ==
  ASSUME Told, Numbered, Draws, NEW c \in Clients, SelectInBand(c) \/ SelectRule(c)
  PROVE  Draws'
<1>1. /\ Others(c) /\ SameCall(c) /\ request'[c].pc = "screening" /\ Me(c).pc = "selecting"
      /\ Me(c).pc # "idle" /\ Drew(c) /\ UNCHANGED <<answered, sent>>
  BY SelectGoes DEF SelectInBand, SelectRule
<1>2. request[c].decision = NoDecision /\ request'[c].id = request[c].id
  BY <1>1, FieldsAre DEF Course, Early, SameCall, Me
<1> DEFINE number == request[c].id
           drawn == request'[c].decision
<1>3. \A n, d : d # NoDecision =>
        (Carries(n, d)' <=> Carries(n, d) \/ (n = number /\ d = drawn))
  BY <1>1, <1>2 DEF Carries, Others, Me
<1>4. CASE /\ drawn = NoDecision /\ Len(history') = Len(history)
           /\ \A id \in RuleIds : Fires(id)' = Fires(id)
  <2>1. \A n, d : d # NoDecision => (Carries(n, d)' <=> Carries(n, d))
    BY <1>3, <1>4
  <2> QED
    BY <1>1, <1>4, <2>1, DrawsKept
<1>5. CASE /\ drawn # NoDecision /\ Len(history') = Len(history) + 1
           /\ \A id \in RuleIds : Fires(id)' = Fires(id) + IF id = drawn.id THEN 1 ELSE 0
  <2>1. number \in 1 .. sent
    BY <1>1, FieldsAre DEF Numbered, Told, Typed, Me
  <2>2. \A d : d # NoDecision => ~Carries(number, d)
    BY <1>1, <1>2 DEF Carries, Numbered, Me
  <2>3. /\ DecidedIds' = {n \in 1 .. sent : \E d : d # NoDecision /\ Carries(n, d)'}
        /\ \A id : DecidedBy(id)' =
                     {n \in 1 .. sent : \E d : d # NoDecision /\ d.id = id /\ Carries(n, d)'}
    <3>1. /\ DecidedIds' = {n \in 1 .. sent' : \E d : d # NoDecision /\ Carries(n, d)'}
          /\ \A id : DecidedBy(id)' =
                       {n \in 1 .. sent' : \E d : d # NoDecision /\ d.id = id /\ Carries(n, d)'}
      <4>1. Tally'
        BY CarriersAre, PTL
      <4> QED
        BY <4>1 DEF Tally
    <3> QED
      BY <1>1, <3>1
  <2> HIDE DEF number, drawn
  <2>4. DecidedIds' = DecidedIds \cup {number} /\ number \notin DecidedIds
    BY <1>3, <1>5, <2>1, <2>2, <2>3, CarriersAre DEF Tally
  <2>5. \A id : /\ id = drawn.id => DecidedBy(id)' = DecidedBy(id) \cup {number}
                /\ id # drawn.id => DecidedBy(id)' = DecidedBy(id)
                /\ number \notin DecidedBy(id)
    BY <1>3, <1>5, <2>1, <2>2, <2>3, CarriersAre DEF Tally
  <2>6. Len(history') = Cardinality(DecidedIds')
    BY <1>5, <2>4, CountsAreFinite, FS_AddElement DEF Draws
  <2>7. ASSUME NEW id \in RuleIds PROVE Fires(id)' <= Cardinality(DecidedBy(id)')
    <3>1. Fires(id) <= Cardinality(DecidedBy(id)) /\ Fires(id) \in Nat
          /\ Cardinality(DecidedBy(id)) \in Nat /\ IsFiniteSet(DecidedBy(id))
      BY CountsAreFinite DEF Draws, Fires, Told, TypeOK
    <3>2. CASE id = drawn.id
      <4>1. Cardinality(DecidedBy(id)') = Cardinality(DecidedBy(id)) + 1
        BY <2>5, <3>1, <3>2, FS_AddElement
      <4> QED
        BY <1>5, <3>1, <3>2, <4>1
    <3>3. CASE id # drawn.id
      BY <1>5, <2>5, <3>1, <3>3
    <3> QED
      BY <3>2, <3>3
  <2> QED
    BY <2>6, <2>7 DEF Draws
<1> QED
  BY <1>1, <1>4, <1>5 DEF Drew

LEMMA DrawsNext == Told /\ History /\ Draws /\ [PipelineNext]_pipelineVars => Draws'
<1> SUFFICES ASSUME Told, History, Draws, [PipelineNext]_pipelineVars PROVE Draws'
  OBVIOUS
<1>0. Numbered
  BY DEF History
<1>1. ASSUME UNCHANGED vars, sent' = sent \/ sent' = sent + 1,
             \A n, d : d # NoDecision => (Carries(n, d)' <=> Carries(n, d))
      PROVE  Draws'
  <2>1. Len(history') = Len(history) /\ \A id \in RuleIds : Fires(id)' = Fires(id)
    BY <1>1 DEF vars, Fires
  <2> QED
    BY <1>0, <1>1, <2>1, DrawsKept
<1>2. ASSUME NEW c \in Clients, Others(c), SameCall(c), SameDecision(c), Me(c).pc # "idle",
             request'[c].pc # "idle", UNCHANGED <<answered, sent, vars>>
      PROVE  Draws'
  <2>1. \A n, d : Carries(n, d)' <=> Carries(n, d)
    BY <1>2 DEF Carries, Others, SameCall, SameDecision, Me
  <2> QED
    BY <1>1, <1>2, <2>1
<1>3. ASSUME NEW c \in Clients, Request_Next(c) PROVE Draws'
  <2>1. CASE Enter(c)
    BY <1>2, <2>1, EnterGoes DEF Enter
  <2>2. CASE SelectInBand(c) \/ SelectRule(c)
    BY <1>0, <2>2, DrawsSelect
  <2>3. CASE Screen(c)
    BY <1>2, <2>3, ScreenGoes DEF Screen
  <2>4. CASE Replay(c)
    BY <1>2, <2>4, ReplayGoes DEF Replay
  <2>5. CASE Miss(c)
    BY <1>2, <2>5, MissGoes DEF Miss
  <2>6. CASE \E ending \in UNION {Endings[r] : r \in Routes} : Handle(c, ending)
    BY <1>2, <2>6, HandleGoes DEF Handle
  <2>7. CASE ReadSeq(c)
    BY <1>2, <2>7, ReadSeqGoes DEF ReadSeq
  <2>8. CASE Store(c)
    BY <1>2, <2>8, StoreGoes DEF Store, StoreAnswer
  <2>9. CASE PayOut(c)
    BY <1>2, <2>9, PayOutGoes DEF PayOut
  <2>10. CASE ShapeError(c)
    BY <1>2, <2>10, ShapeErrorGoes DEF ShapeError
  <2>11. CASE Finish(c)
    <3>1. /\ Others(c) /\ request'[c] = NoRequest /\ NoRequest.pc = "idle"
          /\ Me(c).pc # "idle" /\ answered' = answered \cup {request[c]}
          /\ UNCHANGED <<sent, vars>>
      BY <2>11, FinishGoes DEF Finish, NoRequest
    <3>2. \A n, d : Carries(n, d)' <=> Carries(n, d)
      BY <3>1 DEF Carries, Others, Me
    <3> QED
      BY <1>1, <3>1, <3>2
  <2> QED
    BY <1>3, <2>1, <2>2, <2>3, <2>4, <2>5, <2>6, <2>7, <2>8, <2>9, <2>10, <2>11 DEF Request_Next
<1>4. ASSUME NEW c \in Clients, NEW call \in Calls, Arrive(c, call) PROVE Draws'
  <2>1. /\ Others(c) /\ request'[c].pc = "matched" /\ Course(request'[c])
        /\ Me(c).pc = "idle" /\ sent' = sent + 1 /\ UNCHANGED <<answered, vars>>
    BY <1>4, ArriveGoes DEF Arrive
  <2>2. request'[c].decision = NoDecision
    BY <2>1 DEF Course, Early
  <2>3. \A n, d : d # NoDecision => (Carries(n, d)' <=> Carries(n, d))
    BY <2>1, <2>2 DEF Carries, Others, Me
  <2> QED
    BY <1>1, <2>1, <2>3
<1>5. CASE StateReset
  <2>1. \A n, d : Carries(n, d)' <=> Carries(n, d)
    BY <1>5 DEF StateReset, Carries, Me
  <2> QED
    BY <1>1, <1>5, <2>1 DEF StateReset
<1>6. CASE UNCHANGED pipelineVars
  <2>1. \A n, d : Carries(n, d)' <=> Carries(n, d)
    BY <1>6 DEF pipelineVars, Carries, Me
  <2> QED
    BY <1>1, <1>6, <2>1 DEF pipelineVars
<1> QED
  BY <1>3, <1>4, <1>5, <1>6 DEF PipelineNext

(* A rule is evaluated once for a request: what fired and who carries a    *)
(* decision are one to one, and no rule fires more often than it was       *)
(* drawn (unit.py:28).                                                     *)
THEOREM DrawnOnce == PipelineSpec => []OneDrawPerRequest
<1>1. PipelineInit => Draws
  <2> SUFFICES ASSUME PipelineInit PROVE Draws
    OBVIOUS
  <2>1. /\ sent = 0 /\ history = <<>> /\ state = [id \in RuleIds |-> Zero]
    BY DEF PipelineInit, Init
  <2>2. DecidedIds = {} /\ \A id : DecidedBy(id) = {}
    BY <2>1 DEF DecidedIds, DecidedBy
  <2>3. Cardinality({}) = 0
    BY FS_EmptySet
  <2>4. Len(history) = 0
    BY <2>1
  <2>5. \A id \in RuleIds : Fires(id) = 0
    BY <2>1 DEF Fires, Zero
  <2>6. Len(history) = Cardinality(DecidedIds)
    BY <2>2, <2>3, <2>4
  <2>7. ASSUME NEW id \in RuleIds PROVE Fires(id) <= Cardinality(DecidedBy(id))
    <3>1. DecidedBy(id) = {} /\ Fires(id) = 0
      BY <2>2, <2>5
    <3> QED
      BY <3>1, <2>3
  <2> QED
    BY <2>6, <2>7 DEF Draws
<1>2. Told /\ History /\ Draws => OneDrawPerRequest
  <2> SUFFICES ASSUME Told, Numbered, Draws PROVE OneDrawPerRequest
    BY DEF History
  <2>1. Cardinality(Decided) = Cardinality(DecidedIds)
    BY DecidedAreNumbered, CountsAreFinite, CountByNumber DEF DecidedIds
  <2>2. ASSUME NEW id
        PROVE  Cardinality({x \in Decided : x.decision.id = id}) = Cardinality(DecidedBy(id))
    <3> DEFINE S == {x \in Decided : x.decision.id = id}
    <3>1. /\ \A x \in S : x.id \in DecidedBy(id)
          /\ \A n \in DecidedBy(id) : \E x \in S : x.id = n
          /\ \A x, y \in S : x.id = y.id => x = y
      BY DecidedAreNumbered DEF DecidedBy
    <3>2. IsFiniteSet(DecidedBy(id))
      BY CountsAreFinite
    <3> HIDE DEF S
    <3>3. Cardinality(S) = Cardinality(DecidedBy(id))
      BY <3>1, <3>2, CountByNumber
    <3> QED
      BY <3>3 DEF S
  <2> QED
    BY <2>1, <2>2 DEF OneDrawPerRequest, Decided, Draws, Fires
<1> QED
  BY <1>1, <1>2, DrawsNext, AlwaysHistory, PTL DEF PipelineSpec

(***************************************************************************)
(* The rules that decide: counters, kept for each of them on its own.      *)
(***************************************************************************)
OneRuleAnId(list) ==
  \A i, j \in 1 .. Len(list) : RuleOf[list[i]].id = RuleOf[list[j]].id => i = j

(* replace() takes any list (engine.py:262); two rules with one id would   *)
(* share its counter.                                                      *)
DistinctLists == \A list \in RuleLists : OneRuleAnId(list)

(* How many of the subjects from a place on a rule matches. *)
Matched(list, from, match) == Cardinality({i \in from + 1 .. Len(list) : list[i] \in match})

(* MatchesAreOwn, of places instead of entries. *)
OwnCounts ==
  \A i \in 1 .. Len(rules) :
    LET rule == RuleOf[rules[i]] counts == state[rule.id] IN
    /\ counts.matches = Matched(trace, since[rule.id], rule.match)
    /\ counts.fires <= counts.matches
    /\ rule.times # Unlimited => counts.fires <= rule.times

Armed == TypeOK /\ OneRuleAnId(rules) /\ OwnCounts

LEMMA OwnIsOwn == OwnCounts <=> MatchesAreOwn
<1> DEFINE Own(r) ==
             LET rule == RuleOf[r] counts == state[rule.id] IN
             /\ counts.matches = Matched(trace, since[rule.id], rule.match)
             /\ counts.fires <= counts.matches
             /\ rule.times # Unlimited => counts.fires <= rule.times
<1>1. MatchesAreOwn <=> \A r \in Entries(rules) : Own(r)
  BY Zenon DEF MatchesAreOwn, Matched
<1>2. OwnCounts <=> \A i \in 1 .. Len(rules) : Own(rules[i])
  BY DEF OwnCounts
<1> HIDE DEF Own
<1> QED
  BY <1>1, <1>2 DEF Entries

LEMMA RulesAre ==
  ASSUME NEW r \in Rules
  PROVE  /\ RuleOf[r].id \in RuleIds /\ RuleOf[r].match \in SUBSET Routes
         /\ RuleOf[r].times # Unlimited => RuleOf[r].times \in Nat
         /\ RuleOf[r].every \in Nat \ {0} /\ RuleOf[r].after \in Nat
BY EngineAssumption DEF RuleShape

LEMMA MatchedIsNat ==
  ASSUME NEW S, NEW list \in Seq(S), NEW from \in Nat, NEW match
  PROVE  Matched(list, from, match) \in Nat
<1>1. IsFiniteSet(from + 1 .. Len(list))
  BY FS_Interval
<1> DEFINE seen == {i \in from + 1 .. Len(list) : list[i] \in match}
<1>2. seen \subseteq from + 1 .. Len(list)
  OBVIOUS
<1> HIDE DEF seen
<1>3. Cardinality(seen) \in Nat
  BY <1>1, <1>2, FS_Subset, FS_CardinalityType
<1> QED
  BY <1>3 DEF Matched, seen

(* One more evaluation is counted where it matches. *)
LEMMA MatchedNext ==
  ASSUME NEW S, NEW list \in Seq(S), NEW from \in 0 .. Len(list), NEW match, NEW x \in S
  PROVE  Matched(Append(list, x), from, match) = Matched(list, from, match) + IF x \in match THEN 1 ELSE 0
<1> DEFINE n == Len(list)
           before == {i \in from + 1 .. n : list[i] \in match}
           after == {i \in from + 1 .. n + 1 : Append(list, x)[i] \in match}
<1>1. n \in Nat /\ from \in Nat /\ Len(Append(list, x)) = n + 1 /\ from <= n
  OBVIOUS
<1>2. \A i \in from + 1 .. n : Append(list, x)[i] = list[i]
  BY <1>1
<1>3. Append(list, x)[n + 1] = x
  OBVIOUS
<1>4. IsFiniteSet(before) /\ n + 1 \notin before
  <2>1. IsFiniteSet(from + 1 .. n)
    BY <1>1, FS_Interval
  <2> QED
    BY <1>1, <2>1, FS_Subset
<1>5. after = IF x \in match THEN before \cup {n + 1} ELSE before
  <2> SUFFICES ASSUME NEW i PROVE i \in after <=> i \in IF x \in match THEN before \cup {n + 1} ELSE before
    OBVIOUS
  <2>1. CASE i \in from + 1 .. n
    BY <1>1, <1>2, <2>1
  <2>2. CASE i = n + 1
    BY <1>1, <1>3, <2>2
  <2>3. CASE i \notin from + 1 .. n + 1
    BY <1>1, <2>3
  <2>4. i \in from + 1 .. n + 1 => i \in from + 1 .. n \/ i = n + 1
    BY <1>1
  <2> QED
    BY <2>1, <2>2, <2>3, <2>4
<1> HIDE DEF before, after
<1>6. Cardinality(before \cup {n + 1}) = Cardinality(before) + 1
  BY <1>4, FS_AddElement
<1>7. Cardinality(before) \in Nat
  BY <1>4, FS_CardinalityType
<1>8. Cardinality(after) = Cardinality(before) + IF x \in match THEN 1 ELSE 0
  BY <1>5, <1>6, <1>7
<1> QED
  BY <1>1, <1>8 DEF Matched, before, after

LEMMA MatchedNone ==
  ASSUME NEW S, NEW list \in Seq(S), NEW match
  PROVE  Matched(list, Len(list), match) = 0
<1>1. {i \in Len(list) + 1 .. Len(list) : list[i] \in match} = {}
  OBVIOUS
<1> QED
  BY <1>1, FS_EmptySet DEF Matched

(* A rule that shares its id with no other is counted once at most. *)
LEMMA CountedOnce ==
  ASSUME rules \in Seq(Rules), OneRuleAnId(rules), NEW subject,
         NEW i \in 1 .. Len(rules), NEW n \in 1 .. Len(rules), i <= n
  PROVE  Counted(subject, RuleOf[rules[i]].id, n) =
           IF subject \in RuleOf[rules[i]].match THEN 1 ELSE 0
<1> DEFINE counted == {k \in 1 .. n : Id(k) = RuleOf[rules[i]].id /\ Matches(k, subject)}
<1>1. Counted(subject, RuleOf[rules[i]].id, n) = Cardinality(counted)
  BY DEF Counted
<1>2. counted = IF subject \in RuleOf[rules[i]].match THEN {i} ELSE {}
  BY DEF OneRuleAnId, Id, Matches
<1> HIDE DEF counted
<1>3. Cardinality({i}) = 1 /\ Cardinality({}) = 0
  BY FS_EmptySet, FS_Singleton
<1> QED
  BY <1>1, <1>2, <1>3

(* Any set of places can be listed in ascending order. *)
Ascending(S) ==
  \E p \in [1 .. Cardinality(S) -> S] : \A m, n \in DOMAIN p : m < n => p[m] < p[n]

LEMMA PlacesAscend ==
  ASSUME NEW N \in Nat, NEW S \in SUBSET (1 .. N)
  PROVE  Ascending(S)
<1> DEFINE Good == {n \in Nat : \A T \in SUBSET (1 .. n) : Ascending(T)}
<1>1. 0 \in Good
  <2> SUFFICES ASSUME NEW T \in SUBSET (1 .. 0) PROVE Ascending(T)
    OBVIOUS
  <2>1. T = {} /\ Cardinality(T) = 0
    <3>1. T = {}
      OBVIOUS
    <3> QED
      BY <3>1, FS_EmptySet
  <2> DEFINE p == [m \in 1 .. 0 |-> 0]
  <2>2. p \in [1 .. Cardinality(T) -> T] /\ \A m, n \in DOMAIN p : m < n => p[m] < p[n]
    BY <2>1
  <2> QED
    BY <2>2 DEF Ascending
<1>2. ASSUME NEW n \in Good PROVE n + 1 \in Good
  <2>1. n \in Nat /\ \A T \in SUBSET (1 .. n) : Ascending(T)
    OBVIOUS
  <2> SUFFICES ASSUME NEW T \in SUBSET (1 .. n + 1) PROVE Ascending(T)
    BY <2>1
  <2> DEFINE R == T \ {n + 1}
             k == Cardinality(R)
  <2>2. R \in SUBSET (1 .. n) /\ IsFiniteSet(R) /\ k \in Nat
    <3>1. R \in SUBSET (1 .. n) /\ IsFiniteSet(1 .. n)
      BY <2>1, FS_Interval
    <3> QED
      BY <3>1, FS_Subset, FS_CardinalityType
  <2> HIDE DEF k
  <2>3. PICK p \in [1 .. k -> R] : \A m, l \in DOMAIN p : m < l => p[m] < p[l]
    BY <2>1, <2>2 DEF Ascending, k
  <2>4. CASE n + 1 \notin T
    <3>1. R = T
      BY <2>4
    <3> QED
      BY <2>1, <2>2, <3>1
  <2>5. CASE n + 1 \in T
    <3>1. T = R \cup {n + 1} /\ n + 1 \notin R
      BY <2>5
    <3>2. Cardinality(T) = k + 1
      BY <2>2, <3>1, FS_AddElement DEF k
    <3> DEFINE q == [m \in 1 .. k + 1 |-> IF m = k + 1 THEN n + 1 ELSE p[m]]
    <3>3. \A m \in 1 .. k : m \in DOMAIN p /\ p[m] \in R
      OBVIOUS
    <3>4. \A m \in 1 .. k : m # k + 1 /\ p[m] \in 1 .. n
      <4>1. \A m \in 1 .. k : m # k + 1
        BY <2>2
      <4>2. \A x \in R : x \in 1 .. n
        BY <2>2
      <4> QED
        BY <3>3, <4>1, <4>2
    <3>5. q \in [1 .. k + 1 -> T] /\ DOMAIN q = 1 .. k + 1
      BY <2>2, <3>1, <3>3
    <3>6. ASSUME NEW m \in 1 .. k + 1, NEW l \in 1 .. k + 1, m < l PROVE q[m] < q[l]
      <4>1. m \in 1 .. k /\ q[m] = p[m] /\ p[m] <= n
        BY <2>2, <3>4, <3>6
      <4>2. CASE l = k + 1
        BY <2>1, <3>4, <4>1, <4>2
      <4>3. CASE l # k + 1
        BY <2>2, <2>3, <3>3, <3>6, <4>1, <4>3
      <4> QED
        BY <4>2, <4>3
    <3> HIDE DEF q
    <3> QED
      BY <3>2, <3>5, <3>6 DEF Ascending
  <2> QED
    BY <2>4, <2>5
<1>3. Good = Nat
  BY <1>1, <1>2, InductiveIsNat
<1> QED
  BY <1>3

(* What is left without an id: rules there were, no other, none twice. *)
LEMMA WithoutIs ==
  ASSUME rules \in Seq(Rules), NEW id
  PROVE  LET rest == Without(id) IN
         /\ rest \in Seq(Rules)
         /\ \A n \in 1 .. Len(rest) : /\ RuleOf[rest[n]].id # id
                                      /\ \E i \in 1 .. Len(rules) : rest[n] = rules[i]
         /\ OneRuleAnId(rules) => OneRuleAnId(rest)
<1> DEFINE kept == {i \in 1 .. Len(rules) : Id(i) # id}
           Good(p) == p \in [1 .. Cardinality(kept) -> kept] /\ \A m, n \in DOMAIN p : m < n => p[m] < p[n]
           first(k) == CHOOSE p \in [1 .. k -> kept] :
                         \A m, n \in DOMAIN p : m < n => p[m] < p[n]
           place == first(Cardinality(kept))
           rest == Without(id)
<1>1. Len(rules) \in Nat /\ kept \in SUBSET (1 .. Len(rules)) /\ IsFiniteSet(kept)
  BY FS_Interval, FS_Subset
<1>2. Cardinality(kept) \in Nat
  BY <1>1, FS_CardinalityType
<1>3. Ascending(kept)
  BY <1>1, PlacesAscend
<1>4. Good(place)
  BY <1>3 DEF Ascending
<1>5. rest = [n \in DOMAIN place |-> rules[place[n]]]
  BY DEF Without
<1>6. \A i \in kept : /\ i \in 1 .. Len(rules) /\ rules[i] \in Rules
                      /\ RuleOf[rules[i]].id # id
  BY <1>1 DEF Id
<1> DEFINE k == Cardinality(kept)
<1> HIDE DEF first, place, kept, rest, k
<1>7. /\ k \in Nat /\ DOMAIN place = 1 .. k
      /\ \A n \in 1 .. k : place[n] \in kept /\ place[n] \in Nat
      /\ \A m, n \in 1 .. k : m < n => place[m] < place[n]
  <2>1. place \in [1 .. k -> kept] /\ \A m, n \in DOMAIN place : m < n => place[m] < place[n]
    BY <1>4 DEF k
  <2>2. k \in Nat /\ \A i \in kept : i \in Nat
    BY <1>1, <1>2 DEF k
  <2>3. DOMAIN place = 1 .. k /\ \A n \in 1 .. k : place[n] \in kept
    BY <2>1
  <2> QED
    BY <2>1, <2>2, <2>3
<1>8. \A m, n \in 1 .. k : place[m] = place[n] => m = n
  BY <1>7
<1>9. DOMAIN rest = 1 .. k /\ \A n \in 1 .. k : rest[n] = rules[place[n]] /\ rest[n] \in Rules
  BY <1>5, <1>6, <1>7
<1>10. rest \in Seq(Rules) /\ Len(rest) = k
  <2>1. rest = [n \in 1 .. k |-> rest[n]]
    BY <1>5, <1>7
  <2>2. rest \in [1 .. k -> Rules]
    BY <1>9, <2>1
  <2> QED
    BY <1>7, <2>2
<1>11. \A n \in 1 .. k : RuleOf[rest[n]].id # id /\ \E i \in 1 .. Len(rules) : rest[n] = rules[i]
  BY <1>6, <1>7, <1>9
<1>12. OneRuleAnId(rules) => OneRuleAnId(rest)
  BY <1>6, <1>7, <1>8, <1>9, <1>10 DEF OneRuleAnId
<1> QED
  BY <1>10, <1>11, <1>12 DEF rest

(* Rules that start again, beside rules that go on. *)
LEMMA RestartArms ==
  ASSUME Armed, rules' \in Seq(Rules), OneRuleAnId(rules'), trace' = trace,
         NEW ids \in SUBSET RuleIds, Restart(ids),
         \A i \in 1 .. Len(rules') :
           RuleOf[rules'[i]].id \in ids \/ \E k \in 1 .. Len(rules) : rules'[i] = rules[k]
  PROVE  /\ OwnCounts'
         /\ state' \in [RuleIds -> [matches : Nat, fires : Nat]]
         /\ since' \in [RuleIds -> 0 .. Len(trace)]
<1>1. /\ state \in [RuleIds -> [matches : Nat, fires : Nat]]
      /\ trace \in Seq(Routes) /\ since \in [RuleIds -> 0 .. Len(trace)]
  BY DEF Armed, TypeOK
<1>2. /\ state' = [id \in RuleIds |-> IF id \in ids THEN Zero ELSE state[id]]
      /\ since' = [id \in RuleIds |-> IF id \in ids THEN Len(trace) ELSE since[id]]
  BY DEF Restart
<1>3. Zero \in [matches : Nat, fires : Nat] /\ Zero.matches = 0 /\ Zero.fires = 0
  BY DEF Zero
<1>4. Len(trace) \in 0 .. Len(trace)
  BY <1>1
<1>5. state' \in [RuleIds -> [matches : Nat, fires : Nat]] /\ since' \in [RuleIds -> 0 .. Len(trace)]
  BY <1>1, <1>2, <1>3, <1>4
<1>6. ASSUME NEW i \in 1 .. Len(rules')
      PROVE  LET rule == RuleOf[rules'[i]] counts == state'[rule.id] IN
             /\ counts.matches = Matched(trace', since'[rule.id], rule.match)
             /\ counts.fires <= counts.matches
             /\ rule.times # Unlimited => counts.fires <= rule.times
  <2> DEFINE rule == RuleOf[rules'[i]]
  <2>1. rules'[i] \in Rules
    OBVIOUS
  <2>2. rule.id \in RuleIds /\ (rule.times # Unlimited => rule.times \in Nat)
    BY <2>1, RulesAre
  <2>3. CASE rule.id \in ids
    <3>1. state'[rule.id] = Zero /\ since'[rule.id] = Len(trace)
      BY <1>2, <2>2, <2>3
    <3>2. Matched(trace, Len(trace), rule.match) = 0
      BY <1>1, MatchedNone
    <3> QED
      BY <1>3, <2>2, <3>1, <3>2
  <2>4. CASE rule.id \notin ids
    <3>1. PICK k \in 1 .. Len(rules) : rules'[i] = rules[k]
      BY <2>4
    <3>2. state'[rule.id] = state[rule.id] /\ since'[rule.id] = since[rule.id]
      BY <1>2, <2>2, <2>4
    <3> QED
      BY <3>1, <3>2 DEF Armed, OwnCounts
  <2> QED
    BY <2>3, <2>4
<1> QED
  BY <1>5, <1>6 DEF OwnCounts

(* Whoever changes the rule set leaves each counter to its rule. *)
LEMMA RulesArm ==
  ASSUME DistinctLists, Armed, Rules_Next
  PROVE  Armed' /\ trace' = trace
<1>1. /\ rules \in Seq(Rules) /\ enabled \in BOOLEAN /\ history \in Seq(Firings)
      /\ trace \in Seq(Routes) /\ OneRuleAnId(rules) /\ OwnCounts
  BY DEF Armed, TypeOK, Firings
<1>2. ASSUME rules' \in Seq(Rules), OneRuleAnId(rules'), trace' = trace,
             enabled' \in BOOLEAN, history' \in Seq(Firings),
             NEW ids \in SUBSET RuleIds, Restart(ids),
             \A i \in 1 .. Len(rules') :
               RuleOf[rules'[i]].id \in ids \/ \E k \in 1 .. Len(rules) : rules'[i] = rules[k]
      PROVE  Armed' /\ trace' = trace
  <2>1. /\ OwnCounts' /\ state' \in [RuleIds -> [matches : Nat, fires : Nat]]
        /\ since' \in [RuleIds -> 0 .. Len(trace)]
    BY <1>2, RestartArms
  <2>2. TypeOK'
    BY <1>1, <1>2, <2>1 DEF TypeOK, Firings
  <2> QED
    BY <1>2, <2>1, <2>2 DEF Armed
<1>3. ASSUME rules' \in Seq(Rules), OneRuleAnId(rules'), trace' = trace,
             enabled' \in BOOLEAN, history' \in Seq(Firings), Restart(RuleIds)
      PROVE  Armed' /\ trace' = trace
  <2>1. \A i \in 1 .. Len(rules') : RuleOf[rules'[i]].id \in RuleIds
    BY <1>3, RulesAre
  <2> QED
    BY <1>2, <1>3, <2>1
<1>4. ASSUME NEW list \in RuleLists, Replace(list) PROVE Armed' /\ trace' = trace
  <2>1. list \in Seq(Rules) /\ OneRuleAnId(list)
    BY EngineAssumption DEF DistinctLists
  <2> QED
    BY <1>1, <1>3, <1>4, <2>1 DEF Replace
<1>5. ASSUME NEW r \in Rules, AddRule(r) PROVE Armed' /\ trace' = trace
  <2> DEFINE id == RuleOf[r].id
             rest == Without(id)
  <2>1. /\ rest \in Seq(Rules) /\ OneRuleAnId(rest)
        /\ \A n \in 1 .. Len(rest) : /\ RuleOf[rest[n]].id # id
                                     /\ \E k \in 1 .. Len(rules) : rest[n] = rules[k]
    BY <1>1, WithoutIs
  <2>2. /\ rules' = Append(rest, r) /\ Restart({id}) /\ trace' = trace
        /\ enabled' = enabled /\ history' = history
    BY <1>5 DEF AddRule
  <2> HIDE DEF rest
  <2>3. /\ rules' \in Seq(Rules) /\ Len(rules') = Len(rest) + 1 /\ Len(rest) \in Nat
        /\ rules'[Len(rest) + 1] = r
        /\ \A n \in 1 .. Len(rest) : rules'[n] = rest[n]
    BY <2>1, <2>2
  <2>4. \A n \in 1 .. Len(rules') : n = Len(rest) + 1 \/ n \in 1 .. Len(rest)
    BY <2>3
  <2>5. OneRuleAnId(rules')
    BY <2>1, <2>3, <2>4 DEF OneRuleAnId
  <2>6. \A n \in 1 .. Len(rules') :
          RuleOf[rules'[n]].id \in {id} \/ \E k \in 1 .. Len(rules) : rules'[n] = rules[k]
    BY <2>1, <2>3, <2>4
  <2>7. {id} \in SUBSET RuleIds
    BY RulesAre
  <2> QED
    BY <1>1, <1>2, <2>2, <2>3, <2>5, <2>6, <2>7
<1>6. ASSUME NEW id \in RuleIds, RemoveRule(id) PROVE Armed' /\ trace' = trace
  <2>1. /\ rules' \in Seq(Rules) /\ OneRuleAnId(rules')
        /\ \A n \in 1 .. Len(rules') : \E k \in 1 .. Len(rules) : rules'[n] = rules[k]
    BY <1>1, <1>6, WithoutIs DEF RemoveRule
  <2> QED
    BY <1>1, <1>2, <1>6, <2>1 DEF RemoveRule
<1>7. CASE ResetCounters
  BY <1>1, <1>3, <1>7 DEF ResetCounters
<1>8. CASE Reset
  <2>1. <<>> \in Seq(Rules) /\ OneRuleAnId(<<>>) /\ <<>> \in Seq(Firings)
    BY DEF OneRuleAnId
  <2> QED
    BY <1>1, <1>3, <1>8, <2>1 DEF Reset
<1>9. ASSUME NEW on \in BOOLEAN, SetEnabled(on) PROVE Armed' /\ trace' = trace
  BY <1>9 DEF SetEnabled, Armed, TypeOK, OwnCounts
<1> QED
  BY <1>4, <1>5, <1>6, <1>7, <1>8, <1>9 DEF Rules_Next

(* What an evaluation leaves in the counters of a rule that shares its id  *)
(* with no other, and what it takes to be the one that fires.              *)
LEMMA EvaluationCounts ==
  ASSUME Armed, NEW subject \in Routes, NEW draws, enabled,
         EvaluateWith(subject, Chosen(subject, draws)), NEW i \in 1 .. Len(rules)
  PROVE  LET rule == RuleOf[rules[i]]
             now == Matched(trace', since'[rule.id], rule.match)
             chosen == Chosen(subject, draws) IN
         /\ now = Matched(trace, since[rule.id], rule.match) + IF subject \in rule.match THEN 1 ELSE 0
         /\ state'[rule.id].matches = now
         /\ state'[rule.id].fires = state[rule.id].fires + IF i \in chosen THEN 1 ELSE 0
         /\ i \in chosen =>
              /\ subject \in rule.match /\ Occurrence(subject, i) = now
              /\ rule.times # Unlimited => state[rule.id].fires < rule.times
              /\ rule.nth = {} \/ now \in rule.nth
              /\ now > rule.after /\ now % rule.every = 0
<1> DEFINE rule == RuleOf[rules[i]]
           now == Matched(trace', since'[rule.id], rule.match)
           chosen == Chosen(subject, draws)
<1>1. /\ state \in [RuleIds -> [matches : Nat, fires : Nat]] /\ rules \in Seq(Rules)
      /\ trace \in Seq(Routes) /\ since \in [RuleIds -> 0 .. Len(trace)]
      /\ OneRuleAnId(rules) /\ OwnCounts
  BY DEF Armed, TypeOK
<1>2. /\ rule.id \in RuleIds /\ i \in Nat /\ Len(rules) \in Nat /\ i <= Len(rules)
      /\ Id(i) = rule.id
  <2>1. rules[i] \in Rules
    BY <1>1
  <2> QED
    BY <1>1, <2>1, RulesAre DEF Id
<1>3. /\ since' = since /\ trace' = Append(trace, subject)
      /\ state' = [id \in RuleIds |->
                    [matches |-> state[id].matches + Counted(subject, id, Len(rules)),
                     fires   |-> state[id].fires + Fired(chosen, id)]]
  BY DEF EvaluateWith, CountMatches
<1>4. now = Matched(trace, since[rule.id], rule.match) + IF subject \in rule.match THEN 1 ELSE 0
  <2>1. since[rule.id] \in 0 .. Len(trace)
    BY <1>1, <1>2
  <2> QED
    BY <1>1, <1>3, <2>1, MatchedNext
<1>5. state[rule.id].matches = Matched(trace, since[rule.id], rule.match)
  BY <1>1 DEF OwnCounts
<1>6. \A n \in 1 .. Len(rules) :
        i <= n => Counted(subject, rule.id, n) = IF subject \in rule.match THEN 1 ELSE 0
  BY <1>1, CountedOnce
<1>7. /\ state'[rule.id].matches = state[rule.id].matches + Counted(subject, rule.id, Len(rules))
      /\ state'[rule.id].fires = state[rule.id].fires + Fired(chosen, rule.id)
  BY <1>2, <1>3
<1>8. Len(rules) \in 1 .. Len(rules)
  BY <1>2
<1>9. state'[rule.id].matches = now
  BY <1>2, <1>4, <1>5, <1>6, <1>7, <1>8
<1>10. Fired(chosen, rule.id) = IF i \in chosen THEN 1 ELSE 0
  <2>1. \A k \in chosen : k \in 1 .. Len(rules) /\ Id(k) = RuleOf[rules[k]].id
    BY DEF Chosen, Id
  <2>2. \A k \in chosen : Id(k) = rule.id => k = i
    BY <1>1, <1>2, <2>1 DEF OneRuleAnId
  <2> QED
    BY <1>2, <2>2 DEF Fired
<1>11. ASSUME i \in chosen
       PROVE  /\ subject \in rule.match /\ Occurrence(subject, i) = now
              /\ rule.times # Unlimited => state[rule.id].fires < rule.times
              /\ rule.nth = {} \/ now \in rule.nth
              /\ now > rule.after /\ now % rule.every = 0
  <2>1. Matches(i, subject) /\ ShouldFire(subject, i, draws)
    BY <1>11 DEF Chosen
  <2>2. subject \in rule.match
    BY <2>1 DEF Matches
  <2>3. Occurrence(subject, i) = now
    BY <1>2, <1>4, <1>5, <1>6, <2>2 DEF Occurrence
  <2> HIDE DEF now
  <2>4. rule.times # Unlimited => state[rule.id].fires < rule.times
    BY <1>2, <2>1 DEF ShouldFire
  <2>5. /\ rule.nth = {} \/ now \in rule.nth
        /\ now > rule.after /\ now % rule.every = 0
    BY <2>1, <2>3 DEF ShouldFire, WhenIgnoringTimes
  <2> QED
    BY <2>2, <2>3, <2>4, <2>5
<1> QED
  BY <1>4, <1>7, <1>9, <1>10, <1>11

LEMMA EvaluationArms ==
  ASSUME Armed, NEW subject \in Routes, Evaluate(subject)
  PROVE  Armed'
<1>1. PICK draws : EvaluateWith(subject, Chosen(subject, draws))
  BY DEF Evaluate
<1>2. TypeOK' /\ rules' = rules
  BY EvaluateIs DEF Armed
<1>3. CASE ~enabled
  BY <1>1, <1>2, <1>3 DEF EvaluateWith, Armed, OwnCounts
<1>4. CASE enabled
  <2>1. ASSUME NEW i \in 1 .. Len(rules)
        PROVE  LET rule == RuleOf[rules[i]] counts == state'[rule.id] IN
               /\ counts.matches = Matched(trace', since'[rule.id], rule.match)
               /\ counts.fires <= counts.matches
               /\ rule.times # Unlimited => counts.fires <= rule.times
    <3> DEFINE rule == RuleOf[rules[i]]
               was == Matched(trace, since[rule.id], rule.match)
               now == Matched(trace', since'[rule.id], rule.match)
               chosen == Chosen(subject, draws)
    <3>1. /\ now = was + IF subject \in rule.match THEN 1 ELSE 0
          /\ state'[rule.id].matches = now
          /\ state'[rule.id].fires = state[rule.id].fires + IF i \in chosen THEN 1 ELSE 0
          /\ i \in chosen => /\ subject \in rule.match
                             /\ rule.times # Unlimited => state[rule.id].fires < rule.times
      BY <1>1, <1>4, EvaluationCounts
    <3>2. /\ state[rule.id].matches = was /\ state[rule.id].fires <= was
          /\ rule.times # Unlimited => state[rule.id].fires <= rule.times
      BY DEF Armed, OwnCounts
    <3>3. /\ state[rule.id].fires \in Nat /\ state[rule.id].matches \in Nat
          /\ rule.times # Unlimited => rule.times \in Nat
      <4>1. rules[i] \in Rules /\ state \in [RuleIds -> [matches : Nat, fires : Nat]]
        BY DEF Armed, TypeOK
      <4> QED
        BY <4>1, RulesAre
    <3> HIDE DEF was, now, chosen
    <3>4. state'[rule.id].fires <= now
      BY <3>1, <3>2, <3>3
    <3>5. rule.times # Unlimited => state'[rule.id].fires <= rule.times
      BY <3>1, <3>2, <3>3
    <3> QED
      BY <3>1, <3>4, <3>5 DEF now
  <2> QED
    BY <1>2, <2>1 DEF Armed, OwnCounts
<1> QED
  BY <1>2, <1>3, <1>4 DEF Armed, TypeOK

LEMMA OverlayArms ==
  ASSUME Armed, NEW subject \in Routes, RecordOverlay(subject)
  PROVE  Armed' /\ trace' = trace
<1>1. TypeOK' /\ rules' = rules /\ state' = state
  BY OverlayIs DEF Armed
<1>2. trace' = trace /\ since' = since
  BY DEF RecordOverlay
<1> QED
  BY <1>1, <1>2 DEF Armed, OwnCounts

LEMMA EngineArms ==
  ASSUME DistinctLists
  PROVE  /\ Init => Armed
         /\ Armed /\ [Next]_vars => Armed'
<1>1. ASSUME Init PROVE Armed
  <2>1. /\ rules \in RuleLists /\ state = [id \in RuleIds |-> Zero] /\ enabled = TRUE
        /\ history = <<>> /\ trace = <<>> /\ since = [id \in RuleIds |-> 0]
    BY <1>1 DEF Init
  <2>2. rules \in Seq(Rules) /\ OneRuleAnId(rules)
    BY <2>1, EngineAssumption DEF DistinctLists
  <2>3. Zero \in [matches : Nat, fires : Nat] /\ Zero.matches = 0 /\ Zero.fires = 0
    BY DEF Zero
  <2>4. TypeOK
    BY <2>1, <2>2, <2>3 DEF TypeOK
  <2>5. ASSUME NEW i \in 1 .. Len(rules)
        PROVE  LET rule == RuleOf[rules[i]] counts == state[rule.id] IN
               /\ counts.matches = Matched(trace, since[rule.id], rule.match)
               /\ counts.fires <= counts.matches
               /\ rule.times # Unlimited => counts.fires <= rule.times
    <3> DEFINE rule == RuleOf[rules[i]]
    <3>1. rule.id \in RuleIds /\ (rule.times # Unlimited => rule.times \in Nat)
      <4>1. rules[i] \in Rules
        BY <2>2
      <4> QED
        BY <4>1, RulesAre
    <3>2. state[rule.id] = Zero /\ since[rule.id] = 0
      BY <2>1, <3>1
    <3>3. trace \in Seq(Routes) /\ Len(trace) = 0
      BY <2>1
    <3>4. Matched(trace, 0, rule.match) = 0
      BY <3>3, MatchedNone
    <3> QED
      BY <2>3, <3>1, <3>2, <3>4
  <2> QED
    BY <2>2, <2>4, <2>5 DEF Armed, OwnCounts
<1>2. ASSUME Armed, UNCHANGED vars PROVE Armed'
  BY <1>2 DEF vars, Armed, TypeOK, OwnCounts
<1>3. ASSUME Armed, Next PROVE Armed'
  BY <1>3, RulesArm, EvaluationArms, OverlayArms DEF Next, Evaluation_Next
<1> QED
  BY <1>1, <1>2, <1>3

(* Whatever rules stand above it, fire, come or go, and whatever was       *)
(* triggered in-band: a rule counts its own matches, since it was armed,   *)
(* and spends no more of them than its `times` (engine.py:354).            *)
THEOREM CountersAreOwn == ASSUME DistinctLists PROVE Spec => []MatchesAreOwn
<1>1. Init => Armed
  BY EngineArms
<1>2. Armed /\ [Next]_vars => Armed'
  BY EngineArms
<1>3. Armed => MatchesAreOwn
  BY OwnIsOwn DEF Armed
<1> QED
  BY <1>1, <1>2, <1>3, PTL DEF Spec

(* What an evaluation recorded: the rule that fired and its own match.     *)
LEMMA FiresAsPromised ==
  ASSUME Armed, Evaluation_Next \/ Rules_Next, DistinctLists,
         history' # history, Len(trace') > Len(trace),
         NEW r \in Rules, Last(history').rule = r
  PROVE  LET when == RuleOf[r] n == Matched(trace', since[when.id], when.match) IN
         /\ Last(trace') \in when.match /\ Last(history').occurrence = n
         /\ when.nth = {} \/ n \in when.nth
         /\ n > when.after /\ n % when.every = 0
<1>1. /\ trace \in Seq(Routes) /\ history \in Seq(Firings) /\ rules \in Seq(Rules)
      /\ Len(trace) \in Nat
  BY DEF Armed, TypeOK, Firings
<1>2. PICK subject \in Routes : Evaluate(subject)
  BY <1>1, RulesArm, OverlayArms DEF Evaluation_Next
<1>3. PICK draws : EvaluateWith(subject, Chosen(subject, draws))
  BY <1>2 DEF Evaluate
<1> DEFINE chosen == Chosen(subject, draws)
<1>4. /\ enabled /\ since' = since /\ trace' = Append(trace, subject)
      /\ Remember(subject, chosen)
  BY <1>1, <1>3 DEF EvaluateWith
<1>5. PICK i \in chosen :
        history' = Append(history, [id |-> Id(i), rule |-> rules[i],
                                    subject |-> subject,
                                    occurrence |-> Occurrence(subject, i)])
  BY <1>4 DEF Remember
<1>6. i \in 1 .. Len(rules)
  BY <1>1, ChosenIsOne
<1> DEFINE fired == [id |-> Id(i), rule |-> rules[i], subject |-> subject,
                     occurrence |-> Occurrence(subject, i)]
<1>7. fired.rule = rules[i] /\ fired.occurrence = Occurrence(subject, i)
  OBVIOUS
<1> HIDE DEF fired
<1>8. history' = Append(history, fired)
  BY <1>5 DEF fired
<1>9. Last(history') = fired
  BY <1>1, <1>8 DEF Last
<1>10. Last(trace') = subject
  BY <1>1, <1>4 DEF Last
<1>11. rules[i] = r
  BY <1>7, <1>9
<1>12. LET n == Matched(trace', since'[RuleOf[r].id], RuleOf[r].match) IN
       /\ subject \in RuleOf[r].match /\ Occurrence(subject, i) = n
       /\ RuleOf[r].nth = {} \/ n \in RuleOf[r].nth
       /\ n > RuleOf[r].after /\ n % RuleOf[r].every = 0
  BY <1>3, <1>4, <1>6, <1>11, EvaluationCounts
<1> QED
  BY <1>4, <1>7, <1>9, <1>10, <1>12

(* The rule that fires does so on the match its `when` names, and says     *)
(* which one that was (engine.py:410).                                     *)
THEOREM RulesFireAsPromised == ASSUME DistinctLists PROVE Spec => FiredAsPromised
<1>1. Init => Armed
  BY EngineArms
<1>2. Armed /\ [Next]_vars => Armed'
  BY EngineArms
<1>3. Armed /\ [Next]_vars =>
        [\A r \in Rules :
           history' # history /\ Len(trace') > Len(trace) /\ Last(history').rule = r =>
             LET when == RuleOf[r]
                 n == Cardinality({i \in since[when.id] + 1 .. Len(trace') :
                                            trace'[i] \in when.match}) IN
             /\ Last(trace') \in when.match /\ Last(history').occurrence = n
             /\ when.nth = {} \/ n \in when.nth
             /\ n > when.after /\ n % when.every = 0]_vars
  <2> SUFFICES ASSUME Armed, Next, NEW r \in Rules, history' # history,
                      Len(trace') > Len(trace), Last(history').rule = r
               PROVE  LET when == RuleOf[r] n == Matched(trace', since[when.id], when.match) IN
                      /\ Last(trace') \in when.match /\ Last(history').occurrence = n
                      /\ when.nth = {} \/ n \in when.nth
                      /\ n > when.after /\ n % when.every = 0
    BY Zenon DEF Matched
  <2> QED
    BY FiresAsPromised DEF Next
<1> QED
  BY <1>1, <1>2, <1>3, PTL DEF Spec, FiredAsPromised

(* Whatever requests do, their fault selection follows the engine: step 3  *)
(* asks it once or records a trigger, and no other step touches it.        *)
THEOREM SelectionFollowsEngine == PipelineSpec => Spec
<1>1. PipelineInit => Init
  BY DEF PipelineInit
<1>2. KnownCalls /\ [PipelineNext]_pipelineVars => [Next]_vars
  <2> SUFFICES ASSUME KnownCalls, [PipelineNext]_pipelineVars PROVE Next \/ UNCHANGED vars
    OBVIOUS
  <2>1. CASE UNCHANGED vars
    BY <2>1
  <2>2. ASSUME NEW c \in Clients, Request_Next(c) PROVE Next \/ UNCHANGED vars
    <3>1. CASE SelectInBand(c) \/ SelectRule(c)
      <4>1. Me(c).pc = "selecting"
        BY <3>1 DEF SelectInBand, SelectRule
      <4>2. Call(c).route \in Routes
        BY <4>1, FaultsAreKnown DEF KnownCalls
      <4> QED
        BY <3>1, <4>2 DEF SelectInBand, SelectRule, Next, Evaluation_Next
    <3>2. CASE Enter(c) \/ Screen(c) \/ Replay(c) \/ Miss(c) \/ ReadSeq(c)
      BY <3>2 DEF Enter, Screen, Replay, Miss, ReadSeq
    <3>3. CASE Store(c) \/ PayOut(c) \/ ShapeError(c) \/ Finish(c)
      BY <3>3 DEF Store, StoreAnswer, PayOut, ShapeError, Finish
    <3>4. CASE \E ending \in UNION {Endings[r] : r \in Routes} : Handle(c, ending)
      BY <3>4 DEF Handle
    <3> QED
      BY <2>2, <3>1, <3>2, <3>3, <3>4 DEF Request_Next
  <2>3. ASSUME NEW c \in Clients, NEW call \in Calls, Arrive(c, call) PROVE UNCHANGED vars
    BY <2>3 DEF Arrive
  <2>4. CASE StateReset
    BY <2>4 DEF StateReset
  <2>5. CASE UNCHANGED pipelineVars
    BY <2>5 DEF pipelineVars
  <2> QED
    BY <2>2, <2>3, <2>4, <2>5 DEF PipelineNext
<1>3. PipelineSpec => []KnownCalls
  <2>1. IInv => KnownCalls
    BY DEF IInv
  <2> QED
    BY <2>1, InitEstablishes, StepPreserves, PTL DEF PipelineSpec
<1> QED
  BY <1>1, <1>2, <1>3, PTL DEF PipelineSpec, Spec

(* The lock is held by a request on a serialized route that is inside the  *)
(* pipeline, and so can go on: whoever left, by an answer, a raise, a      *)
(* crash or a failed payout, left it behind.                               *)
Held ==
  lock # Nobody => lock \in Clients /\ Me(lock).pc \in Locked /\ Route(lock).serialized

LEMMA HeldGoes ==
  ASSUME Held, NEW c \in Clients, Others(c), SameCall(c),
         \/ lock' = lock /\ (Me(c).pc \in Locked => request'[c].pc \in Locked)
         \/ Unlock(c)
         \/ lock' = c /\ Route(c).serialized /\ request'[c].pc \in Locked
  PROVE  Held'
<1>1. Nobody \notin Clients
  BY PipelineAssumption
<1>2. \A d \in Clients \ {c} : Me(d)' = Me(d) /\ Route(d)' = Route(d)
  BY DEF Others, Me, Route, Call
<1>3. Me(c)'.pc = request'[c].pc /\ Route(c)' = Route(c)
  BY DEF SameCall, Me, Route, Call
<1>4. lock' \in {lock, Nobody, c}
  BY DEF Unlock
<1>5. CASE lock' = Nobody
  BY <1>5 DEF Held
<1>6. CASE lock' # Nobody /\ lock' \in Clients \ {c}
  <2>1. lock' = lock
    BY <1>4, <1>6
  <2> QED
    BY <1>2, <1>6, <2>1 DEF Held, Me, Route, Call
<1>7. CASE lock' = c
  <2>1. request'[c].pc \in Locked /\ Route(c).serialized
    BY <1>1, <1>7 DEF Unlock, Held
  <2> QED
    BY <1>3, <1>7, <2>1 DEF Held, Me, Route, Call
<1>8. lock' = Nobody \/ lock' \in Clients
  BY <1>4 DEF Held
<1> QED
  BY <1>5, <1>6, <1>7, <1>8

LEMMA HeldNext == Told /\ Held /\ [PipelineNext]_pipelineVars => Held'
<1> SUFFICES ASSUME Told, Held, [PipelineNext]_pipelineVars PROVE Held'
  OBVIOUS
<1>1. ASSUME NEW c \in Clients, Request_Next(c) PROVE Held'
  <2>1. CASE Enter(c)
    <3>1. /\ Others(c) /\ SameCall(c) /\ request'[c].pc \in Locked
          /\ (lock' = lock \/ (lock' = c /\ Route(c).serialized))
      BY <2>1, EnterGoes DEF Enter, Locked
    <3> QED
      BY <3>1, HeldGoes
  <2>2. CASE SelectInBand(c) \/ SelectRule(c)
    <3>1. Others(c) /\ SameCall(c) /\ request'[c].pc \in Locked /\ lock' = lock
      BY <2>2, SelectGoes DEF SelectInBand, SelectRule, Locked
    <3> QED
      BY <3>1, HeldGoes
  <2>3. CASE Screen(c)
    <3>1. Others(c) /\ SameCall(c)
      BY <2>3, ScreenGoes
    <3>2. Unlock(c) \/ (lock' = lock /\ request'[c].pc = "looking_up")
      <4>1. CASE Refused(c) = "passed"
        <5>1. Go(c, "looking_up") /\ lock' = lock
          BY <2>3, <4>1 DEF Screen
        <5> QED
          BY <5>1, GoIs DEF Told
      <4>2. CASE Refused(c) # "passed"
        BY <2>3, <4>2 DEF Screen, Raise
      <4> QED
        BY <4>1, <4>2
    <3> QED
      BY <3>1, <3>2, HeldGoes DEF Locked
  <2>4. CASE Replay(c)
    <3>1. /\ Others(c) /\ SameCall(c)
          /\ request'[c].pc = "shaping" \/ request'[c].pc = "paying_out"
      BY <2>4, ReplayGoes
    <3>2. Unlock(c) \/ (lock' = lock /\ request'[c].pc # "shaping")
      <4>1. CASE Conflicts(c)
        BY <2>4, <4>1 DEF Replay, Raise
      <4>2. CASE ~Conflicts(c)
        <5>1. Leave(c, "paying_out", ReplayOf(c)) /\ lock' = lock
          BY <2>4, <4>2 DEF Replay
        <5>2. request'[c].pc = "paying_out"
          BY <5>1, LeaveIs DEF Told
        <5> QED
          BY <5>1, <5>2
      <4> QED
        BY <4>1, <4>2
    <3> QED
      BY <3>1, <3>2, HeldGoes DEF Locked
  <2>5. CASE Miss(c)
    <3>1. /\ Others(c) /\ SameCall(c)
          /\ request'[c].pc = "shaping" \/ request'[c].pc = "handling"
      BY <2>5, MissGoes
    <3>2. Unlock(c) \/ (lock' = lock /\ request'[c].pc = "handling")
      <4>1. CASE Route(c).scope # NoScope /\ Route(c).required /\ Call(c).key = NoKey
        BY <2>5, <4>1 DEF Miss, Raise
      <4>2. CASE ~(Route(c).scope # NoScope /\ Route(c).required /\ Call(c).key = NoKey)
        <5>1. /\ request' = [request EXCEPT ![c].pc = "handling", ![c].before = seq]
              /\ lock' = lock
          BY <2>5, <4>2 DEF Miss
        <5>2. request'[c].pc = "handling"
          BY <5>1 DEF Told, Shape, RequestFields
        <5> QED
          BY <5>1, <5>2
      <4> QED
        BY <4>1, <4>2
    <3> QED
      BY <3>1, <3>2, HeldGoes DEF Locked
  <2>6. CASE \E ending \in UNION {Endings[r] : r \in Routes} : Handle(c, ending)
    <3>1. Others(c) /\ SameCall(c) /\ request'[c].pc \in Locked /\ lock' = lock
      BY <2>6, HandleGoes DEF Handle, Locked
    <3> QED
      BY <3>1, HeldGoes
  <2>7. CASE ReadSeq(c)
    <3>1. Others(c) /\ SameCall(c) /\ Me(c).pc = "reading_seq"
      BY <2>7, ReadSeqGoes
    <3>2. Unlock(c) \/ (lock' = lock /\ request'[c].pc = "storing")
      BY <2>7 DEF ReadSeq, Told, Shape, RequestFields, Me
    <3> QED
      BY <3>1, <3>2, HeldGoes DEF Locked
  <2>8. CASE Store(c)
    <3>1. Others(c) /\ SameCall(c) /\ request'[c].pc \in Locked /\ lock' = lock
      BY <2>8, StoreGoes DEF Store, StoreAnswer, Locked
    <3> QED
      BY <3>1, HeldGoes
  <2>9. CASE PayOut(c)
    BY <2>9, PayOutGoes, HeldGoes DEF PayOut
  <2>10. CASE ShapeError(c)
    <3>1. Others(c) /\ SameCall(c) /\ Me(c).pc \notin Locked /\ lock' = lock
      BY <2>10, ShapeErrorGoes DEF ShapeError, Locked
    <3> QED
      BY <3>1, HeldGoes
  <2>11. CASE Finish(c)
    <3>1. Others(c) /\ Me(c).pc \notin Locked /\ lock' = lock
      BY <2>11, FinishGoes DEF Finish, Locked
    <3> QED
      BY <3>1 DEF Others, Held, Me, Route, Call
  <2> QED
    BY <1>1, <2>1, <2>2, <2>3, <2>4, <2>5, <2>6, <2>7, <2>8, <2>9, <2>10, <2>11 DEF Request_Next
<1>2. ASSUME NEW c \in Clients, NEW call \in Calls, Arrive(c, call) PROVE Held'
  <2>1. Others(c) /\ Me(c).pc \notin Locked /\ lock' = lock
    BY <1>2, ArriveGoes DEF Arrive, Locked
  <2> QED
    BY <2>1 DEF Others, Held, Me, Route, Call
<1>3. CASE StateReset
  BY <1>3 DEF StateReset, Held
<1>4. CASE UNCHANGED pipelineVars
  BY <1>4 DEF pipelineVars, Held, Me, Route, Call
<1> QED
  BY <1>1, <1>2, <1>3, <1>4 DEF PipelineNext

(* Nobody waits for a lock that was left behind: its holder is inside, on  *)
(* a serialized route, where no step waits for anybody (unit.py:913).      *)
THEOREM LockIsHeldInside == PipelineSpec => []Held
<1>1. PipelineInit => Told /\ Held
  BY ToldInit DEF PipelineInit, Held
<1>2. Told /\ Held /\ [PipelineNext]_pipelineVars => (Told /\ Held)'
  BY ToldNext, HeldNext
<1> QED
  BY <1>1, <1>2, PTL DEF PipelineSpec
(***************************************************************************)
(* What the answers tell a caller who retries: RequestPipeline implements  *)
(* IdempotentService.                                                      *)
(***************************************************************************)

(* An answer names the commit of its request's own run, or replays that of *)
(* another while its request ran nothing, or names none.                   *)
Own(x, runs) ==
  IF x.answer.status # "ok" THEN ~x.answer.replay /\ x.answer.commit = 0
  ELSE IF x.answer.replay THEN Slot(x.call) # <<>> /\ \A h \in runs : h.id # x.id
  ELSE \E h \in runs : h.id = x.id /\ h.ends = "ok" /\ h.commit = x.answer.commit

Owns ==
  /\ sent \in 0 .. MaxRequests
  /\ \A c \in Clients : Me(c).pc # "idle" => Own(Me(c), handled)

SameVerdict(c) ==
  /\ request'[c].answer.status = request[c].answer.status
  /\ request'[c].answer.replay = request[c].answer.replay
  /\ request'[c].answer.commit = request[c].answer.commit

(* A step of c that runs no handler. *)
LEMMA OwnsMoves ==
  ASSUME Owns, NEW c \in Clients, Others(c), UNCHANGED handled, sent' \in 0 .. MaxRequests,
         \/ request'[c].pc = "idle"
         \/ Me(c).pc # "idle" /\ SameCall(c) /\ SameVerdict(c)
         \/ Own(request'[c], handled)
  PROVE  Owns'
<1>1. ASSUME NEW d \in Clients, request'[d].pc # "idle" PROVE Own(request'[d], handled)
  <2>1. CASE d # c
    BY <1>1, <2>1 DEF Others, Owns, Me
  <2>2. CASE d = c /\ Me(c).pc # "idle" /\ SameCall(c) /\ SameVerdict(c)
    <3>1. Own(request[c], handled)
      BY <2>2 DEF Owns, Me
    <3> QED
      BY <2>2, <3>1 DEF Own, SameCall, SameVerdict
  <2> QED
    BY <1>1, <2>1, <2>2
<1> QED
  BY <1>1 DEF Owns, Me

LEMMA RaiseOwns ==
  ASSUME Told, NEW c \in Clients, NEW status, status # "ok", Raise(c, status)
  PROVE  Others(c) /\ Own(request'[c], handled)
<1>1. Others(c) /\ request'[c].answer = Answer(status, 0)
  BY LeaveIs DEF Told, Raise
<1> QED
  BY <1>1 DEF Answer, Own

LEMMA OwnsScreen ==
  ASSUME Told, Owns, NEW c \in Clients, Screen(c)
  PROVE  Owns'
<1>1. UNCHANGED <<handled, sent>> /\ Me(c).pc # "idle"
  BY DEF Screen
<1>2. CASE Refused(c) = "passed"
  <2>1. Go(c, "looking_up")
    BY <1>2 DEF Screen
  <2>2. Others(c) /\ SameCall(c) /\ SameVerdict(c)
    BY <2>1, GoIs DEF Told, SameAnswer, SameVerdict
  <2> QED
    BY <1>1, <2>2, OwnsMoves DEF Owns
<1>3. CASE Refused(c) # "passed"
  <2>1. Raise(c, Refused(c))
    BY <1>3 DEF Screen
  <2>2. Refused(c) # "ok"
    BY DEF Refused, FirstRefusal, PreAuth, PostAuth
  <2> QED
    BY <1>1, <2>1, <2>2, RaiseOwns, OwnsMoves DEF Owns
<1> QED
  BY <1>2, <1>3

(* The record looked up answers this request, which ran nothing. *)
LEMMA OwnsReplay ==
  ASSUME Told, History, Owns, NEW c \in Clients, Replay(c)
  PROVE  Owns'
<1> DEFINE slot == Slot(Call(c))
<1>1. UNCHANGED <<handled, sent>> /\ Me(c).pc = "looking_up" /\ slot \in DOMAIN idempotent
  BY DEF Replay, Stored
<1>2. CASE Conflicts(c)
  <2>1. Raise(c, "conflict")
    BY <1>2 DEF Replay
  <2> QED
    BY <1>1, <2>1, RaiseOwns, OwnsMoves DEF Owns
<1>3. CASE ~Conflicts(c)
  <2>1. Leave(c, "paying_out", ReplayOf(c))
    BY <1>3 DEF Replay
  <2>2. Others(c) /\ SameCall(c) /\ request'[c].answer = ReplayOf(c)
    BY <2>1, LeaveIs DEF Told
  <2>3. idempotent[slot].answer \in Answers /\ idempotent[slot].answer.status = "ok" /\ slot # <<>>
    BY <1>1 DEF Told, Typed, Recorded
  <2>4. request'[c].answer.status = "ok" /\ request'[c].answer.replay
    BY <2>2, <2>3 DEF ReplayOf, Answers
  <2>5. \A h \in handled : h.id # request[c].id
    BY <1>1 DEF History, Pasts, Past, Unrun, Me
  <2>6. Own(request'[c], handled)
    BY <2>2, <2>3, <2>4, <2>5 DEF Own, SameCall, Call, Me
  <2> QED
    BY <1>1, <2>2, <2>6, OwnsMoves DEF Owns
<1> QED
  BY <1>2, <1>3

LEMMA OwnsMiss ==
  ASSUME Told, Owns, NEW c \in Clients, Miss(c)
  PROVE  Owns'
<1>1. UNCHANGED <<handled, sent>> /\ Me(c).pc # "idle"
  BY DEF Miss
<1>2. CASE Route(c).scope # NoScope /\ Route(c).required /\ Call(c).key = NoKey
  <2>1. Raise(c, "missing_field")
    BY <1>2 DEF Miss
  <2> QED
    BY <1>1, <2>1, RaiseOwns, OwnsMoves DEF Owns
<1>3. CASE ~(Route(c).scope # NoScope /\ Route(c).required /\ Call(c).key = NoKey)
  <2>1. request' = [request EXCEPT ![c].pc = "handling", ![c].before = seq]
    BY <1>3 DEF Miss
  <2>2. SameCall(c) /\ SameVerdict(c)
    BY <2>1 DEF Told, Shape, RequestFields, SameCall, SameVerdict
  <2>3. Others(c)
    BY MissGoes
  <2> QED
    BY <1>1, <2>2, <2>3, OwnsMoves DEF Owns
<1> QED
  BY <1>2, <1>3

(* The run just made is the one the answer names; it is nobody else's.     *)
LEMMA OwnsHandle ==
  ASSUME Told, History, Owns, NEW c \in Clients, NEW ending, Handle(c, ending)
  PROVE  Owns'
<1> DEFINE new == RunOf(c, ending)
           answer == Answer(ending.ends, IF ending.ends = "ok" THEN new.commit ELSE 0)
<1>1. /\ Others(c) /\ SameCall(c) /\ Me(c).pc = "handling"
      /\ handled' = handled \cup {new} /\ UNCHANGED sent
  BY HandleGoes DEF Handle
<1>2. request'[c].answer = answer
  <2>1. Leave(c, "reading_seq", answer)
    BY DEF Handle, RunOf
  <2> QED
    BY <2>1, LeaveIs DEF Told
<1>3. new.id = request[c].id /\ new.ends = ending.ends
  BY DEF RunOf, Me
<1>4. Own(request'[c], handled')
  BY <1>1, <1>2, <1>3 DEF Own, Answer, SameCall
<1>5. ASSUME NEW d \in Clients, d # c, request[d].pc # "idle"
      PROVE  Own(request[d], handled')
  <2>1. Own(request[d], handled) /\ request[d].id # new.id
    BY <1>1, <1>3, <1>5 DEF Owns, History, Numbered, Me
  <2> QED
    BY <1>1, <2>1 DEF Own
<1>6. \A d \in Clients : request'[d].pc # "idle" => Own(request'[d], handled')
  BY <1>1, <1>4, <1>5 DEF Others
<1> QED
  BY <1>1, <1>6 DEF Owns, Me

(* A response fault spares what the answer says, or replaces it by a       *)
(* diagnostic that says nothing.                                           *)
LEMMA AttemptOwns ==
  ASSUME Told, NEW c \in Clients, NEW pc, Me(c).pc # "idle", Owed(c), Attempt(c, pc)
  PROVE  Others(c) /\ SameCall(c) /\ (SameVerdict(c) \/ Own(request'[c], handled))
<1>1. Others(c) /\ SameCall(c) /\ request'[c].answer = PaidOut(c)
  BY AttemptIs DEF Told
<1>2. CASE Fault(c) = "bad_params"
  <2>1. request'[c].answer = Answer("diagnostic", 0)
    BY <1>1, <1>2, PaidOutIs
  <2> QED
    BY <1>1, <2>1 DEF Answer, Own
<1>3. CASE Fault(c) # "bad_params"
  BY <1>1, <1>3, PaidOutIs DEF SameVerdict
<1> QED
  BY <1>2, <1>3

LEMMA OwnsPayOut ==
  ASSUME Told, Owns, NEW c \in Clients, PayOut(c) \/ ShapeError(c)
  PROVE  Owns'
<1>1. UNCHANGED <<handled, sent>> /\ Me(c).pc # "idle"
  BY DEF PayOut, ShapeError
<1>2. CASE \E pc : Owed(c) /\ Attempt(c, pc)
  BY <1>1, <1>2, AttemptOwns, OwnsMoves DEF Owns
<1>3. CASE Go(c, "finishing")
  <2>1. Others(c) /\ SameCall(c) /\ SameVerdict(c)
    BY <1>3, GoIs DEF Told, SameAnswer, SameVerdict
  <2> QED
    BY <1>1, <2>1, OwnsMoves DEF Owns
<1>4. CASE Leave(c, "finishing", [Me(c).answer EXCEPT !.fault = Fault(c)])
  <2>1. /\ Others(c) /\ SameCall(c)
        /\ request'[c].answer = [Me(c).answer EXCEPT !.fault = Fault(c)]
    BY <1>4, LeaveIs DEF Told
  <2>2. request[c].answer \in Answers
    BY <1>1, FieldsAre
  <2>3. SameVerdict(c)
    BY <2>1, <2>2 DEF SameVerdict, Answers, Me
  <2> QED
    BY <1>1, <2>1, <2>3, OwnsMoves DEF Owns
<1>5. CASE Leave(c, "finishing", Me(c).answer)
  <2>1. Others(c) /\ SameCall(c) /\ SameVerdict(c)
    BY <1>5, LeaveIs DEF Told, SameVerdict, Me
  <2> QED
    BY <1>1, <2>1, OwnsMoves DEF Owns
<1> QED
  BY <1>2, <1>3, <1>4, <1>5 DEF PayOut, ShapeError

LEMMA OwnsNext == Told /\ History /\ Owns /\ [PipelineNext]_pipelineVars => Owns'
<1> SUFFICES ASSUME Told, History, Owns, [PipelineNext]_pipelineVars PROVE Owns'
  OBVIOUS
<1>1. ASSUME NEW c \in Clients, Request_Next(c) PROVE Owns'
  <2>1. CASE Enter(c)
    BY <2>1, EnterGoes, OwnsMoves DEF Enter, SameAnswer, SameVerdict, Owns
  <2>2. CASE SelectInBand(c) \/ SelectRule(c)
    <3>1. /\ Others(c) /\ SameCall(c) /\ SameVerdict(c) /\ Me(c).pc # "idle"
          /\ UNCHANGED <<handled, sent>>
      BY <2>2, SelectGoes DEF SelectInBand, SelectRule, SameAnswer, SameVerdict
    <3> QED
      BY <3>1, OwnsMoves DEF Owns
  <2>3. CASE Screen(c) BY <2>3, OwnsScreen
  <2>4. CASE Replay(c) BY <2>4, OwnsReplay
  <2>5. CASE Miss(c) BY <2>5, OwnsMiss
  <2>6. CASE \E ending \in UNION {Endings[r] : r \in Routes} : Handle(c, ending)
    BY <2>6, OwnsHandle
  <2>7. CASE ReadSeq(c)
    BY <2>7, ReadSeqGoes, OwnsMoves DEF ReadSeq, SameAnswer, SameVerdict, Owns
  <2>8. CASE Store(c)
    BY <2>8, StoreGoes, OwnsMoves DEF Store, StoreAnswer, SameAnswer, SameVerdict, Owns
  <2>9. CASE PayOut(c) \/ ShapeError(c) BY <2>9, OwnsPayOut
  <2>10. CASE Finish(c)
    <3>1. Others(c) /\ request'[c] = NoRequest
      BY <2>10, FinishGoes
    <3>2. request'[c].pc = "idle" /\ UNCHANGED <<handled, sent>>
      BY <2>10, <3>1 DEF Finish, NoRequest
    <3> QED
      BY <3>1, <3>2, OwnsMoves DEF Owns
  <2> QED
    BY <1>1, <2>1, <2>2, <2>3, <2>4, <2>5, <2>6, <2>7, <2>8, <2>9, <2>10 DEF Request_Next
<1>2. ASSUME NEW c \in Clients, NEW call \in Calls, Arrive(c, call) PROVE Owns'
  <2>1. Others(c) /\ request'[c].answer = Answer("none", 0)
    BY <1>2, ArriveGoes DEF Course, Early
  <2>2. sent' \in 0 .. MaxRequests /\ UNCHANGED handled
    BY <1>2, PipelineAssumption DEF Arrive, Owns
  <2>3. Own(request'[c], handled)
    BY <2>1 DEF Own, Answer
  <2> QED
    BY <2>1, <2>2, <2>3, OwnsMoves
<1>3. CASE StateReset
  BY <1>3, PipelineAssumption DEF StateReset, Owns, Me
<1>4. CASE UNCHANGED pipelineVars
  BY <1>4 DEF pipelineVars, Owns, Me
<1> QED
  BY <1>1, <1>2, <1>3, <1>4 DEF PipelineNext

(* What a request is to the service, and its answer. *)
Tag(x) == [id |-> x.id, slot |-> Slot(x.call), scene |-> x.scene]
ReplyOf(x) == [id |-> x.id, replay |-> x.answer.replay, commit |-> x.answer.commit]

Admitted(x) == x.pc \notin {"idle", "matched"}

LEMMA AskedAre ==
  \A y : y \in Asked <=> \/ \E x \in answered : y = Tag(x)
                         \/ \E c \in Clients : Admitted(request[c]) /\ y = Tag(request[c])
BY DEF Asked, LetInside, Tag, Admitted

LEMMA AskedAreNext ==
  \A y : y \in Asked' <=> \/ \E x \in answered' : y = Tag(x)
                          \/ \E c \in Clients : Admitted(request'[c]) /\ y = Tag(request'[c])
BY DEF Asked, LetInside, Tag, Admitted

LEMMA RepliesAre == Replies = {ReplyOf(x) : x \in answered}
BY DEF Replies, ReplyOf

LEMMA TagIs ==
  ASSUME NEW x
  PROVE  Tag(x).id = x.id /\ Tag(x).slot = Slot(x.call) /\ Tag(x).scene = x.scene
BY DEF Tag

(* A step of c that lets nobody in and answers nobody. *)
LEMMA AskedStays ==
  ASSUME NEW c \in Clients, Others(c), UNCHANGED answered,
         \/ ~Admitted(request[c]) /\ ~Admitted(request'[c])
         \/ Admitted(request[c]) /\ Admitted(request'[c]) /\ SameCall(c) /\ SameScene(c)
  PROVE  UNCHANGED Asked
<1>1. Admitted(request[c]) => Tag(request'[c]) = Tag(request[c])
  BY DEF Tag, SameCall, SameScene
<1>2. ASSUME NEW y PROVE y \in Asked' <=> y \in Asked
  <2>1. ASSUME NEW d \in Clients
        PROVE  (Admitted(request'[d]) /\ y = Tag(request'[d]))
                 <=> (Admitted(request[d]) /\ y = Tag(request[d]))
    BY <1>1 DEF Others
  <2> QED
    BY <2>1, AskedAre, AskedAreNext
<1> QED
  BY <1>2

(* What the service sees of a step that is none of its. *)
Unseen == UNCHANGED <<resets, seq, Asked, handled, Replies>>

LEMMA InsideUnseen ==
  ASSUME NEW c \in Clients, Others(c), UNCHANGED <<resets, seq, handled, answered>>,
         \/ ~Admitted(request[c]) /\ ~Admitted(request'[c])
         \/ Admitted(request[c]) /\ Admitted(request'[c]) /\ SameCall(c) /\ SameScene(c)
  PROVE  Unseen
BY AskedStays DEF Unseen, Replies

LEMMA IdsAre ==
  ASSUME Told, History, Owns, NEW c \in Clients, Me(c).pc # "idle"
  PROVE  /\ request[c].id \in 1 .. MaxRequests
         /\ Slot(request[c].call) \in {Slot(call) : call \in Calls}
         /\ \A x \in answered : x.id # request[c].id
         /\ \A d \in Clients : Me(d).pc # "idle" /\ d # c => Me(d).id # request[c].id
<1>1. request[c].id \in Nat \ {0} /\ request[c].call \in Calls /\ request[c].id <= sent
  BY FieldsAre DEF History, Numbered, Me
<1>2. sent \in 0 .. MaxRequests /\ MaxRequests \in Nat
  BY PipelineAssumption DEF Owns
<1> QED
  BY <1>1, <1>2 DEF History, Numbered, Me

LEMMA NotReplied ==
  ASSUME Told, History, Owns, NEW c \in Clients, Me(c).pc # "idle"
  PROVE  ~Service!Replied(Tag(request[c]))
BY IdsAre, RepliesAre, TagIs DEF Service!Replied, ReplyOf

LEMMA EnterAsks ==
  ASSUME Told, History, Owns, NEW c \in Clients, Enter(c)
  PROVE  Service!Next
<1>1. /\ Others(c) /\ SameCall(c) /\ request'[c].pc = "selecting" /\ request'[c].scene = resets
      /\ Me(c).pc = "matched" /\ Me(c).pc # "idle"
      /\ UNCHANGED <<resets, seq, handled, answered>>
  BY EnterGoes DEF Enter
<1> DEFINE new == [id |-> request[c].id, slot |-> Slot(request[c].call), scene |-> resets]
<1>2. Tag(request'[c]) = new /\ Admitted(request'[c]) /\ ~Admitted(request[c])
  BY <1>1 DEF Tag, SameCall, Admitted, Me
<1>3. Asked' = Asked \cup {new}
  <2>1. ASSUME NEW y PROVE y \in Asked' <=> y \in Asked \/ y = new
    <3>1. ASSUME NEW d \in Clients
          PROVE  (Admitted(request'[d]) /\ y = Tag(request'[d]))
                   <=> (Admitted(request[d]) /\ y = Tag(request[d])) \/ (d = c /\ y = new)
      BY <1>1, <1>2 DEF Others
    <3> QED
      BY <1>1, <3>1, AskedAre, AskedAreNext
  <2> QED
    BY <2>1
<1>4. ASSUME NEW y \in Asked PROVE y.id # request[c].id
  <2>1. CASE \E x \in answered : y = Tag(x)
    BY <1>1, <2>1, IdsAre, TagIs
  <2>2. ASSUME NEW d \in Clients, Admitted(request[d]), y = Tag(request[d])
        PROVE  y.id # request[c].id
    <3>1. d # c /\ Me(d).pc # "idle"
      BY <1>2, <2>2 DEF Admitted, Me
    <3> QED
      BY <1>1, <2>2, <3>1, IdsAre, TagIs DEF Me
  <2> QED
    BY <1>4, <2>1, <2>2, AskedAre
<1>5. UNCHANGED Replies
  BY <1>1 DEF Replies
<1>6. Service!Ask(request[c].id, Slot(request[c].call))
  BY <1>1, <1>3, <1>4, <1>5 DEF Service!Ask
<1> QED
  BY <1>1, <1>6, IdsAre DEF Service!Next

(* The handler of a keyed request runs in the scenario that let it in, and *)
(* nobody has an answer to its key there.                                  *)
LEMMA HandleRuns ==
  ASSUME IInv, Told, History, Owns, NEW c \in Clients, NEW ending, Handle(c, ending)
  PROVE  Service!Next
<1> DEFINE x == Tag(request[c])
<1>1. /\ Others(c) /\ SameCall(c) /\ SameScene(c) /\ Me(c).pc = "handling"
      /\ request'[c].pc = "reading_seq" /\ Me(c).pc # "idle"
      /\ seq' = IF ending.commits THEN seq + 1 ELSE seq
      /\ handled' = handled \cup {RunOf(c, ending)}
      /\ UNCHANGED <<resets, answered>>
  BY HandleGoes DEF Handle
<1>2. ending.ends \in {"ok", "refused", "crash"} /\ ending.commits \in BOOLEAN
  <2>1. Call(c).route \in Routes /\ ending \in Endings[Call(c).route]
    BY <1>1, FieldsAre, FaultsAreKnown DEF Handle, Call, Me
  <2> QED
    BY <2>1, PipelineAssumption
<1>3. x \in Asked /\ x.id = request[c].id /\ x.slot = Slot(request[c].call)
      /\ x.scene = request[c].scene
  BY <1>1, AskedAre, TagIs DEF Admitted, Me
<1>4. UNCHANGED <<Asked, Replies>>
  BY <1>1, AskedStays DEF Admitted, Me, Replies
<1>5. Past(request[c], handled, resets)
  BY <1>1 DEF History, Pasts, Me
<1>6. Service!RunsOf(x) = {}
  BY <1>1, <1>3, <1>5 DEF Past, Unrun, Me, Service!RunsOf
<1>7. x.slot # <<>> => x.scene = resets /\ Service!Answered(x.slot, resets) = {}
  <2> SUFFICES ASSUME x.slot # <<>>
               PROVE  x.scene = resets /\ Service!Answered(x.slot, resets) = {}
    OBVIOUS
  <2>1. RouteOf[request[c].call.route].serialized
    BY <1>1, <1>3, FieldsAre, KeyIsSerialized
  <2>2. x.scene = resets
    BY <1>1, <1>3, <1>5, <2>1 DEF Past, Locked, Me
  <2>3. \A h \in handled : ~(h.ends = "ok" /\ h.slot = x.slot /\ h.scene = resets)
    BY <1>1, <1>3, UnansweredYet DEF Call, Me
  <2> QED
    BY <2>2, <2>3 DEF Service!Answered
<1>8. ~Service!Replied(x)
  BY <1>1, NotReplied
<1>9. handled' = handled \cup
        {[id |-> x.id, turn |-> Cardinality(handled), slot |-> x.slot, scene |-> resets,
          ends |-> ending.ends, commit |-> IF ending.commits THEN seq' ELSE 0]}
  BY <1>1, <1>3 DEF RunOf, Call, Me
<1> HIDE DEF x
<1>10. Service!Run(x, ending.ends, ending.commits)
  BY <1>1, <1>4, <1>6, <1>7, <1>8, <1>9 DEF Service!Run, Service!Cardinality, Cardinality
<1> QED
  BY <1>2, <1>3, <1>10 DEF Service!Next

LEMMA FinishReplies ==
  ASSUME Told, History, Owns, NEW c \in Clients, Finish(c)
  PROVE  Service!Next
<1> DEFINE r == request[c]
           x == Tag(r)
<1>1. /\ Others(c) /\ request'[c] = NoRequest /\ Me(c).pc = "finishing" /\ Me(c).pc # "idle"
      /\ answered' = answered \cup {r} /\ UNCHANGED <<resets, seq, handled>>
  BY FinishGoes DEF Finish
<1>2. x \in Asked /\ x.id = r.id /\ x.slot = Slot(r.call) /\ x.scene = r.scene
  BY <1>1, AskedAre, TagIs DEF Admitted, Me
<1>3. Admitted(r) /\ ~Admitted(request'[c])
  BY <1>1 DEF Admitted, NoRequest, Me
<1>4. Asked' = Asked
  <2>1. ASSUME NEW y PROVE y \in Asked' <=> y \in Asked
    <3>1. (\E z \in answered' : y = Tag(z)) <=> (\E z \in answered : y = Tag(z)) \/ y = x
      BY <1>1
    <3>2. (\E d \in Clients : Admitted(request[d]) /\ y = Tag(request[d]))
            <=> \/ \E d \in Clients : Admitted(request'[d]) /\ y = Tag(request'[d])
                \/ y = x
      BY <1>1, <1>3 DEF Others
    <3> QED
      BY <3>1, <3>2, AskedAre, AskedAreNext
  <2> QED
    BY <2>1
<1>5. Replies' = Replies \cup {[id |-> x.id, replay |-> r.answer.replay, commit |-> r.answer.commit]}
  BY <1>1, <1>2 DEF Replies
<1>6. ~Service!Replied(x)
  BY <1>1, NotReplied
<1>7. Own(r, handled) /\ ReplaysRun(r, handled) /\ r.answer.replay \in BOOLEAN
  BY <1>1, FieldsAre DEF Owns, History, Pasts, Past, Me
<1> HIDE DEF x, r
<1>8. Service!Reply(x, r.answer.replay, r.answer.commit)
  BY <1>1, <1>4, <1>5, <1>6 DEF Service!Reply
<1>9. CASE r.answer.status # "ok"
  <2>1. Service!Decline(x)
    BY <1>7, <1>8, <1>9 DEF Own, Service!Decline
  <2> QED
    BY <1>2, <2>1 DEF Service!Next
<1>10. CASE r.answer.status = "ok" /\ r.answer.replay
  <2>1. x.slot # <<>> /\ Service!RunsOf(x) = {}
    BY <1>2, <1>7, <1>10 DEF Own, Service!RunsOf
  <2>2. PICK h \in handled : Ran(h, x.slot, x.scene, r.answer.commit)
    BY <1>2, <1>7, <1>10 DEF ReplaysRun
  <2>3. h \in Service!Answered(x.slot, x.scene) /\ h.commit = r.answer.commit
    BY <2>2 DEF Ran, Service!Answered
  <2>4. Service!Replay(x)
    BY <1>7, <1>8, <1>10, <2>1, <2>3 DEF Service!Replay
  <2> QED
    BY <1>2, <2>4 DEF Service!Next
<1>11. CASE r.answer.status = "ok" /\ ~r.answer.replay
  <2>1. PICK h \in handled : h.id = x.id /\ h.ends = "ok" /\ h.commit = r.answer.commit
    BY <1>2, <1>7, <1>11 DEF Own
  <2>2. Service!Answer(x)
    BY <1>7, <1>8, <1>11, <2>1 DEF Service!Answer, Service!RunsOf
  <2> QED
    BY <1>2, <2>2 DEF Service!Next
<1> QED
  BY <1>7, <1>9, <1>10, <1>11

LEMMA ServiceStep ==
  IInv /\ Told /\ History /\ Owns /\ [PipelineNext]_pipelineVars
    => [Service!Next]_(Service!vars)
<1> SUFFICES ASSUME IInv, Told, History, Owns, [PipelineNext]_pipelineVars
             PROVE  Service!Next \/ Unseen
  BY DEF Service!vars, Unseen
<1> USE DEF Admitted, Me
<1>1. ASSUME NEW c \in Clients, Request_Next(c) PROVE Service!Next \/ Unseen
  <2>1. CASE Enter(c) BY <2>1, EnterAsks
  <2>2. CASE SelectInBand(c) \/ SelectRule(c)
    <3>1. /\ Others(c) /\ SameCall(c) /\ SameScene(c) /\ request'[c].pc = "screening"
          /\ Me(c).pc = "selecting" /\ UNCHANGED <<resets, seq, handled, answered>>
      BY <2>2, SelectGoes DEF SelectInBand, SelectRule
    <3> QED
      BY <3>1, InsideUnseen
  <2>3. CASE Screen(c)
    BY <2>3, ScreenGoes, InsideUnseen DEF Screen
  <2>4. CASE Replay(c)
    BY <2>4, ReplayGoes, InsideUnseen DEF Replay
  <2>5. CASE Miss(c)
    BY <2>5, MissGoes, InsideUnseen DEF Miss
  <2>6. CASE \E ending \in UNION {Endings[r] : r \in Routes} : Handle(c, ending)
    BY <2>6, HandleRuns
  <2>7. CASE ReadSeq(c)
    BY <2>7, ReadSeqGoes, InsideUnseen DEF ReadSeq
  <2>8. CASE Store(c)
    BY <2>8, StoreGoes, InsideUnseen DEF Store, StoreAnswer
  <2>9. CASE PayOut(c)
    BY <2>9, PayOutGoes, InsideUnseen DEF PayOut
  <2>10. CASE ShapeError(c)
    BY <2>10, ShapeErrorGoes, InsideUnseen DEF ShapeError
  <2>11. CASE Finish(c) BY <2>11, FinishReplies
  <2> QED
    BY <1>1, <2>1, <2>2, <2>3, <2>4, <2>5, <2>6, <2>7, <2>8, <2>9, <2>10, <2>11 DEF Request_Next
<1>2. ASSUME NEW c \in Clients, NEW call \in Calls, Arrive(c, call) PROVE Unseen
  <2>1. /\ Others(c) /\ request'[c].pc = "matched" /\ request[c].pc = "idle"
        /\ UNCHANGED <<resets, seq, handled, answered>>
    BY <1>2, ArriveGoes DEF Arrive
  <2> QED
    BY <2>1, InsideUnseen
<1>3. CASE StateReset
  <2>1. UNCHANGED <<Asked, Replies>>
    BY <1>3 DEF StateReset, Asked, Replies, LetInside
  <2> QED
    BY <1>3, <2>1 DEF StateReset, Service!Next, Service!Reset
<1>4. CASE UNCHANGED pipelineVars
  BY <1>4 DEF pipelineVars, Unseen, Asked, Replies, LetInside
<1> QED
  BY <1>1, <1>2, <1>3, <1>4 DEF PipelineNext

(* Whatever threads, faults, crashes, resets and the lock do to a caller's *)
(* requests, to the caller the unit is an idempotent service: a key is     *)
(* good for one successful run, and every answer names its own run's       *)
(* commit, or as a replay, having run nothing, the key's (unit.py:43).     *)
THEOREM PipelineIsService == PipelineSpec => FollowsService
<1>1. PipelineInit => Service!Init /\ Owns
  <2> SUFFICES ASSUME PipelineInit PROVE Service!Init /\ Owns
    OBVIOUS
  <2>1. /\ request = [c \in Clients |-> NoRequest] /\ NoRequest.pc = "idle"
        /\ answered = {} /\ handled = {} /\ sent = 0 /\ seq = 0 /\ resets = 0
    BY DEF PipelineInit, NoRequest
  <2>2. Asked = {} /\ Replies = {}
    BY <2>1 DEF Asked, Replies, LetInside
  <2> QED
    BY <2>1, <2>2, PipelineAssumption DEF Service!Init, Owns, Me
<1>2. IInv /\ Told /\ History /\ Owns /\ [PipelineNext]_pipelineVars => Owns'
  BY OwnsNext
<1>3. IInv /\ Told /\ History /\ Owns /\ [PipelineNext]_pipelineVars
        => [Service!Next]_(Service!vars)
  BY ServiceStep
<1> QED
  BY <1>1, <1>2, <1>3, AlwaysHistory, PTL DEF PipelineSpec, FollowsService, Service!Spec
=============================================================================
