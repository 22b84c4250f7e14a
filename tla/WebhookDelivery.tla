-------------------------- MODULE WebhookDelivery --------------------------
(***************************************************************************)
(* core/webhooks/dispatcher.py with core/webhooks/retry.py and             *)
(* core/time/clock.py: fan-out and delivery faults on the request thread,  *)
(* attempts and retries on the worker, timers on a virtual or a real       *)
(* clock, and the threads that drain, advance and stop the unit.  The      *)
(* worker is used as the serial executor DeliveryWorker implements: a FIFO *)
(* queue and one job in hand.  What a chaos rule decides and what a        *)
(* subscriber answers are nondeterministic.                                *)
(***************************************************************************)
EXTENDS Integers, Sequences, FiniteSets, SequencesExt

CONSTANTS
  MaxEvents,     \* bound: events emitted in a behaviour
  Subs,          \* subscribers, numbered in insertion order
  Faults,        \* the decisions select_webhook may come back with
  Answers,       \* what sink.send may do: "ok", "fail", or "raise"
  ExtraCopies,   \* `copies` of webhook.duplicate
  FaultDelay,    \* `delay_ms` of webhook.delay
  Schedules,     \* the retry schedules (scaled delays) a policy may have
  DrainPasses,   \* _DRAIN_PASSES
  Callers,       \* threads that drain, advance or stop
  Routes,        \* which of those calls they make
  Virtual,       \* clock.mode = "virtual"
  MaxTime,       \* bound: how far clock/advance moves the virtual clock
  MaxResets,     \* bound: state resets in a behaviour
  NoJob          \* an empty slot

AllFaults == {"none", "duplicate", "delay", "drop_ack", "out_of_order", "drop"}
AllRoutes == {"drain", "timed", "advance", "advance_drain", "stop"}

Chains == [event : 1 .. MaxEvents, sub : Subs, copy : 0 .. ExtraCopies]
Labels == Faults \cup {"retry", "released"}
Jobs == [kind : {"attempt", "skipped", "dropped"}, chain : Chains,
         retry : Nat, dropAck : BOOLEAN, chaos : Labels]

ASSUME DeliveryAssumption ==
  /\ MaxEvents \in Nat /\ Subs \subseteq Nat /\ Faults \subseteq AllFaults
  /\ Answers \subseteq {"ok", "fail", "raise"} /\ ExtraCopies \in Nat
  /\ FaultDelay \in Nat \ {0} /\ Schedules \subseteq Seq(Nat) /\ Schedules # {}
  /\ DrainPasses \in Nat \ {0} /\ Routes \subseteq AllRoutes
  /\ Virtual \in BOOLEAN /\ MaxTime \in Nat /\ MaxResets \in Nat
  /\ NoJob \notin Jobs

VARIABLES
  queue,       \* jobs submitted to the worker
  inHand,      \* the job the worker runs
  wpc,         \* how far _run_attempt is
  delay,       \* the local `delay` of _run_attempt
  timers,      \* the clock's webhook timers, in scheduling order
  popped,      \* real mode: timers taken off the clock, callback not yet run
  now,         \* virtual time; real time passes unobserved
  schedule,    \* MutableRetryPolicy.schedule_ms, scaled
  held,        \* _held_for_reorder
  fanout,      \* subscribers the emitter still has to queue for
  emitted,     \* events emitted
  stopped,     \* the worker refuses new jobs
  resets,      \* how many resets there were
  log,         \* _log: the delivery records
  caller,      \* what each caller's thread is doing
  chains,      \* history: every (event, subscriber, copy) prepared
  past,        \* history: records clear_log has forgotten
  failures,    \* worker_failures(): chains whose job raised
  lost         \* history: chains dropped with no record, and where

worker   == <<inHand, wpc, delay>>
clock    == <<timers, popped, now>>
request  == <<held, fanout, emitted, chains>>
admin    == <<schedule, resets>>
records  == <<log, past, failures>>
vars == <<queue, worker, clock, request, admin, records, stopped, lost, caller>>

(* A job that counts as finished before its retry is on the clock.         *)
IdleBetweenSteps == queue = <<>> /\ wpc \in {"idle", "scheduling"}

(* The worker's `queue empty and no job running`. *)
Idle == queue = <<>> /\ wpc = "idle"

Entries(s) == {s[i] : i \in 1 .. Len(s)}

Thread(pc, route, passes, asked) ==
  [pc |-> pc, route |-> route, hand |-> NoJob, step |-> 0, passes |-> passes,
   asked |-> asked, doomed |-> {}, told |-> "nothing"]

AtRest == Thread("idle", "none", 0, {})

Init ==
  /\ queue = <<>> /\ inHand = NoJob /\ wpc = "idle" /\ delay = 0
  /\ timers = <<>> /\ popped = {} /\ now = 0
  /\ schedule \in Schedules
  /\ held = NoJob /\ fanout = {} /\ emitted = 0 /\ chains = {}
  /\ stopped = FALSE /\ log = <<>> /\ past = <<>> /\ resets = 0
  /\ failures = {} /\ lost = {}
  /\ caller = [c \in Callers |-> AtRest]

Lose(jobs, why) == lost' = lost \cup {[chain |-> j.chain, why |-> why] : j \in jobs}

(* DeliveryWorker.submit for each job in turn; after stop() it raises, so  *)
(* the first one already ends the caller.                                  *)
SubmitAll(jobs) ==
  IF stopped THEN Lose(Entries(jobs), "refused") /\ UNCHANGED queue
             ELSE queue' = queue \o jobs /\ UNCHANGED lost

Schedule(job, ms) == timers' = Append(timers, [due |-> now + ms, job |-> job])

-----------------------------------------------------------------------------
(* The request thread: enqueue() and enqueue_to().                         *)

(* The subscribers were read from the store, before _request_lock is taken; *)
(* whichever of them match is the environment's choice.                    *)
Emit(matching) ==
  /\ emitted < MaxEvents /\ fanout = {}
  /\ emitted' = emitted + 1
  /\ fanout' = matching
  /\ UNCHANGED <<queue, worker, clock, held, chains, admin, records, stopped,
                 lost, caller>>

(* The fan-out goes through the subscribers in insertion order. *)
Foremost == CHOOSE s \in fanout : \A t \in fanout : s <= t

First(fault) ==
  [kind |-> "attempt", retry |-> 0, dropAck |-> fault = "drop_ack",
   chaos |-> fault,
   chain |-> [event |-> emitted, sub |-> Foremost, copy |-> 0]]

(* The original and the copies of webhook.duplicate. *)
Copies(fault) ==
  [k \in 1 .. IF fault = "duplicate" THEN 1 + ExtraCopies ELSE 1 |->
     [First(fault) EXCEPT !.chain.copy = k - 1]]

(* `release = self._held_for_reorder` *)
Released ==
  IF held = NoJob THEN <<>> ELSE <<[held EXCEPT !.chaos = "released"]>>

(* The slot released from keeps what it held. *)
ClearSlot == held' = NoJob

(* webhook.out_of_order: the one slot is overwritten, whatever was in it.  *)
Hold(fault) ==
  /\ fault = "out_of_order"
  /\ held' = First(fault)
  /\ chains' = chains \cup {First(fault).chain}
  /\ queue' = IF stopped THEN queue
              ELSE Append(queue, [First(fault) EXCEPT !.kind = "skipped"])
  /\ IF held = NoJob THEN UNCHANGED lost ELSE Lose({held}, "overwritten")
  /\ UNCHANGED timers

(* webhook.drop: a record and nothing else; the slot keeps what it holds.  *)
Drop(fault) ==
  /\ fault = "drop"
  /\ chains' = chains \cup {First(fault).chain}
  /\ SubmitAll(<<[First(fault) EXCEPT !.kind = "dropped"]>>)
  /\ UNCHANGED <<held, timers>>

(* The held delivery released ahead of the one that lets it go. *)
ReleaseFirst(fault) ==
  /\ fault \notin {"out_of_order", "drop"}
  /\ chains' = chains \cup {j.chain : j \in Entries(Copies(fault))}
  /\ ClearSlot
  /\ SubmitAll(Released \o Copies(fault)) /\ UNCHANGED timers

(* Everything else sends: now, or later for webhook.delay.  What was held  *)
(* back is released after the copies.                                      *)
SendAll(fault) ==
  /\ fault \notin {"out_of_order", "drop"}
  /\ chains' = chains \cup {j.chain : j \in Entries(Copies(fault))}
  /\ ClearSlot
  /\ IF fault = "delay"
       THEN Schedule(First(fault), FaultDelay) /\ SubmitAll(Released)
       ELSE SubmitAll(Copies(fault) \o Released) /\ UNCHANGED timers

(* webhook.delay only puts the delivery on the clock, unless one is held.  *)
Submits(fault) == fault # "delay" \/ held # NoJob

(* _apply_chaos_and_schedule for the next subscriber of the fan-out.  A    *)
(* submission to a stopped worker raises, which ends the whole fan-out.    *)
QueueNext(fault) ==
  /\ fanout # {}
  /\ Hold(fault) \/ Drop(fault) \/ SendAll(fault)
  /\ fanout' = IF stopped /\ Submits(fault) THEN {} ELSE fanout \ {Foremost}
  /\ UNCHANGED <<worker, popped, now, emitted, admin, records, stopped, caller>>

-----------------------------------------------------------------------------
(* The worker thread: _run_attempt() and _record().                        *)

Record(status, next) ==
  log' = Append(log, [chain |-> inHand.chain, attempt |-> inHand.retry + 1,
                      status |-> status, chaos |-> inHand.chaos,
                      at |-> now, next |-> next])

(* The `finally` clause left out: busy for ever. *)
StaysBusy == inHand' = NoJob /\ wpc' = "busy" /\ delay' = 0

FinishJob ==
  /\ inHand' = NoJob /\ wpc' = "idle" /\ delay' = 0

(* pop() where the code has popleft() *)
TakeNewest ==
  /\ wpc = "idle" /\ queue # <<>>
  /\ inHand' = Last(queue) /\ queue' = Front(queue) /\ wpc' = "started"
  /\ UNCHANGED <<delay, clock, request, admin, records, stopped, lost, caller>>

TakeJob ==
  /\ wpc = "idle" /\ queue # <<>>
  /\ inHand' = Head(queue) /\ queue' = Tail(queue) /\ wpc' = "started"
  /\ UNCHANGED <<delay, clock, request, admin, records, stopped, lost, caller>>

(* _submit_terminal's job: `skipped` and `dropped` never touch the sink.   *)
RecordTerminal ==
  /\ wpc = "started" /\ inHand.kind # "attempt"
  /\ Record(inHand.kind, 0)
  /\ FinishJob
  /\ UNCHANGED <<queue, clock, request, admin, past, failures, stopped, lost, caller>>

(* sink.send() answers; drop_ack discards the answer afterwards.           *)
Send(answer) ==
  /\ wpc = "started" /\ inHand.kind = "attempt" /\ answer # "raise"
  /\ wpc' = IF answer = "ok" /\ ~inHand.dropAck THEN "acked" ELSE "refused"
  /\ UNCHANGED <<queue, inHand, delay, clock, request, admin, records, stopped,
                 lost, caller>>

(* The job raises: the worker notes it and goes on, and nothing is logged. *)
JobRaises ==
  /\ failures' = failures \cup {inHand.chain}
  /\ FinishJob
  /\ UNCHANGED <<queue, clock, request, admin, log, past, stopped, lost, caller>>

SendRaises ==
  /\ wpc = "started" /\ inHand.kind = "attempt" /\ "raise" \in Answers
  /\ JobRaises

Delivered ==
  /\ wpc = "acked"
  /\ Record("delivered", 0)
  /\ FinishJob
  /\ UNCHANGED <<queue, clock, request, admin, past, failures, stopped, lost, caller>>

(* schedule_exhausted(policy, retry_number) *)
ScheduleExhausted == inHand.retry >= Len(schedule)

Exhausted ==
  /\ wpc = "refused" /\ ScheduleExhausted
  /\ Record("exhausted", 0)
  /\ FinishJob
  /\ UNCHANGED <<queue, clock, request, admin, past, failures, stopped, lost, caller>>

NotExhausted ==
  /\ wpc = "refused" /\ ~ScheduleExhausted
  /\ wpc' = "retrying"
  /\ UNCHANGED <<queue, inHand, delay, clock, request, admin, records, stopped,
                 lost, caller>>

(* retry_delay_ms reads the live policy a second time. *)
RecordFailed ==
  /\ wpc = "retrying" /\ inHand.retry < Len(schedule)
  /\ delay' = schedule[inHand.retry + 1]
  /\ Record("failed", schedule[inHand.retry + 1])
  /\ wpc' = "scheduling"
  /\ UNCHANGED <<queue, inHand, clock, request, admin, past, failures, stopped,
                 lost, caller>>

(* IndexError: the schedule was patched to a shorter one in between.       *)
ScheduleGone == wpc = "retrying" /\ inHand.retry >= Len(schedule) /\ JobRaises

(* A retry that forgets it is one more attempt. *)
RetryKeepsCount == [inHand EXCEPT !.dropAck = FALSE, !.chaos = "retry"]

RetryOf == [kind |-> inHand.kind, chain |-> inHand.chain, retry |-> inHand.retry + 1,
            dropAck |-> FALSE, chaos |-> "retry"]

(* The retry goes on the clock before the job counts as finished.          *)
ScheduleRetry ==
  /\ wpc = "scheduling"
  /\ Schedule(RetryOf, delay)
  /\ FinishJob
  /\ UNCHANGED <<queue, popped, now, request, admin, records, stopped, lost, caller>>

-----------------------------------------------------------------------------
(* Timers.  A callback only submits, with no lock held.                    *)

(* The `due_at <= now` filter left out. *)
AllTimers == 1 .. Len(timers)

DueJobs == {i \in 1 .. Len(timers) : timers[i].due <= now}

(* sorted(..., key=lambda t: (t.due_at, t.id))[0] *)
Earliest ==
  CHOOSE i \in DueJobs :
    \A k \in DueJobs : \/ timers[i].due < timers[k].due
                       \/ timers[i].due = timers[k].due /\ i <= k

(* A timer that fires and stays on the clock. *)
TimerKept(i) ==
  /\ ~Virtual
  /\ popped' = popped \cup {timers[i].job}
  /\ UNCHANGED <<timers, queue, worker, now, request, admin, records, stopped, lost, caller>>

(* Real mode: _fire_real takes the timer off the clock ... *)
TimerPop(i) ==
  /\ ~Virtual
  /\ popped' = popped \cup {timers[i].job}
  /\ timers' = RemoveAt(timers, i)
  /\ UNCHANGED <<queue, worker, now, request, admin, records, stopped, lost, caller>>

(* ... and calls it with the clock's lock released. *)
TimerFire(job) ==
  /\ job \in popped
  /\ popped' = popped \ {job}
  /\ SubmitAll(<<job>>)
  /\ UNCHANGED <<worker, timers, now, request, admin, records, stopped, caller>>

-----------------------------------------------------------------------------
(* The callers: drain(), Clock.advance(settle=...) and Unit.stop().        *)

Go(c, pc) == caller' = [caller EXCEPT ![c].pc = pc]

shared == <<worker, popped, request, admin, records>>

trail == past \o log

(* Where a chain can be: (event, subscriber, copy) with its retries.  The  *)
(* job that only records `skipped` is not the held delivery itself.        *)
Chain(jobs) == {j.chain : j \in {k \in jobs : k.kind # "skipped"}}
Ended == {r.chain : r \in {q \in Entries(trail) :
                             q.status \in {"delivered", "exhausted", "dropped"}}}
Firing == {caller[c].hand : c \in Callers} \ {NoJob}
InSlot == {held} \ {NoJob}
Gone == {l.chain : l \in lost}

(* What a caller may expect to be settled for it. *)
Outstanding == chains \ (Ended \cup failures \cup Gone \cup Chain(InSlot))

Begin(c, route, pc) ==
  caller' = [caller EXCEPT ![c] = Thread(pc, route, DrainPasses, Outstanding)]

CallDrain(c, route) ==
  /\ caller[c].pc = "idle" /\ route \in {"drain", "timed", "stop"}
  /\ Begin(c, route, "quiesce")
  /\ UNCHANGED <<queue, shared, timers, now, stopped, lost>>

(* POST /__unit/clock/advance, with or without its `drain`. *)
CallAdvance(c, route, ms) ==
  /\ Virtual /\ caller[c].pc = "idle" /\ route \in {"advance", "advance_drain"}
  /\ now + ms <= MaxTime
  /\ now' = now + ms
  /\ Begin(c, route, "settle")
  /\ UNCHANGED <<queue, shared, timers, stopped, lost>>

(* Unit.stop() going straight to clear_all(), without stopping the worker. *)
ClearsFirst(c, verdict) ==
  Go(c, IF caller[c].route = "stop" THEN "joining" ELSE verdict)

(* drain() comes back; Unit.stop() goes on to stop the worker.             *)
DrainReturns(c, verdict) ==
  caller' = [caller EXCEPT
    ![c].pc = IF caller[c].route = "stop" THEN "stopping" ELSE verdict,
    ![c].told = verdict]

NextPass(c) ==
  IF caller[c].passes = 1
    THEN DrainReturns(c, "gaveup")
    ELSE caller' = [caller EXCEPT ![c].pc = "quiesce", ![c].passes = @ - 1]

DrainQuiesce(c) ==
  /\ caller[c].pc = "quiesce" /\ Idle
  /\ Go(c, "look")
  /\ UNCHANGED <<queue, shared, timers, now, stopped, lost>>

DrainTimeout(c) ==
  /\ caller[c].pc = "quiesce" /\ caller[c].route = "timed"
  /\ Go(c, "gaveup")
  /\ UNCHANGED <<queue, shared, timers, now, stopped, lost>>

SoonestDue == CHOOSE d \in {t.due : t \in Entries(timers)} :
                \A t \in Entries(timers) : d <= t.due

(* `pending` is read once; the clock may look different when it is used.   *)
DrainLook(c) ==
  /\ caller[c].pc = "look"
  /\ IF timers = <<>>
       THEN DrainReturns(c, "settled")
       ELSE IF Virtual
         THEN caller' = [caller EXCEPT ![c].pc = "move",
                           ![c].step = IF SoonestDue > now THEN SoonestDue - now ELSE 0]
         ELSE Go(c, "asleep")
  /\ UNCHANGED <<queue, shared, timers, now, stopped, lost>>

DrainSleep(c) ==
  /\ caller[c].pc = "asleep"
  /\ NextPass(c)
  /\ UNCHANGED <<queue, shared, timers, now, stopped, lost>>

DrainAdvance(c) ==
  /\ caller[c].pc = "move"
  /\ now' = now + caller[c].step
  /\ caller' = [caller EXCEPT ![c].pc = "settle", ![c].step = 0]
  /\ UNCHANGED <<queue, shared, timers, stopped, lost>>

(* A re-scan that does not settle first. *)
Rescan(c) ==
  /\ caller[c].pc = "settle"
  /\ Go(c, "scan")
  /\ UNCHANGED <<queue, shared, timers, now, stopped, lost>>

(* `settle()`, before each re-scan *)
AdvanceSettle(c) == Idle /\ Rescan(c)

AdvanceReturns(c) ==
  CASE caller[c].route = "advance" -> Go(c, "advanced")
    [] caller[c].route = "advance_drain" ->
         caller' = [caller EXCEPT ![c].pc = "quiesce", ![c].route = "drain"]
    [] OTHER -> NextPass(c)

AdvanceScan(c) ==
  /\ caller[c].pc = "scan"
  /\ IF DueJobs = {}
       THEN AdvanceReturns(c) /\ UNCHANGED timers
       ELSE /\ caller' = [caller EXCEPT ![c].pc = "fire",
                                        ![c].hand = timers[Earliest].job]
            /\ timers' = RemoveAt(timers, Earliest)
  /\ UNCHANGED <<queue, shared, now, stopped, lost>>

(* timer.fn(): a worker that was stopped meanwhile refuses the job and the *)
(* exception leaves advance().                                             *)
AdvanceFire(c) ==
  /\ caller[c].pc = "fire"
  /\ SubmitAll(<<caller[c].hand>>)
  /\ caller' = [caller EXCEPT ![c].pc = IF stopped THEN "gaveup" ELSE "settle",
                              ![c].hand = NoJob]
  /\ UNCHANGED <<shared, timers, now, stopped>>

StopWorker(c) ==
  /\ caller[c].pc = "stopping"
  /\ stopped' = TRUE
  /\ Go(c, "joining")
  /\ UNCHANGED <<queue, shared, timers, now, lost>>

(* The join may time out.  clear_all() lists the timers first ... *)
ListTimers(c) ==
  /\ caller[c].pc = "joining"
  /\ caller' = [caller EXCEPT ![c].pc = "clearing",
                              ![c].doomed = {t.job : t \in Entries(timers)}]
  /\ UNCHANGED <<queue, shared, timers, now, stopped, lost>>

DoomedTimers(c) == {i \in 1 .. Len(timers) : timers[i].job \in caller[c].doomed}

(* ... and cancels them one after the other; one that is no longer on the  *)
(* clock is passed over.                                                   *)
CancelTimer(c) ==
  /\ caller[c].pc = "clearing"
  /\ \E i \in DoomedTimers(c) :
       /\ \A k \in DoomedTimers(c) : i <= k
       /\ timers' = RemoveAt(timers, i)
       /\ Lose({timers[i].job}, "cleared")
  /\ UNCHANGED <<queue, shared, now, stopped, caller>>

StopReturns(c) ==
  /\ caller[c].pc = "clearing" /\ DoomedTimers(c) = {}
  /\ caller' = [caller EXCEPT ![c].pc = "unit_stopped", ![c].doomed = {}]
  /\ UNCHANGED <<queue, shared, timers, now, stopped, lost>>

Return(c) ==
  /\ caller[c].pc \in {"settled", "gaveup", "advanced", "unit_stopped"}
  /\ caller' = [caller EXCEPT ![c] = AtRest]
  /\ UNCHANGED <<queue, shared, timers, now, stopped, lost>>

-----------------------------------------------------------------------------
(* The control plane. *)

(* Unit._hydrate(): the log is cleared; the queue, the timers and the      *)
(* reorder slot are not.                                                   *)
Hydrate ==
  /\ resets < MaxResets /\ fanout = {}
  /\ log' = <<>> /\ past' = past \o log
  /\ resets' = resets + 1
  /\ UNCHANGED <<queue, worker, clock, request, schedule, failures, stopped,
                 lost, caller>>

(* MutableRetryPolicy.apply(), in place and with no lock *)
SetRetryPolicy(s) ==
  /\ schedule' = s
  /\ UNCHANGED <<queue, worker, clock, request, resets, records, stopped,
                 lost, caller>>

-----------------------------------------------------------------------------
Request_Next ==
  \/ \E matching \in SUBSET Subs : Emit(matching)
  \/ \E fault \in Faults : QueueNext(fault)

Worker_Next ==
  \/ TakeJob \/ RecordTerminal \/ \E a \in Answers : Send(a)
  \/ SendRaises \/ Delivered \/ Exhausted \/ NotExhausted \/ RecordFailed
  \/ ScheduleGone \/ ScheduleRetry

Timer_Next ==
  \/ \E i \in 1 .. Len(timers) : TimerPop(i)
  \/ \E job \in popped : TimerFire(job)

Call(c) ==
  \E route \in Routes : \/ CallDrain(c, route)
                        \/ \E ms \in 0 .. MaxTime : CallAdvance(c, route, ms)

Caller_Next(c) ==
  \/ DrainQuiesce(c) \/ DrainTimeout(c) \/ DrainLook(c) \/ DrainSleep(c)
  \/ DrainAdvance(c) \/ AdvanceSettle(c) \/ AdvanceScan(c) \/ AdvanceFire(c)
  \/ StopWorker(c) \/ ListTimers(c) \/ CancelTimer(c)
  \/ StopReturns(c) \/ Return(c)

Admin_Next == Hydrate \/ \E s \in Schedules : SetRetryPolicy(s)

Next ==
  \/ Request_Next \/ Worker_Next \/ Timer_Next \/ Admin_Next
  \/ \E c \in Callers : Call(c) \/ Caller_Next(c)

Spec == Init /\ [][Next]_vars

(* Threads that have work get to run: the emitter inside its lock, the     *)
(* worker, the timer threads, and a caller inside its call.  Nobody has to *)
(* emit, to call, to reset or to patch the policy.                         *)
Fairness ==
  /\ WF_vars(\E fault \in Faults : QueueNext(fault))
  /\ WF_vars(Worker_Next) /\ WF_vars(Timer_Next)
  /\ \A c \in Callers : WF_vars(Caller_Next(c))

FairSpec == Spec /\ Fairness
-----------------------------------------------------------------------------
Places == <<Chain(Entries(queue)), Chain({inHand} \ {NoJob}),
            Chain({t.job : t \in Entries(timers)}), Chain(popped), Chain(Firing),
            Chain(InSlot), Ended, failures, Gone>>

NoChainTwice(jobs) ==
  \A i, k \in 1 .. Len(jobs) :
    i # k /\ jobs[i].chain = jobs[k].chain =>
      jobs[i].kind = "skipped" \/ jobs[k].kind = "skipped"

(* Every delivery is in exactly one place: queued, running, on the clock,  *)
(* in a callback, in the reorder slot, or at one of its ends.  None is     *)
(* forgotten without a trace and none goes on twice, whatever the faults.  *)
Accounted ==
  /\ chains = UNION Entries(Places)
  /\ \A p, q \in 1 .. Len(Places) : p # q => Places[p] \cap Places[q] = {}
  /\ NoChainTwice(queue)
  /\ NoChainTwice([i \in 1 .. Len(timers) |-> timers[i].job])
  /\ \A c, d \in Callers : c # d /\ caller[c].hand = caller[d].hand =>
                              caller[c].hand = NoJob

(* The attempts at the same delivery up to, and without, the i-th record.  *)
SameDelivery(i, k) == trail[i].chain = trail[k].chain /\ trail[k].status # "skipped"
Earlier(i) == {k \in 1 .. i - 1 : SameDelivery(i, k)}

(* The transcript of a delivery reads attempt 1, 2, 3 ...: each but the    *)
(* last failed, nothing follows the end, nothing is left out or repeated.  *)
AttemptsContiguous ==
  \A i \in 1 .. Len(trail) :
    trail[i].status # "skipped" =>
      /\ trail[i].attempt = Cardinality(Earlier(i)) + 1
      /\ \A k \in Earlier(i) : trail[k].status = "failed"

(* No retry is sent before the delay its failed attempt announced.         *)
RetriesSpaced ==
  \A i \in 1 .. Len(trail) :
    trail[i].status # "skipped" =>
      \A k \in Earlier(i) : trail[i].at >= trail[k].at + trail[k].next

(* "Settle everything: in-flight attempts AND retries still on the clock"  *)
(* (dispatcher.py:776): what was outstanding at the call has ended when    *)
(* drain() returns because nothing is pending, on its own or as the first  *)
(* part of Unit.stop().                                                    *)
DrainSettles ==
  \A c \in Callers :
    caller[c].told = "settled" => caller[c].asked \subseteq Ended \cup failures

(* The whole retry cascade collapses into one advance(): what was          *)
(* outstanding has ended, or waits for a moment that is still to come.     *)
AdvanceCollapses ==
  \A c \in Callers :
    caller[c].pc = "advanced" =>
      \A chain \in caller[c].asked :
        \/ chain \in Ended \cup failures
        \/ \E t \in Entries(timers) : t.job.chain = chain /\ t.due > now

(* No delivery disappears from a unit that was not stopped, but the one    *)
(* that a second webhook.out_of_order overwrites in the reorder slot.      *)
NothingLost == (\E l \in lost : l.why # "overwritten") => stopped

Before(a, b) ==
  \/ a.event < b.event
  \/ a.event = b.event /\ a.sub < b.sub
  \/ a.event = b.event /\ a.sub = b.sub /\ a.copy < b.copy

(* First attempts that no fault moved are logged in the order of the       *)
(* events, then of the subscribers, then of the copies.                    *)
FirstAttemptsInOrder ==
  \A i, k \in 1 .. Len(trail) :
    i < k /\ {trail[i].chaos, trail[k].chaos} \cap {"delay", "released", "retry"} = {}
      => Before(trail[i].chain, trail[k].chain)

(* "Hold this event until the next one has been delivered"                 *)
(* (docs/reference/faults.md:16): a released delivery follows an attempt   *)
(* of a later one, unless that one's job raised and left no record.  A     *)
(* releaser that is itself delayed goes after it, so this is a claim about *)
(* the faults without webhook.delay.                                       *)
HeldGoesSecond ==
  \A k \in 1 .. Len(trail) :
    trail[k].chaos = "released" =>
      \/ \E i \in 1 .. k - 1 : /\ Before(trail[k].chain, trail[i].chain)
                               /\ trail[i].status \notin {"skipped", "dropped"}
      \/ \E chain \in failures : Before(trail[k].chain, chain)

Tried(chain) == {k \in 1 .. Len(trail) : trail[k].chain = chain /\ trail[k].status # "skipped"}

Transcript ==
  {[of |-> r.chain, nth |-> r.attempt, status |-> r.status, at |-> r.at, next |-> r.next] :
     r \in {q \in Entries(trail) : q.status # "skipped"}}

Tries == [chain \in Chains |-> Cardinality(Tried(chain))]

Policy == INSTANCE RetriedDelivery WITH
  Deliveries <- Chains, Timed <- Virtual, closed <- stopped, prepared <- chains,
  tries <- Tries, transcript <- Transcript, ended <- Ended \cup failures, lost <- Gone

(* A subscriber sees deliveries made as the retry policy says, whatever    *)
(* queues, threads and timers carry them.                                  *)
FollowsPolicy == Policy!Spec

(* Every delivery ends, unless it waits in the reorder slot: in real mode  *)
(* without anybody's help.                                                 *)
EveryDeliveryEnds ==
  \A chain \in Chains :
    chain \in chains ~> chain \in Ended \cup failures \cup Gone \cup Chain(InSlot)

(* Every drain, advance and stop comes back, also while retries fail.      *)
CallsReturn ==
  \A c \in Callers : caller[c].pc # "idle" ~> caller[c].pc = "idle"
=============================================================================
