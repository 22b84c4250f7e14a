# Formal models of vendorfake

vendorfake is a configurable fake of third-party vendors (Square, Clover,
Toast, Lightspeed) for integration tests.  One *unit* is a request pipeline, a
store, a clock, a chaos engine that injects faults, a webhook dispatcher with a
delivery thread, and the routes of one vendor.  Consumers call a unit from
several threads at once, through the ASGI binding or in process, or drop request
documents into a directory, and control it over `/__unit/...`.

The models have two halves.  The core (`src/src/vendorfake/core`) is where the
threads, counters, retries, timers and crashes are.  The vendors run under the
core's pipeline lock, so nothing interleaves there: what is hard is the long
sequence of legal requests that brings orders, payments, tills and stock out of
step with each other.

## Inventory

| Component | Source (under `core/` unless a vendor) | State | Operations | What makes it hard and correct |
|---|---|---|---|---|
| Delivery worker | `webhooks/worker.py` | FIFO queue, busy flag, stop flag, generation, failures, thread | submit, quiesce (with or without timeout), stop, the thread loop | one condition variable for two predicates; FIFO exactly once, no lost wake-up, `quiesce() is True` covers all that was submitted before, stop discards nothing |
| Webhook dispatcher | `webhooks/dispatcher.py` | log, reorder slot, prepared events, retry policy | enqueue, enqueue_to, the delivery faults, attempts, drain, settle, stop, clear_log | request threads, the worker, timers and draining callers meet; no delivery forgotten or sent twice, retries numbered and spaced, drain settles |
| Retry policy | `webhooks/retry.py` | schedule, scale, timeout | apply, schedule_exhausted, retry_delay_ms | patched in place while attempts read it |
| Clock | `time/clock.py` | virtual now, timers, real timer handles | after, cancel, advance, pending, clear_all | callbacks run without the lock; advance re-scans after each callback |
| Chaos engine | `chaos/engine.py`, `chaos/rules.py` | rules, counters, history, toggle | evaluate, record_overlay, replace, add, remove, reset, reset_counters, set_enabled | rules must not renumber each other; budgets |
| Fault selection and application | `chaos/selector.py`, `chaos/faults.py` | none | select_request, select_webhook, apply_request_fault, apply_response_fault | in-band before standing rules; phases |
| Request pipeline | `kernel/unit.py` | pipeline lock, request log | handle, the nine steps, error shaping, _finish, _hydrate, stop | order of auth, faults, idempotency and handler; two ways to leave (return, raise) |
| Store | `state/store.py` | collections, journal, journal_seq, idempotency records, listeners | insert, update, delete, paginate, snapshot, restore, reset | the journal is the source of every event; listeners run under the store lock, and the dispatcher's takes another one |
| State machine | `state/machine.py` | none | can_transition, assert_transition, assert_mutable | legal life cycles of orders, checks, sales and payments, asked by every vendor |
| Capability registry | `capability/` | enabled set | enable, disable, delta, is_enabled, assert_enabled | requires-chains |
| Control plane | `control/plane.py` | none of its own | the `/__unit` routes | acts on everything above while requests run |
| File drop | `transport/filedrop.py` | directories `in`, `out`, `processed`, a thread, a stop event | poll, start, stop, the loop | a kill between two renames; threads that share one event; a document that breaks its reader |
| Other transports | `transport/inprocess.py`, `asgi/` | none | forward a call | |
| Square | `square/surface/orders.py`, `payments.py`, `model/order.py` | orders with lines, fulfillments and tenders; payments | CreateOrder, UpdateOrder, PayOrder; create, complete, cancel a payment | sparse merges judged on a dry run, several held payments for one due, uids from a deterministic stream |
| Clover | `clover/surface/orders.py`, `payments.py` | orders with client-owned totals; payments | create, patch, delete, lines, pay | the first payment locks an order that is not covered yet |
| Toast | `toast/surface/orders.py`, `payments.py` | orders with checks; payments of two types | create, add selections, discount, pay, tip, void | a check settles by payment, tip or discount, in any order |
| Lightspeed | `lightspeed/surface/sales.py`, `registers.py`, `versioning.py` | sales, tills, closures, stock, versions | create, replace, return; open and close a till; page by version | a PUT rebuilds payments a till may have counted; a walk must miss no write |
| Router, shaping, config, rand, util | `kernel/router.py`, `kernel/shaping.py`, `config/`, `rand/`, `util/` | construction-time tables, RNG streams | pure functions | determinism |
| Conformance, fidelity, testing, agent, CLI | same names | none in a running unit | drive a unit from outside | |

How they interact: a request enters `Unit.handle`, takes the pipeline lock
(unless its route says `serialized=False`), asks the selector and through it
the chaos engine for a fault, is authenticated, looked up in the idempotency
records, handled, recorded, and faulted.  A handler's mutation appends to the
journal under the store lock, and the journal listener calls
`WebhookDispatcher.enqueue`, which asks the chaos engine for a delivery fault
and submits attempts to the worker or puts them on the clock.  The worker sends,
records, and puts the retry on the clock.  A timer callback only submits to the
worker.  `drain`, `clock/advance` and `Unit.stop` wait for the worker and move
the clock.  A vendor's handler runs inside step 8, with the pipeline lock
held: it validates, draws ids, and commits to the store, and the journal listener
turns each commit into a webhook.  The file drop hands one document after another
to `Unit.handle` and writes the answers back; after a crash a new unit serves the
same directories.

## Modules

| Module | Models | Kind |
|---|---|---|
| `SerialExecutor` | what the worker promises the dispatcher | abstract specification |
| `DeliveryWorker` | `worker.py` | component; implements `SerialExecutor` |
| `RetriedDelivery` | what the webhook path promises a consumer | abstract specification |
| `WebhookDelivery` | `dispatcher.py`, `retry.py`, `clock.py`, `Unit.stop` | composition; uses the worker as a serial executor; implements `RetriedDelivery` |
| `ChaosEngine` | `engine.py` | component |
| `IdempotentService` | what the pipeline promises a caller who retries | abstract specification |
| `RequestPipeline` | `unit.py`, with `selector.py` and the phases of `faults.py` | composition: it extends `ChaosEngine`, whose `Evaluate` and `RecordOverlay` are its fault selection; implements `IdempotentService` |
| `EventOutbox` | what the store and its listener promise together | abstract specification |
| `Store` | `store.py`, with the dispatcher's journal listener, `enqueue`, `enqueue_to`, and the control routes over the whole store | composition of the threads that meet at three locks; implements `EventOutbox` |
| `AnsweredInbox` | what a partner may rely on who drops documents | abstract specification |
| `FileDrop` | `filedrop.py` | component, with crashes; implements `AnsweredInbox` |
| `StateMachine` | `state/machine.py` | operators the four vendors use |
| `SquareOrders` | Square's order and payment routes | component |
| `CloverOrders` | Clover's order and payment routes | component |
| `ToastOrders` | Toast's order and payment routes | component |
| `LightspeedSales` | Lightspeed's sales, tills, stock and version walk | component |
| `PointOfSale` | a unit and the vendor it is built for | composition of the last three; implements each of them |
| `SetInduction` | | lemmas: induction over numbers, folds over lists, sums over finite sets |
| `DeliveryWorkerProofs`, `WebhookDeliveryProofs`, `RequestPipelineProofs`, `FileDropProofs`, `StoreProofs`, `SquareOrdersProofs`, `PointOfSaleProofs` | | theorems about the module each is named for; `SquareOrdersProofs` begins with the lemmas on merged lists, `PointOfSaleProofs` with Clover on its own, and `RequestPipelineProofs` ends with `ChaosEngine` |
| `MC...` | | the instances TLC checks |

Each module also holds a few operators that differ from the code by one
plausible mistake (`FinishSilently`, `RetryKeepsCount`, ...).  No specification
uses them.  They are there to be put in the place of the definition they stand
next to: every property of a passing run fails under one of them.

### DeliveryWorker

Every `with self._cond:` block is an action, and so is each step the thread
takes between two blocks (`JobReturns`, `JobRaises`).  The threads asleep in
`_cond.wait()` are the set `waiting`; `NotifyAll` empties it; a thread in the set
does nothing.  `QuiesceTimeout` is a wait that came back because time was up.
`quiesce` called from the thread itself raises at once, which is one of the ways
of `JobRaises`.  The join in `stop` has a timeout and may come back early.
`accepted`, `completed`, `asked` and `vouched` are history variables.  A job is
handed in at most once, so `Jobs` bounds a behaviour.

Why another queue is not enough: the refinement (`ImplementsExecutor`, with
`ran <- completed` and `closed <- stopped`) is what lets `WebhookDelivery` use a
queue and one job in hand, and treat "queue empty and no job running" as the
whole of `quiesce`.

### WebhookDelivery

A *chain* is one delivery with all its retries: (event, subscriber, copy).  The
emitter (`Emit`, `QueueNext`) holds `_request_lock` over the fan-out and decides
one fault per subscriber.  `QueueNext` is one action although it can make
several submissions: what the worker does in between commutes with them, since
it only takes from the head of the queue and its log entries do not depend on
what is behind it.  A stop of the worker between the copies of one delivery does not commute, and
is not modelled: the copies are all accepted or all refused.  `Submits` says which faults submit
anything: a delayed delivery only goes on the clock, so that the fan-out goes on after it in a stopped unit too.  The worker's attempt is split where another thread can act
between: `TakeJob`, `Send`, then `Delivered` or `Exhausted`, or `NotExhausted`
(first read of the retry policy), `RecordFailed` (second read), `ScheduleRetry`.
Real timers fire in two steps (`TimerPop`, `TimerFire`).  `drain` is quiesce, look,
then sleep or advance, at most `DrainPasses` times; `advance` is settle, scan,
fire until nothing is due.  `Unit.stop` is a drain, `StopWorker`, and `clear_all`:
`ListTimers`, then one `CancelTimer` per timer it listed that is still on the clock, then
`StopReturns`.  What a drain answered stays in `told` until its caller returns, so `DrainSettles`
speaks of the drain inside `Unit.stop` too.  `Hydrate` is what a state reset does to the dispatcher:
it clears the log and nothing else.

A record keeps the virtual time `at` which it was written and the delay `next` it
announced.  A submission to a stopped worker raises: the fan-out or the callback
ends there and the delivery goes to `lost`.

`RetriedDelivery` says what all this is for, with no queue, timer, thread or reorder slot in it: each
delivery is prepared once, tried one attempt after the other with the delays of the policy in
force, not before the delay has passed, and has one end, `delivered`, `exhausted` after as many retries as the
policy then allows, or `dropped` untried; only a stop gives deliveries up, and an `out_of_order` that
overwrites the slot gives up one that nobody has tried.  `FollowsPolicy` maps
`prepared` to `chains`, `transcript` to the records of attempts (`"skipped"` is none), `ended` to what has
its last record or whose job raised, `lost` to what is gone without one; `Timed` to `Virtual`.

### ChaosEngine

Every method that changes state is one action, for every one holds the engine's
lock throughout.  A rule's match criteria are the set of subjects it matches;
`probability` is a free choice; counters are kept per id as in the code.

### RequestPipeline

`request[c]` is the request that thread `c` is in, with the locals of `handle` and
its trace.  One action per step of the pipeline: `Arrive`, `Enter` (the lock),
`SelectInBand` or `SelectRule`, `Screen` (steps 4-6), `Replay` or `Miss` (7), `Handle`
and `ReadSeq` (8), `Store`, `PayOut` (9), `ShapeError`, `Finish`.  A raise gives the lock
back before the error is shaped, as the `with` statement does.  A handler may
commit or not, and answer, raise or crash.  `StateReset` is `_hydrate` as the
internal route runs it.  Left out of these steps: a body that step 7 cannot parse for the digest, which is refused there; a handler that returns an
answer other than a 2xx instead of raising it; and a handler that commits more than once, of which the log row
names the last.  A route's idempotency policy is its `scope` (or `NoScope`),
whether a key is `required`, and what a different body means; two routes may share
a scope and with it their records.  `KeyedAssumption` says that a route with a policy
is serialized, as every such route in `src/` is: `OneCommitPerKey` needs it.
`WritersAssumption` says the same of a route whose handler commits: the three routes that
ship without the lock "do not touch" ids and the journal (`plane.py:37`), and a writer
among them could land between the two reads of another request's journal window.

`IdempotentService` is the pipeline as a caller who retries sees it: a request is let in (`Ask`), may
run its handler once, and gets one reply, which names the commit of its own run, or as a replay that of
the run its key stands for in the scenario that let it in, or none.  It has no lock, record or fault.
`FollowsService` maps `runs` to `handled`, `scene` to `resets`, and `asked` and `replies` to what tells
the requests of `request` and `answered` apart to their callers; what becomes of the bytes of an answer
is left to `ReplaysNameTheCommit` and `FaultsArePaidOut`.

### Store

What a request of any thread does between two acquires of a lock is one action.  `owner`
is who holds the pipeline lock (`Unit._lock`), the store lock and the request lock; they are
re-entrant, so a lock that is taken for the length of one step is a test that no other
thread holds it (`Passes`).  `pc` and `job` are where a thread is and with what.  A mutation is
`Insert`, `Update` or `Delete`, which take the store lock and write the map, then
`Append_Silent` or `Append_Fires`, which write the journal entry and call the listener.  A
listener that has events goes on with the store lock held: `Prepare` (an id is minted under
the request lock), then per event `Resolve`, `TakeRequestLock` and `Queue_More` or
`Queue_Last`.  `Emit` is the control route, which reaches the same steps with no store lock held;
`TestSubscription` is Square's test delivery, which goes to one subscriber, takes no pipeline
lock, and waits for the worker afterwards; `Drain` is the route that waits for as
long as it takes.  The consumer that gets a delivery may call the unit before it answers:
`Worker` is a thread like the others, with `Arrive` inside its `sending`.  It serves every route
but the two that wait for the worker: on the worker's own thread `quiesce` raises, and a
consumer that asks for a drain over HTTP before it answers waits until the sink times out.
`Snapshot`, `Restore` and `Reset` need the pipeline lock; a reset goes on through the
seed one insert at a time, and a write beside it may take an id the seed wants (`SeedSkips`,
`SeedConflicts`).

An entity is its version, a journal entry a key and a version; the place of an entry in the
journal is its `seq`.  An event is its place in `due`, the history of what the journal called
for, each with the subscribers of that moment; 0 is an event somebody asked for.
`Unserialized` says that a fork has routes which write without the pipeline lock.  None
in `src/` does, but the locks are argued in the code for one that will
(`dispatcher.py:424`: "a property no test asserts and that the next `serialized=False` route
would remove without anyone noticing"), and that is the case the properties are about.

`EventOutbox` is the store seen through its journal, without threads or locks: a change, its entry
and the events it calls for are one step; the events go out one by one in order, each to those who
followed the journal before the change; and no change, snapshot, restore or reset comes before the
last of them is out.  `FollowsOutbox` maps `saved` to the journals of the snapshots and `sent` to the events the listener
has handed on (`prepared`), each with its subscribers.  The maps of the store are not in it: that they agree with the journal is
`JournalIsTheSource`.

### FileDrop

A pass is the steps of `poll` and `_process` at which another thread or a kill can
come in: `List`, then per document `Read`, `Handle`, `Publish` (the rename into
`out`), `Move` (the rename into `processed`), then `EndPass` and, for a thread of
`start()`, `LoopTop`, the only place that looks at the stop event.  A document
that is gone reads as an unreadable one and is refused.  Two things kill the pass and its
thread (`Die`): a `Move` of a document that is gone, and a `Poisoned` document, one that is
readable JSON with a method and a path but whose `headers` or `query` is a string, a number or
another truthy value `dict()` refuses, outside the only `try` of `_process` (`ReadPoisoned`).  Such a document
stays in `in`, so every later pass dies on it too, and the owner still has the handle of the dead thread, so
that `start()` does nothing until somebody calls `stop()`.  `Stop` sets the event and forgets the handle;
`Joined` is its join, which returns when the thread is through or, with
`JoinExpires`, while a request is being handled.  The event is one for all threads: `Start`
clears it.  The owner polls by itself or lets a thread poll, which is how the
class is documented to be used.  `Crash` may happen at any moment: the directories
stay, the pollers and the unit are gone.  The partner drops documents in name order.

`history` is a history variable: what the units were asked to handle, with the
life each was in; an answer in `out` is the place of its request in it.

`AnsweredInbox` is what is left of this for a partner, with no pollers, batches or handles: the first
document that waits is handled unless it is malformed, answered by the unit that runs, and moved
aside, in this order and not twice by one unit; a poisoned one is never answered, and nothing behind it is;
a restart may come anywhere.  `FollowsInbox` takes `FileDrop`'s
variables as they are; whatever threads do to their batches is a stutter.

### SquareOrders

One action per handler, for each runs under the pipeline lock; a refused request
changes nothing and is no step.  The data is reduced to what the properties can
tell apart: a line or a fulfillment is `[uid, v]`, where `v` is what the line is worth
(0 is the line of quantity "0") or the state of the fulfillment.  Two things go with that: a line
that is free in some other quantity, which `Complete` would keep, and the details of a fulfillment, which
a patch without a state may rewrite or clear, of a finished one too.  So `ClosedIsFinal` says of finished fulfillments
that they keep their place, uid and state, and no more.  What is *not*
reduced is how lists are merged: `Merge` rebuilds the list from `by_uid` patch by
patch, entries of equal uid and all, `LineChanges` clears after it and spares the uids
this request assigned itself, and `UpdateOrder` runs it twice, as the code does:
once on a dry run with `Placeholders`, on which the tendered floor is asserted, and once
with the uids drawn from the stream, which it commits.  `drawn` is the id stream: the
k-th draw yields k.  `Complete` drops the zero lines.  `PayWithPayments` commits the
order with all its tenders and captures the payments after it; `PayOpaque` makes a tender of each
opaque id, the first of which carries the due; the due is asked again when a held payment is
completed.  A request leaves `line_items` out, states a list that is merged (an empty one too), or states
null (`Mentions`).

### CloverOrders

An order owns its total and a client may patch it to anything, below zero too, until
the first payment locks the order (`CreatePayment`).  A patch may set `paymentState` to
`OPEN` only, or repeat the one it has.  A deletion is soft.  Lines are counted, for their
number is bounded and the batch has to fit.

### ToastOrders

An order has checks, a check a total and a status; the payments name the check they
pay.  `Accepted` is `add_payment` over one accumulating batch: each element sees what the
elements before it put on its check.  `settle_order` is run by the same handlers as in the
code, and by no other: `AddSelections` does not run it.  A CREDIT payment is stored under
the guid of a seeded authorization and awaits its tip, an OTHER payment under a
fresh one and does not.

### LightspeedSales

A sale carries one quantity of one stocked product, its payments, its links and its version.
`UpdateSale` replaces the whole document: `BuildPayments` goes through the payments of
the body one by one, keeps the ids the body states, carries the id of a stored payment of
the same amount that is not taken yet, and mints one otherwise.  A write draws
versions where the code draws them, including the one `_build` draws and the mutator's
stamp replaces, and the one of the inventory record.  `CloseRegister` counts what `_amounts_taken`
counts: within the seconds since the till was opened, on sales that are not
voided, by id.  `Walk` is a consumer that pages through the sales by `version.max`.  `handed`
is a history variable: how often a caller has newly stated a payment.

### PointOfSale

The registry builds a unit for one vendor and it serves that vendor's routes for life, so
a step of a unit is a step of its vendor and leaves the entities of the others alone.
The module puts Clover, Toast and Lightspeed side by side with the properties of each.
It implements each of them, which is what carries their theorems over.

## Runs

| Run | What is asked | Bounds, and why they are enough |
|---|---|---|
| `worker` | FIFO, lost wake-ups, quiesce, refinement, liveness | 3 jobs, 2 callers: a job behind one that raised, a caller asleep while the other submits or stops; 146 thousand states |
| `delivery_virtual` | the whole path as `RetriedDelivery`; drain, advance and stop on a virtual clock | 2 events, 1 subscriber, one retry, delays and lost acknowledgements, one caller; 12 drain passes are more than these behaviours use, so "gave up" stays out of the way of `DrainSettles`; 319 thousand states |
| `delivery_reorder` | order of first attempts and of held deliveries | 2 events, 2 subscribers, duplicate, out_of_order, drop; 4 deliveries hold, release and drop in every order |
| `delivery_real` | late callbacks, raising sinks, a shrinking policy, a reset, a stop | 2 events, 1 retry; one pass of drain, so that a stop often comes early |
| `chaos` | counters and budgets | 3 ids, 4 documents, 3 evaluations: enough for every `nth`, `after`, `every`, `times` in the instance to bind, with rules edited in between |
| `pipeline` | the pipeline as `IdempotentService`; what a replay carries, request log, lock, budgets | 3 requests or resets by 2 threads, four routes (one without the lock, two that share a scope), log of 1 row: first request, retry, and one that interferes; 2.5 million states |
| `square` | what is tendered, captured and listed | 2 orders, 2 payments: two holds over one due, a payment held for the other order, a list of two; lines worth 0 or 2, payments of 1 or 2, so that a due is met exactly, in part, or not; 5 draws; per request one patched or cleared line or one fulfillment, or everything wiped; 2 entries stored at most, a fulfillment counting as two; 149 thousand states |
| `pointofsale` | paid orders, settled and voided checks, tills, stock, the walk | one vendor per unit, the three side by side.  Clover: 2 orders, 2 payments, totals -1, 0 and 2.  Toast: 2 orders of up to 2 checks, one OTHER id, one authorization, batches of 2.  Lightspeed: 2 sales, 1 till, one amount, 2 payments, 8 versions, 1 second, pages of 1: a till closed, reopened in the same second or the next, a sale replaced in between; 421 thousand states |
| `store` | the store as `EventOutbox`; the maps against the journal, the locks | 2 callers and the worker, 1 entity, 1 subscriber, both of the seed; 2 writes of handlers, 2 events per entry, 1 event asked for; a write beside a fan-out, beside a test delivery, inside a reset, after a restore.  Routes outside the pipeline lock write too; 3.5 million states |
| `filedrop` | the directories as `AnsweredInbox`; what is handled, answered and moved, in which order, and that it is unless a pass dies before it | 5 documents of which the second is malformed and the fourth poisoned, 2 threads and the polling owner, 2 crashes: a kill at every step, one in the life after it, a stop and a new start around it, with documents before and behind the one every pass dies on; 15 thousand states |

Two runs each refute one sentence of the documentation or a comment, by
something the code does:

| Run | The sentence | What happens |
|---|---|---|
| `minted_uid` | the dry merge sees exactly the lines the commit will, whatever the caller named | the caller named a line with the uid the stream yields next: the new line is merged into it, and the order ends below what was tendered |
| `stop_expires` | stop waits for the current pass and must not race a write | the join runs out behind a long request, and the thread polls on |

Eight more divergences are listed as findings without a run.  One is about data that is not modelled:
UpdateOrder rewrites or clears the details of a finished fulfillment when the patch states no
state, and never asks `assert_mutable` (`orders.py:1160` and 1575-1595, against `machine.py:191`).  The models show
the other seven, when the instance or the claim is changed as follows:

- two `out_of_order` deliveries in a row: the second overwrites the slot and the first is never
  sent: `RetriedDelivery` without the delivery that makes room in `Prepare`, or `NothingLost` without its
  exemption of what was `"overwritten"`, in the instance of `delivery_reorder`;
- a real-time drain returns while a popped timer has not submitted its retry: `DrainSettles` with
  `Virtual = FALSE`;
- a retry policy patched between the two reads of one attempt makes the job raise: the
  claim that `failures` stays empty, in the run `delivery_real`;
- deliveries of the old scenario are logged after a reset: the claim that the log has
  records of events emitted since the reset only, in the same run;
- `token_expiry` is drawn at step 3 and its budget is spent when step 5 refuses the
  caller: `FaultsArePaidOut` without its last exemption;
- a log row on an unserialized route names another request's commit: `LogTellsCommits`
  for all routes;
- a poisoned document kills the thread that polls and every later pass, and nothing behind it is
  answered, against "It records an unparseable request rather than crashing the poller"
  (`filedrop.py:41`): `AnsweredUnlessBlocked` without `Blocked`, in the run `filedrop`.

What the passing runs do not say, because the code does something else: `LogTellsCommits`
is about serialized routes; `DrainSettles` and `AdvanceCollapses` are checked on a virtual clock and
with one caller, for a second one may have taken a timer off the clock and not fired it yet when
the first one looks; `RetriedDelivery` and `NothingLost` exempt what a second `out_of_order` overwrites;
`HeldGoesSecond` is checked without `webhook.delay`, for a releaser that is itself delayed goes
later, and allows that the job of the later delivery raised and left no record; `MatchesAreOwn` is checked for rule sets with
distinct ids, which `add` guarantees and `replace` does not; `FaultsArePaidOut` exempts a
`token_expiry` whose caller was refused; the `square` run lets callers choose
uids the stream never yields (`minted_uid` is the other case); the `filedrop` run
has no request that outlasts the five seconds of `stop()` (`stop_expires` is the other
case), and `AnsweredUnlessBlocked` promises nothing to a poisoned document or one behind it; the `pointofsale` run lets callers state only payment ids they have read from the
sale, and leave payment dates to the unit: a sale of Lightspeed takes both as the caller gives
them, and an invented id or a date in the past can be any till's.  A payment that a PUT moves to
another till is counted by both, which is why the run has one till.

Some things read differently in the code and its comments and break no property:
Clover's bulk and modification routes draw ids before they can still refuse, against
"a refused request must not draw ids" (`clover/surface/orders.py:428`), and so does
Lightspeed's CreateSale (`sales.py:226`, against `sales.py:411`); Square's UpdateOrder may complete an
order that was never paid, where `square/machine.py` speaks of "Fully paid", and a
fulfillment of a DRAFT order may be completed.  `clover/machine.py:33` says of `paymentState` that
"this unit has no payments surface, so nothing moves it": it is older than `clover/surface/payments.py`.

Deadlock is checked in the runs of the worker, the deliveries, the chaos engine, the store and the
file drop.  It is not in `pipeline`, `square` and `pointofsale`, where bounded requests, ids and draws run out;
`NobodyStuck` states in `pipeline` that a request which was begun can always go on,
in some thread.

## Fairness

`DeliveryWorker`: weak fairness of the thread as a whole (its jobs end, because a
sink has a timeout) and of each caller that was notified.  No fairness of
submissions, stops or time-outs.  `WebhookDelivery`: weak fairness of the emitter
inside its lock, of the worker, of the timer threads, and of a caller inside its call.
Nobody has to emit, call, patch or reset.  `FileDrop`: weak fairness of every
poller's next step, for a thread that runs is scheduled and a handler is bounded code,
and of `Joined`, for a join returns once its thread is through.  Nobody has to start,
stop or drop, so `AnsweredUnlessBlocked` promises nothing to a document nobody polls for.
`RequestPipeline`, `Store`, `ChaosEngine` and the vendors have no liveness property: their steps
are bounded code under a lock.

## Proofs

`DeliveryWorkerProofs` proves, for any finite or infinite set of jobs and callers:

- `TypeCorrect`, `FifoExactlyOnce`, `WakeupsSuffice`, `QuiesceIsSound`, `StopIsClean`,
  `GenerationIsExact`: types, and the invariants `Conserved`, `NoLostWakeup`, `QuiesceCovers`
  (which the run `worker` checks), `StopFinishesQueue` and `GenerationCounts`;
- `WorkerIsSerialExecutor`: the refinement.

The only assumption is `WorkerAssumption`: the thread is not one of the callers, and
the empty hand is not a job.

The inductive invariant is `IInv`: the type invariant, `Phases`, and four of the
properties.  `Phases` says that `busy` is up exactly while a job is running, raised or
finishing and that there is a job in hand then, that an exited thread left a stopped
worker and an empty queue, and that nobody asked about jobs not accepted yet.  None of the
properties is inductive without it.  For example, `Conserved` needs it to know that
`Finish` completes the job it took, and `QuiesceCovers` needs `Conserved` to turn "queue
empty and not busy" into "as many completed as accepted".  Each conjunct has a lemma
with one step per action; `GenerationCounts` is added on top of `IInv`.  The
refinement maps `Submit` to `Accept`, `Finish` to `Run`, `Stop` to `Close`, a `quiesce` that
answers True to `Settle`, `Return` to `Forget`, and everything else to a stutter.

`WebhookDeliveryProofs` proves, for any number of events, subscribers, copies and callers, any
schedules and any of the faults, from `DeliveryAssumption`:

- `TypesCorrect`, `EveryChainAccounted` (`Accounted`), `TranscriptsContiguous`
  (`AttemptsContiguous`), `RunningLosesNothing` (`NothingLost`) and `FirstAttemptsAreOrdered`
  (`FirstAttemptsInOrder`), with nothing else assumed;
- `RetriesAreSpaced` (`RetriesSpaced`) where the clock is virtual: real time is not modelled;
- `DeliveriesFollowPolicy` (`FollowsPolicy`), that the whole path implements `RetriedDelivery`, with nothing
  else assumed;
- `HeldAreSecond` (`HeldGoesSecond`) where `webhook.delay` is not among the faults;
- `DrainsSettle` (`DrainSettles`) and `AdvancesCollapse` (`AdvanceCollapses`) where the clock is
  virtual and there is at most one caller.

The three delivery runs check all of these but `NothingLost` and `RetriesSpaced`, which say of the past what
`FollowsPolicy` says of each step.  What they rest on is `Inv`.  It has four parts:
`Types`; `Hands`, that a caller holds a job exactly while it is about to fire it; `Sorts`, which
jobs can be where (on the clock only retries and delayed attempts, so that nothing there counts
as `released`); and `Placed`.  `Placed` is `Accounted` seen as a partition: the nine `Places`
of a delivery are disjoint and make up `chains` (`Parts`), within the queue, the timers, the
callbacks and the hands each occurs once (`Once`), and what the fan-out has not come to is
not in `chains` yet (`Prepared`), which is what makes a new delivery new.  `StepKinds` reduces the
actions to twelve kinds of step by what they do to jobs; most actions are `Still` and move none.  A kind
moves one chain from one place to another (`MoveKeeps`), or moves one and adds some (`FlowKeeps`).

Every property then has its own strengthening on top of `Inv`:

- `Counted`: the retry number of a delivery that waits or runs is the number of its records so far.
  `Placed` keeps a delivery from being counted in two places, and `OnlyFailed` gives that whatever still
  goes on has only failed;
- `Stoppers`: who has come to the timers in `Unit.stop()` has stopped the worker;
- `Spaced`: the timer of a retry is due no earlier than the record before it allows, and what left
  the clock (`Ripe`) may be sent now;
- `Ordered`: the first attempts that no fault moved are in order from the log over the worker's hand to the end of the
  queue, and by `Known` and `Prepared` a new one comes after all of them;
- `Seconds`: a released delivery in the queue has an attempt of a later one before it, in the log, in hand or
  in the queue;
- `Settling`: what a call asked for is none of the lost or held ones while it is inside, and each time it
  looks or scans, it is over or on the clock.  The worker may be busy with something else by then:
  only a caller takes timers off a virtual clock, so what waits there stays there (`Grows`).

The refinement needs no further invariant: `Counted` gives the retry number, `Placed` that what is tried is
neither over nor lost (`Open`), `Spaced` that it is due where the clock is virtual, `Stoppers` that what a stop
throws away belongs to a stopped unit.  Each kind of step has a lemma that
says which step of `RetriedDelivery` it is: a fan-out or a release is `Prepare`, a record `Fail`, `Deliver`,
`Exhaust` or `Drop`, a job that raises because the policy shrank under it `Break`, a submission to a stopped worker
`Abandon`; the queue, the timers, drains and resets are stutters.

`RequestPipelineProofs` proves, for any threads, routes, calls, faults, rules and handlers:

- `KeyedRequestsExclude`: at most one request of the serialized routes is between
  steps 3 and 9;
- `KeysAreSafeToRetry`: the invariant `OneCommitPerKey`, of what all runs of handlers so far were; the run
  `pipeline` checks the refinement below, which forbids the same of each step;
- `DrawnFaultsArePaid`: `FaultsArePaidOut`, what was drawn is what the caller sees,
  whichever way the request left;
- `ReplaysAreTrue`: `ReplaysNameTheCommit`, a replay is the answer of a handler that ran;
- `LogRowsAreTrue`: `LogTellsCommits`, a row of the log names the commit of its request;
- `DrawnOnce`: `OneDrawPerRequest`, a rule fires once for each decision it made;
- `PipelineIsService` (`FollowsService`): to its callers the pipeline is an `IdempotentService`;
- `LockIsHeldInside`: whoever holds the pipeline lock is inside, on a serialized route, where
  no step waits for anybody.  That is what `NobodyStuck` rests on;
- `SelectionFollowsEngine`: whatever requests do, their fault selection is a behaviour of
  `ChaosEngine` (`Spec`; the pipeline's own is `PipelineSpec`).  Of every behaviour of that, with rules
  armed, removed, replaced and reset between evaluations, `CountersAreOwn` proves the run `chaos`'s
  `MatchesAreOwn` and `RulesFireAsPromised` its `FiredAsPromised`.

The assumptions are `PipelineAssumption` (what routes, calls and handlers look like),
`KeyedAssumption`, `WritersAssumption`, `EngineAssumption` (what rules look like) and
`RulesAssumption`, that the rules name the faults the pipeline applies.  `OneCommitPerKey` relates two runs of a handler in the past
and says nothing of what keeps a third one from starting, so `IInv` adds: `Mutex`, that
a request on a serialized route between steps 3 and 9 holds the lock; `Kept`, that
every keyed request handled and answered in the present scenario is on record, or in
a thread on its way to `Store`; `Fresh`, that whoever is about to run a handler finds no
record of its key; `Turns`, which numbers the handler's runs.  When `Handle` runs a
handler, `Fresh` leaves of `Kept` only another thread on its way to `Store`, which by
`Mutex` would hold the lock that this thread holds.  `StorePreserves` uses the same
argument the other way round.  The steps that touch neither the records nor the
handlers (3 to 7, 9, the shaping of errors) share the lemma `AdvancePreserves`;
`Arrive`, `Enter` and `Finish`, which cross the border of the lock, share
`BorderPreserves`.

The other four are about what a request carries along, and the action that breaks them is rarely
the one that shows it.  `Told` says of a request at each step what its answer can be, given its
decision: which faults screening has let pass, that an answer that was raised carries no
response fault yet, that only a failed payout is a diagnostic.  Each action has a lemma
(`ScreenGoes`, `PayOutGoes`, ...) that takes its request from one course to the next.  `History`
ties requests to the past: numbers identify requests (`Numbered`), the commits of a request and
the journal positions it read tell the same (`Past`), nobody else writes between the two
reads (`Window`, where the lock and `WritersAssumption` come in), every record was answered by a
handler of this scenario (`Backed`), and so was every replay (`Replayed`).  `Logged` follows, row by row.
`Draws` counts decisions by the numbers of their requests, so that a request on its way from
`request` to `answered` is not counted twice.

`PipelineIsService` adds `Owns` to all of these: an answer with a 2xx names the commit of a run of its own
request, or is a replay and its request has run nothing, and any other answer names no commit, whatever
response fault came between.  `Enter` is then `Ask`; `Handle` is `Run`, where `UnansweredYet` (the lemma
`KeysAreSafeToRetry` rests on) says the key is free and `Past` that the scenario is the one that let the request in; `Finish` is
`Answer`, `Replay` (by `ReplaysRun`) or `Decline`; everything else is a stutter.

The two theorems about `ChaosEngine` assume `DistinctLists`: no rule set given to `replace` has two rules with one id.  The code accepts such
a set, the two rules then share a counter, and `MatchesAreOwn` is false of them.  The invariant
`Armed` says with the counters that no id is armed twice: `RestartArms` serves every change of the rule
set, which restarts some rules and lets others go on, and `EvaluationCounts` what one evaluation leaves
in each counter.  `WithoutIs` shows of `Without` that it keeps just the rules with another id, for a list of any
length: their places can be put in ascending order (`PlacesAscend`, by induction).

`FileDropProofs` proves, for any documents, threads and number of crashes:

- `TypeCorrect`, `GoneAreAnswered` (`GoneMeansAnswered`), `HandlesInOrder`
  (`HandledInOrder`) and `StopsQuietly` (`StopIsQuiet`);
- `BindingIsInbox` (`FollowsInbox`), that the binding implements `AnsweredInbox`.

They assume `~JoinExpires`, that no request outlasts the wait of `stop()`; the run
`stop_expires` shows that without it the last one is false.  The inductive invariant `IInv`
says that at most one poller is awake and it is the one the owner knows of (`OnePoller`); what
each step of a pass may rely on, above all that the rest of a batch is the first
documents of `in`, in order (`Passes`); that the directories fill from behind and empty
from the front (`Sorted`); that of what this life handled only the document in hand is still in
`in` (`Handled`); that every answer is the unit's answer to that document
(`Answered`); and that the history is in order (`InOrder`).  `HandledInOrder` alone is not
inductive: that the next document comes after those of earlier passes is `Passes`,
`Sorted` and `Handled` together.  For the refinement, `Fresh` adds that the answer a poller has in
hand, and the one in `out` when it moves the request aside, are what this unit says to that document.

`StoreProofs` proves, for any callers, keys, seed, and number of events, with and without
routes outside the pipeline lock, from `StoreAssumption` alone:

- `TypeCorrect`: types, and `Phases`, which says of every thread what it may be doing where it
  is (`Ways`), what it has in hand (`Hands`), and which locks it holds (`Locked`): the request
  lock exactly at `queued`, the store lock exactly from the write of the map to the last event;
- `LocksAreOrdered` (`NoCircularWait`).  Of any set of threads, one waits for nobody in it: the
  holder of the request lock waits for nobody, that of the store lock at most for the
  request lock, that of the pipeline lock at most for those two; a thread that waits
  for the worker holds nothing;
- `JournalTells` (`JournalIsTheSource`), by `Traced`: the journal tells every key but the one a thread
  inside the store has just written, and so does every snapshot;
- `EventsFollow` (`EventsFollowJournal`), by `Events`: beside the property itself, a thread that is
  fanning out comes behind everything prepared so far, and the subscribers are still those of its
  entry (`Current`), because it has the store lock;
- `StoreIsOutbox` (`FollowsOutbox`), that the store implements `EventOutbox`.  The maps change before the
  journal does, so `Owed` says that what a thread has written and not journalled yet follows on the
  version the journal tells (`VersionTold`), which makes its `Append` a `Create`, `Update` or
  `Delete`; that nobody is fanning out then (`NobodyFansOut`) is what lets a change be one step with its
  events.  `EventsFollowJournal` is the same said of the past, and is not checked by a run of its own.

`PointOfSaleProofs` proves of Clover on its own, for any orders, payments, totals and amounts: `TypeCorrect`,
`PaymentStateIsRight` (`PaidTellsTheMoney`) and `MoneyKeepsItsOrder` (`PaidOrderStands`).
The invariant adds to `PaidTellsTheMoney` that a listed payment exists (`ListedAreTaken`), so that a new
payment is on no list and changes the sum of no other order.

`SquareOrdersProofs` proves, for any orders, payments, worths and bounds, and for requests of
any length: `TypeCorrect`, `TendersAreCaptures` (`TendersMatchCaptures`),
`TendersStayWithin` (`NeverOverTendered`), `LinesAlwaysAddUp` (`LinesAddUp`) and
`FinishedStays` (`ClosedIsFinal`).  It assumes `UidsApart`, that no caller chooses a uid
the stream yields; the run `minted_uid` shows `NeverOverTendered` false without it.  The
inductive invariant is `TypeOK` with three parts: each order is `Sound` (its lines add up, it is
not over-tendered, its uids are the callers' or were drawn, no two fulfillments share
one), the tenders of each order are the payments captured for it (`OrdersMatch`), and
payments point at orders that exist (`PaymentsPoint`).  The step that carries the weight is `UpdateOrder`: the floor was
asserted on the dry run, and the commit merges other uids.  The lemmas on
merged lists show that a merge commutes with a one-to-one renaming of uids, that
`UidsApart` makes the passage from placeholders to drawn uids such a renaming, that clears
spare both alike, and so that dry run and commit have the same total; and that dropping zero
lines changes no total.  Merges and sums are recursive functions over lists; what they do for every list is proved by
induction on its length, by way of `SetInduction`: a set of numbers that contains 0 and every
successor is `Nat`, because otherwise its complement had a least member.

`PointOfSaleProofs` proves that a unit implements each of its vendors: `UnitIsClover`,
`UnitIsToast` and `UnitIsLightspeed` (a step of the unit is a step of that vendor or leaves its
entities alone).  What holds of a vendor then holds of the unit, whose properties in the run
`pointofsale` are all proved, from `CloverAssumption` and `UnitAssumption` (finite sets of ids, integer amounts,
and a `None` that is no record):

- of Clover, `UnitTellsTheMoney` and `UnitKeepsPaidOrders`;
- of Toast, `UnitVoidsForGood` (`VoidedIsFinal`), `UnitStatusesTell` (`StatusTellsCoverage`) and
  `UnitKeepsToastTypes`.  `VoidInv` says the payments of a voided order are all voided.
  `CoverInv` adds that each payment is of an order that exists and that the status of each check,
  and whether its order is paid, is what its payments tell (`Told`).  The lemma `ToastSteps` reduces every handler to one form, a new record for one order
  that was not voided and changes to payments of that order only; then each handler has one
  lemma that it leaves its own order told;
- of Lightspeed, `UnitWalkMissesNothing`, `UnitStockBalances` and `UnitTillsCountOnce`;
- `UnitKeepsTypes`, the types of all three (`EntitiesTypeOK`).

The inductive invariant `LightspeedInv` has five parts.  `SaleInv`: types, versions at most the
last one drawn, ids at most the last one minted, the ids of a sale distinct, no date ahead of
the clock.  `WalkMissesNothing` is itself inductive given that, because a write gets a version above every cursor.
The stock equals the sum over the closed sales, which are final.  `NoneMissed`: a live payment of
a register is counted, or the register is open and was opened before it was taken.
`CountInv`, the hard one: the payments of an amount a till has counted, *plus* those the
sale now holds and the till has not counted, are no more than were handed over.  A closure moves
payments from the second term to the first; a PUT adds to the second at most what the
history adds (`FewFresh`), and that is where `_carried_payment_id` matters: an id is minted only
when every stored id of that amount is kept, so a request mints no more payments of an amount than
it has in excess of the stored sale.  `RequestBuilt` proves this of a request of any length, by induction over its payments.

Model-checked only: liveness (`EveryJobFinishes`, `EveryDeliveryEnds`, `CallsReturn`,
`AnsweredUnlessBlocked`) and `NobodyStuck`, which contains ENABLED, are out of the
prover's reach; of `NobodyStuck`, `LockIsHeldInside` is the part that can be proved.  Every other property of a
passing run is a theorem, under the assumptions named above.

## Not modelled

Of the core: the capability gate (step 2) and unmatched paths: they answer before
anything of interest happens.  The chaos capability is on.  A vendor without a signer.
Journal entries a seed writes.  Edits of the rule set while requests are in flight: the
pipeline's instance arms its rules at the start, edits are the business of the run
`chaos`.  The stall of the `timeout` fault, which moves a virtual clock under the
pipeline lock.  Of the store: pagination and digests; a restore of a snapshot that no unit
took, which may say anything; silent updates, which move no version and write no entry.  The ids
of events and subscriptions.  The capability registry, a set of names with a requires-chain.
Pure parsing, routing, shaping and configuration.

Of the vendors: versions and locations, tips, taxes, catalog and menus, customers, guest orders,
stock limits, OAuth tokens and their expiry, and all reads but Lightspeed's walk by
version.  Prices are reduced to the totals they give.  Handlers are one step, which the pipeline
lock justifies; a handler that raises after a commit is in `RequestPipeline`, not here.

Known to be hard, and not covered by any property: a releaser that is itself delayed, whose
held delivery then goes first (`dispatcher.py:577`); a row written into a log that
a reset has just cleared (`unit.py:865`); the id of a subscription, minted from the size of a
collection that deletions shrink (`plane.py:609`); the `timeout` fault, which moves a virtual clock
without waiting for the retries it causes (`faults.py:248`); the ring of the request log with requests in flight
(`unit.py:390`).  The hazards in `PROJECT.json` that have a note name the others.

## Plan

Done: 1 `SerialExecutor`, `DeliveryWorker` and its proofs; 2 `WebhookDelivery`;
3 `ChaosEngine`; 4 `RequestPipeline` and its proofs; 5 `FileDrop` with crash and restart, and its
proofs; 6 `StateMachine` and the orders, payments, sales and tills of the four vendors; 7 the
proofs about Square, Clover, Toast and the unit that serves them; 8 the proofs about Lightspeed;
9 `Store` with its listener and the order of the locks, and its proofs; 10 the proofs about
`WebhookDelivery`; 11 the proofs about what `RequestPipeline` answers, logs and draws, and about `ChaosEngine`;
12 the abstract specifications `RetriedDelivery`, `IdempotentService`, `EventOutbox` and `AnsweredInbox`, and the
proofs that their components implement them.

To do, in this order:

13. OAuth token life cycles; the capability registry with its requires-chains.
14. Pipeline and dispatcher composed: the `timeout` stall, and stop during requests; the file
    drop's at-least-once handling composed with the idempotency records.
