------------------------------- MODULE Store -------------------------------
(***************************************************************************)
(* core/state/store.py with the journal listener the webhook dispatcher    *)
(* puts on it: entities, the journal that is the source of every event,    *)
(* snapshot, restore and reset, and the three locks a request may take, in *)
(* this order: Unit._lock (pipeline), Store.lock (store) and               *)
(* WebhookDispatcher._request_lock (request).  The locks of the delivery   *)
(* worker, the clock, the chaos engine and the logs are never held across  *)
(* another acquire and are not modelled.  A silent update moves no version *)
(* and writes no entry: it leaves the model as it is.                      *)
(***************************************************************************)
EXTENDS Integers, Sequences, FiniteSets

CONSTANTS
  Callers,      \* the threads that call Unit.handle()
  Worker,       \* the delivery thread, whose sink may call back into the unit
  Entities,     \* the keys of the vendor's entities
  Subscribers,  \* the keys of the subscription collection
  Seed,         \* what _hydrate inserts, in order
  Unserialized, \* a fork has routes that write and declare serialized=False
  MaxEvents,    \* how many events the mapper may make of one entry
  MaxWrites,    \* bound: mutations by handlers in a behaviour
  MaxAsked,     \* bound: events asked for by emit and by test deliveries
  Free          \* nobody holds the lock

Threads == Callers \cup {Worker}
Keys == Entities \cup Subscribers
Locks == {"pipeline", "store", "request"}

ASSUME StoreAssumption ==
  /\ Worker \notin Callers /\ Free \notin Threads \cup Keys
  /\ Entities \cap Subscribers = {} /\ IsFiniteSet(Subscribers)
  /\ Seed \in Seq(Keys) /\ \A i, j \in DOMAIN Seed : Seed[i] = Seed[j] => i = j
  /\ Unserialized \in BOOLEAN
  /\ MaxEvents \in Nat /\ MaxWrites \in Nat /\ MaxAsked \in Nat

VARIABLES
  owner,     \* owner[l]: who holds lock l
  pc,        \* pc[t]: where thread t is
  job,       \* job[t]: what it is doing there
  seeding,   \* the place _hydrate has come to in Seed, 0 outside of it
  stored,    \* stored[k]: the version of the entity, 0 for none
  journal,   \* what was done to which key, [key, to]; its seq is its length
  saved,     \* the snapshot somebody holds, in a set; none at first
  prepared,  \* the dispatcher's _prepared: which event, and who gets it
  queue,     \* how many deliveries wait for the worker
  writes,    \* history: mutations by handlers so far
  due,       \* history: the events the journal calls for, each with those
             \* who were registered when it was journalled
  asked      \* history: events asked for by name so far

vars == <<owner, pc, job, seeding, stored, journal, saved, prepared, queue, writes, due,
          asked>>

(* way: the operation; event: its place in due, 0 for one that was asked    *)
(* for; left: the events still to fan out, that one included; to: who gets *)
(* it.                                                                     *)
Job(way, key, event, left, to) ==
  [way |-> way, key |-> key, event |-> event, left |-> left, to |-> to]
NoJob == Job("none", Free, 0, 0, {})
Entry(k, version) == [key |-> k, to |-> version]

Init ==
  /\ owner = [l \in Locks |-> Free]
  /\ pc = [t \in Threads |-> "idle"] /\ job = [t \in Threads |-> NoJob] /\ seeding = 0
  /\ stored = [k \in Keys |-> IF \E i \in DOMAIN Seed : Seed[i] = k THEN 1 ELSE 0]
  /\ journal = [i \in DOMAIN Seed |-> Entry(Seed[i], 1)]
  /\ saved = {} /\ prepared = <<>> /\ queue = 0
  /\ writes = 0 /\ due = <<>> /\ asked = 0

At(t, place) == pc[t] = place
Holds(t, lock) == owner[lock] = t
Take(t, lock) == owner[lock] = Free /\ owner' = [owner EXCEPT ![lock] = t]
Release(lock) == owner' = [owner EXCEPT ![lock] = Free]

(* The lock is held for this step only. *)
Passes(t, lock) == owner[lock] \in {Free, t}

Go(t, place, doing) ==
  /\ pc' = [pc EXCEPT ![t] = place]
  /\ job' = [job EXCEPT ![t] = doing]

Registered == {s \in Subscribers : stored[s] > 0}

data == <<stored, journal, saved>>
sends == <<prepared, queue, due>>
counts == <<writes, asked>>

-----------------------------------------------------------------------------
(* Routes.                                                                 *)

(* The consumer a delivery reaches may call the unit before it answers.    *)
Arrive(t) ==
  /\ At(t, IF t = Worker THEN "sending" ELSE "idle")
  /\ Go(t, "matched", NoJob)
  /\ UNCHANGED <<owner, seeding, data, sends, counts>>

Enter(t) ==
  /\ At(t, "matched") /\ Take(t, "pipeline")
  /\ Go(t, "running", NoJob)
  /\ UNCHANGED <<seeding, data, sends, counts>>

EnterBeside(t) ==
  /\ Unserialized /\ At(t, "matched")
  /\ Go(t, "running", NoJob)
  /\ UNCHANGED <<owner, seeding, data, sends, counts>>

Leave(t) ==
  /\ At(t, "running")
  /\ Go(t, IF t = Worker THEN "sending" ELSE "idle", NoJob)
  /\ IF Holds(t, "pipeline") THEN Release("pipeline") ELSE UNCHANGED owner
  /\ UNCHANGED <<seeding, data, sends, counts>>

-----------------------------------------------------------------------------
(* Collection.insert, update and delete: the store lock, then the map,     *)
(* then the journal.  A refused one leaves no trace.                       *)

Write(t, k, version, way) ==
  /\ Take(t, "store")
  /\ stored' = [stored EXCEPT ![k] = version]
  /\ Go(t, "written", Job(way, k, 0, 0, {}))
  /\ UNCHANGED <<seeding, journal, saved, sends, asked>>

HandlerWrites(t, k, version) ==
  /\ At(t, "running") /\ writes < MaxWrites
  /\ Write(t, k, version, "write")
  /\ writes' = writes + 1

Insert(t, k) == stored[k] = 0 /\ HandlerWrites(t, k, 1)
Update(t, k) == stored[k] > 0 /\ HandlerWrites(t, k, stored[k] + 1)
Delete(t, k) == stored[k] > 0 /\ HandlerWrites(t, k, 0)

(* Back to the handler, or to _hydrate. *)
Return(t) == Go(t, IF job[t].way = "seed" THEN "seeding" ELSE "running", NoJob)

(* Entries of the seed and of the subscription collection fire nothing.    *)
Fires(t) == job[t].way = "write" /\ job[t].key \notin Subscribers

AppendEntry(t) == journal' = Append(journal, Entry(job[t].key, stored[job[t].key]))

(* append_journal() with a listener that makes nothing of the entry: it    *)
(* does not fire, the mapper knows no event for it, or it raises.          *)
Append_Silent(t) ==
  /\ At(t, "written") /\ AppendEntry(t)
  /\ Return(t) /\ Release("store")
  /\ seeding' = IF job[t].way = "seed" THEN seeding + 1 ELSE seeding
  /\ UNCHANGED <<stored, saved, sends, counts>>

(* append_journal(), and n events for the listener to prepare. *)
Fire(t, n) ==
  /\ At(t, "written") /\ Fires(t) /\ AppendEntry(t)
  /\ due' = due \o [i \in 1..n |-> Registered]
  /\ Go(t, "mapping", Job("write", job[t].key, Len(due) + 1, n, {}))
  /\ UNCHANGED <<seeding, stored, saved, prepared, queue, counts>>

(* The lock let go before the listeners are called. *)
ReleaseThenFire(t, n) == Fire(t, n) /\ Release("store")

Append_Fires(t, n) == Fire(t, n) /\ UNCHANGED owner

-----------------------------------------------------------------------------
(* The dispatcher.                                                         *)

(* _prepare: each id is minted under the request lock. *)
Prepare(t) ==
  /\ At(t, "mapping") /\ Passes(t, "request")
  /\ Go(t, "resolving", job[t])
  /\ UNCHANGED <<owner, seeding, data, sends, counts>>

SendTo(t, to) ==
  Go(t, "queueing", Job(job[t].way, job[t].key, job[t].event, job[t].left, to))

(* enqueue(): who gets the event, decided before the request lock. *)
Resolve(t) ==
  /\ At(t, "resolving") /\ Passes(t, "store")
  /\ SendTo(t, Registered)
  /\ UNCHANGED <<owner, seeding, data, sends, counts>>

(* enqueue_to() with the subscription looked up inside the request lock.   *)
ResolveTargetInside(t) ==
  /\ At(t, "targeting")
  /\ \/ Take(t, "request") /\ UNCHANGED <<pc, job>>
     \/ /\ Holds(t, "request") /\ Passes(t, "store") /\ Release("request")
        /\ SendTo(t, {job[t].key})
  /\ UNCHANGED <<seeding, data, sends, counts>>

(* enqueue_to(): the subscription that was named, if it is still there. *)
ResolveTarget(t) ==
  /\ At(t, "targeting") /\ Passes(t, "store")
  /\ IF job[t].key \in Registered THEN SendTo(t, {job[t].key})
                                  ELSE Go(t, "draining", job[t])
  /\ UNCHANGED <<owner, seeding, data, sends, counts>>

TakeRequestLock(t) ==
  /\ At(t, "queueing") /\ Take(t, "request")
  /\ Go(t, "queued", job[t])
  /\ UNCHANGED <<seeding, data, sends, counts>>

(* _queue() once for each subscriber. *)
QueueAll(t) ==
  /\ At(t, "queued")
  /\ prepared' = Append(prepared, [event |-> job[t].event, to |-> job[t].to])
  /\ queue' = queue + Cardinality(job[t].to)
  /\ UNCHANGED <<seeding, data, due, counts>>

Queue_More(t) ==
  /\ QueueAll(t) /\ job[t].left > 1
  /\ Release("request")
  /\ Go(t, "resolving", Job("write", job[t].key, job[t].event + 1, job[t].left - 1, {}))

(* The store lock of a journal write goes when its last event is out.      *)
Queue_Last(t) ==
  /\ QueueAll(t) /\ job[t].left = 1
  /\ owner' = [owner EXCEPT !["request"] = Free, !["store"] = IF @ = t THEN Free ELSE @]
  /\ Go(t, "running", NoJob)

Queue_Test(t) ==
  /\ QueueAll(t) /\ job[t].left = 0
  /\ Release("request")
  /\ Go(t, "draining", job[t])

(* POST /__unit/webhooks/emit *)
Emit(t) ==
  /\ At(t, "running") /\ asked < MaxAsked
  /\ asked' = asked + 1
  /\ Go(t, "resolving", Job("emit", Free, 0, 1, {}))
  /\ UNCHANGED <<owner, seeding, data, sends, writes>>

(* Square's test delivery, not serialized: the subscription must exist.    *)
TestSubscription(t, s) ==
  /\ At(t, "idle") /\ asked < MaxAsked
  /\ Passes(t, "store") /\ s \in Registered
  /\ asked' = asked + 1
  /\ Go(t, "targeting", Job("test", s, 0, 0, {}))
  /\ UNCHANGED <<owner, seeding, data, sends, writes>>

(* POST /__unit/webhooks/drain, not serialized. *)
Drain(t) ==
  /\ At(t, "idle")
  /\ Go(t, "draining", Job("drain", Free, 0, 0, {}))
  /\ UNCHANGED <<owner, seeding, data, sends, counts>>

(* The worker has nothing left, or the test delivery has waited enough. *)
Drained(t) ==
  /\ At(t, "draining")
  /\ job[t].way = "drain" => queue = 0 /\ At(Worker, "idle")
  /\ Go(t, "idle", NoJob)
  /\ UNCHANGED <<owner, seeding, data, sends, counts>>

Send ==
  /\ At(Worker, "idle") /\ queue > 0
  /\ queue' = queue - 1
  /\ Go(Worker, "sending", NoJob)
  /\ UNCHANGED <<owner, seeding, data, prepared, due, counts>>

Sent ==
  /\ At(Worker, "sending")
  /\ Go(Worker, "idle", NoJob)
  /\ UNCHANGED <<owner, seeding, data, sends, counts>>

-----------------------------------------------------------------------------
(* The control routes over the whole store, all of them serialized.        *)

InControl(t) == At(t, "running") /\ Holds(t, "pipeline") /\ Passes(t, "store")

Snapshot(t) ==
  /\ InControl(t)
  /\ saved' = {[stored |-> stored, journal |-> journal]}
  /\ UNCHANGED <<owner, pc, job, seeding, stored, journal, sends, counts>>

(* The entities alone, and the journal left as it was. *)
RestoreEntities(t, snapshot) ==
  /\ InControl(t) /\ snapshot \in saved
  /\ stored' = snapshot.stored
  /\ UNCHANGED <<owner, pc, job, seeding, journal, saved, sends, counts>>

(* Listeners are not told. *)
Restore(t, snapshot) ==
  /\ InControl(t) /\ snapshot \in saved
  /\ stored' = snapshot.stored /\ journal' = snapshot.journal
  /\ UNCHANGED <<owner, pc, job, seeding, saved, sends, counts>>

(* _hydrate: reset(), then one insert for each seeded key. *)
Reset(t) ==
  /\ InControl(t)
  /\ stored' = [k \in Keys |-> 0] /\ journal' = <<>>
  /\ seeding' = 1 /\ Go(t, "seeding", NoJob)
  /\ UNCHANGED <<owner, saved, sends, counts>>

SeedNext(t) ==
  /\ At(t, "seeding") /\ seeding \in DOMAIN Seed
  /\ stored[Seed[seeding]] = 0
  /\ Write(t, Seed[seeding], 1, "seed")
  /\ UNCHANGED writes

(* A write beside the reset took the id of a subscriber: it stays as it is. *)
SeedSkips(t) ==
  /\ At(t, "seeding") /\ Passes(t, "store")
  /\ seeding \in DOMAIN Seed /\ Seed[seeding] \in Subscribers
  /\ stored[Seed[seeding]] > 0
  /\ seeding' = seeding + 1
  /\ UNCHANGED <<owner, pc, job, data, sends, counts>>

(* It took the id of an entity, or came between has() and insert(): a      *)
(* conflict, which ends the reset where it is.                             *)
SeedConflicts(t) ==
  /\ At(t, "seeding") /\ Passes(t, "store")
  /\ seeding \in DOMAIN Seed /\ stored[Seed[seeding]] > 0
  /\ seeding' = 0 /\ Go(t, "running", NoJob)
  /\ UNCHANGED <<owner, data, sends, counts>>

Seeded(t) ==
  /\ At(t, "seeding") /\ seeding > Len(Seed)
  /\ seeding' = 0 /\ Go(t, "running", NoJob)
  /\ UNCHANGED <<owner, data, sends, counts>>

-----------------------------------------------------------------------------
Serves(t) == Arrive(t) \/ Enter(t) \/ EnterBeside(t) \/ Leave(t) \/ Emit(t)

Mutates(t) ==
  \/ \E k \in Keys : Insert(t, k) \/ Update(t, k) \/ Delete(t, k)
  \/ Append_Silent(t) \/ \E n \in 1..MaxEvents : Append_Fires(t, n)

Controls(t) ==
  \/ Snapshot(t) \/ (\E snapshot \in saved : Restore(t, snapshot)) \/ Reset(t)
  \/ SeedNext(t) \/ SeedSkips(t) \/ SeedConflicts(t) \/ Seeded(t)

Dispatches(t) ==
  \/ Prepare(t) \/ Resolve(t) \/ TakeRequestLock(t)
  \/ Queue_More(t) \/ Queue_Last(t)

Tests(c) ==
  \/ \E s \in Subscribers : TestSubscription(c, s)
  \/ ResolveTarget(c) \/ Queue_Test(c) \/ Drain(c) \/ Drained(c)

Next ==
  \/ \E t \in Threads : Serves(t) \/ Mutates(t) \/ Controls(t) \/ Dispatches(t)
  \/ \E c \in Callers : Tests(c)
  \/ Send \/ Sent

Spec == Init /\ [][Next]_vars

-----------------------------------------------------------------------------
(* Every variable is of its type. *)
Pcs == {"idle", "matched", "running", "written", "mapping", "resolving", "queueing",
        "queued", "targeting", "draining", "seeding", "sending"}
Jobs == [way : {"none", "write", "seed", "emit", "test", "drain"},
         key : Keys \cup {Free}, event : Nat, left : Nat, to : SUBSET Subscribers]
Logs == Seq([key : Keys, to : Nat])

TypeOK ==
  /\ owner \in [Locks -> Threads \cup {Free}]
  /\ pc \in [Threads -> Pcs] /\ job \in [Threads -> Jobs] /\ seeding \in Nat
  /\ stored \in [Keys -> Nat] /\ journal \in Logs
  /\ saved \subseteq [stored : [Keys -> Nat], journal : Logs]
  /\ prepared \in Seq([event : Nat, to : SUBSET Subscribers])
  /\ due \in Seq(SUBSET Subscribers)
  /\ queue \in Nat /\ writes \in Nat /\ asked \in Nat

(* "the journal is the event source, not decoration" (store.py:8): as long *)
(* as nobody is inside the store, the last entry of every entity tells its *)
(* version, and what has no entry is not there: across deletions, restores *)
(* and resets, and beside writes that take no pipeline lock.               *)
Tells(log, k, version) ==
  \/ version = 0 /\ \A i \in DOMAIN log : log[i].key # k
  \/ \E i \in DOMAIN log : /\ log[i] = Entry(k, version)
                           /\ \A j \in DOMAIN log : j > i => log[j].key # k

JournalIsTheSource ==
  owner["store"] = Free => \A k \in Keys : Tells(journal, k, stored[k])

(* "an event can never exist for a mutation that did not commit, and a     *)
(* vendor handler can never forget to emit one" (store.py:11): the events  *)
(* prepared are those the journal calls for, in its order, each for whom   *)
(* the subscribers were when it was journalled, whatever routes run beside *)
(* each other; missing are only those a thread is about to prepare.        *)
Dispatching(t, n) ==
  /\ job[t].way = "write" /\ pc[t] \in {"mapping", "resolving", "queueing", "queued"}
  /\ job[t].event <= n /\ n < job[t].event + job[t].left

EventsFollowJournal ==
  /\ \A i \in DOMAIN prepared :
       prepared[i].event > 0 =>
         /\ prepared[i].event \in DOMAIN due
         /\ prepared[i].to = due[prepared[i].event]
         /\ \A j \in DOMAIN prepared : j < i => prepared[j].event < prepared[i].event
  /\ \A n \in DOMAIN due : \/ \E i \in DOMAIN prepared : prepared[i].event = n
                           \/ \E t \in Threads : Dispatching(t, n)

(* Whatever threads write, fan out, restore and reset beside each other:   *)
(* seen through the journal, every change and its events are one step, and *)
(* the next one waits until they are out (store.py:8-14).                  *)
SavedLogs == {s.journal : s \in saved}
PreparedOfJournal == {prepared[i] : i \in {k \in DOMAIN prepared : prepared[k].event > 0}}

Outbox == INSTANCE EventOutbox WITH saved <- SavedLogs, sent <- PreparedOfJournal

FollowsOutbox == Outbox!Spec

(* The locks t may have to wait for where it is. *)
Needs(t) ==
  CASE pc[t] = "matched" -> {"pipeline"}
    [] pc[t] \in {"running", "seeding", "resolving", "targeting"} -> {"store"}
    [] pc[t] \in {"mapping", "queueing"} -> {"request"}
    [] OTHER -> {}

(* Whom t may have to wait for; a test delivery waits for a time only. *)
WaitsFor(t) ==
  ({owner[l] : l \in Needs(t)} \ {t, Free})
    \cup (IF At(t, "draining") /\ job[t].way = "drain" THEN {Worker} ELSE {})

(* The lock order of dispatcher.py:464: no threads ever wait for each      *)
(* other in a circle, be it through the locks or through a drain that      *)
(* waits for the worker, whose consumer waits for a route.                 *)
NoCircularWait ==
  \A S \in SUBSET Threads : S # {} => \E t \in S : WaitsFor(t) \cap S = {}
=============================================================================
