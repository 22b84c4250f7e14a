---------------------------- MODULE StoreProofs ----------------------------
(***************************************************************************)
(* The journal, the events and the lock order of Store, for any callers,   *)
(* keys, seed, number of events and bounds.                                *)
(***************************************************************************)
EXTENDS Store, FiniteSetTheorems, SequenceTheorems, TLAPS

Sending == {"mapping", "resolving", "queueing", "queued"}

(* What a thread may be doing at each place. *)
Ways(t) ==
  /\ pc[t] \in {"idle", "matched", "running", "seeding", "sending"} => job[t].way = "none"
  /\ At(t, "written") => job[t].way \in {"write", "seed"}
  /\ At(t, "mapping") => job[t].way = "write"
  /\ At(t, "resolving") => job[t].way \in {"write", "emit"}
  /\ pc[t] \in {"queueing", "queued"} => job[t].way \in {"write", "emit", "test"}
  /\ At(t, "targeting") => job[t].way = "test"
  /\ At(t, "draining") => job[t].way \in {"test", "drain"}

(* What it has in hand there. *)
Fanning(t) == job[t].way = "write" /\ pc[t] \in Sending

Hands(t) ==
  /\ job[t].way \in {"write", "seed"} => job[t].key \in Keys
  /\ job[t].way = "test" => job[t].key \in Subscribers /\ job[t].left = 0
  /\ job[t].way = "emit" => job[t].left = 1
  /\ IF Fanning(t)
       THEN /\ job[t].event > 0 /\ job[t].left > 0
            /\ job[t].event + job[t].left = Len(due) + 1
       ELSE job[t].event = 0
  /\ At(t, "draining") => t # Worker

(* Which locks it holds there. *)
Locked(t) ==
  /\ Holds(t, "request") <=> At(t, "queued")
  /\ Holds(t, "store") <=> job[t].way \in {"write", "seed"}
  /\ Holds(t, "pipeline") =>
       /\ pc[t] \notin {"idle", "matched", "sending", "targeting", "draining"}
       /\ job[t].way # "test"

Phases == \A t \in Threads : Ways(t) /\ Hands(t) /\ Locked(t)

LEMMA JobTyped ==
  ASSUME NEW way \in {"none", "write", "seed", "emit", "test", "drain"},
         NEW key \in Keys \cup {Free}, NEW event \in Nat, NEW left \in Nat,
         NEW to \in SUBSET Subscribers
  PROVE  Job(way, key, event, left, to) \in Jobs
  BY DEF Job, Jobs

LEMMA NoJobTyped == NoJob \in Jobs
  BY JobTyped DEF NoJob

LEMMA FieldsTyped ==
  ASSUME NEW j \in Jobs
  PROVE  /\ j.way \in {"none", "write", "seed", "emit", "test", "drain"}
         /\ j.key \in Keys \cup {Free} /\ j.event \in Nat /\ j.left \in Nat
         /\ j.to \in SUBSET Subscribers
  BY DEF Jobs

(* A step of one thread keeps the types of pc and job. *)
LEMMA GoTyped ==
  ASSUME TypeOK, NEW t \in Threads, NEW place \in Pcs, NEW doing \in Jobs,
         Go(t, place, doing)
  PROVE  pc' \in [Threads -> Pcs] /\ job' \in [Threads -> Jobs]
  BY DEF TypeOK, Go

LEMMA TypeStep == TypeOK /\ Phases /\ [Next]_vars => TypeOK'
<1> SUFFICES ASSUME TypeOK, Phases, [Next]_vars PROVE TypeOK'
  OBVIOUS
<1> USE StoreAssumption DEF TypeOK, data, sends, counts, Pcs, Take, Release, Locks
<1> HIDE DEF Pcs
<1>a. Registered \in SUBSET Subscribers
  BY DEF Registered
<1>b. \A t \in Threads : job[t] \in Jobs
  OBVIOUS
<1>c. Callers \subseteq Threads /\ Worker \in Threads
  BY DEF Threads
<1>1. ASSUME NEW t \in Threads, Serves(t) PROVE TypeOK'
  <2>1. CASE Arrive(t) \/ Enter(t) \/ EnterBeside(t)
    <3>1. Go(t, "matched", NoJob) \/ Go(t, "running", NoJob)
      BY <2>1 DEF Arrive, Enter, EnterBeside
    <3>2. pc' \in [Threads -> Pcs] /\ job' \in [Threads -> Jobs]
      BY <3>1, GoTyped, NoJobTyped DEF Pcs
    <3> QED
      BY <2>1, <3>2 DEF Arrive, Enter, EnterBeside
  <2>2. CASE Leave(t)
    <3>1. pc' \in [Threads -> Pcs] /\ job' \in [Threads -> Jobs]
      BY <2>2, GoTyped, NoJobTyped DEF Pcs, Leave
    <3> QED
      BY <2>2, <3>1 DEF Leave
  <2>3. CASE Emit(t)
    <3>1. pc' \in [Threads -> Pcs] /\ job' \in [Threads -> Jobs]
      BY <2>3, GoTyped, JobTyped DEF Pcs, Emit
    <3> QED
      BY <2>3, <3>1 DEF Emit
  <2> QED
    BY <1>1, <2>1, <2>2, <2>3 DEF Serves
<1>2. ASSUME NEW t \in Threads, NEW k \in Keys, Insert(t, k) \/ Update(t, k) \/ Delete(t, k)
      PROVE  TypeOK'
  <2>1. PICK version \in Nat : HandlerWrites(t, k, version)
    BY <1>2 DEF Insert, Update, Delete
  <2>2. pc' \in [Threads -> Pcs] /\ job' \in [Threads -> Jobs]
    BY <2>1, GoTyped, JobTyped DEF Pcs, HandlerWrites, Write
  <2> QED
    BY <2>1, <2>2 DEF HandlerWrites, Write
<1>3. ASSUME NEW t \in Threads, AppendEntry(t), At(t, "written")
      PROVE  journal' \in Logs
  <2>1. job[t].key \in Keys
    BY <1>3 DEF Phases, Ways, Hands
  <2> QED
    BY <1>3, <2>1, AppendProperties DEF Entry, Logs, AppendEntry
<1>4. ASSUME NEW t \in Threads, Append_Silent(t) PROVE TypeOK'
  <2>1. pc' \in [Threads -> Pcs] /\ job' \in [Threads -> Jobs]
    BY <1>4, GoTyped, NoJobTyped DEF Pcs, Append_Silent, Return
  <2> QED
    BY <1>3, <1>4, <2>1 DEF Append_Silent
<1>5. ASSUME NEW t \in Threads, NEW n \in 1..MaxEvents, Append_Fires(t, n) PROVE TypeOK'
  <2>1. Len(due) + 1 \in Nat /\ n \in Nat
    BY LenProperties
  <2>2. pc' \in [Threads -> Pcs] /\ job' \in [Threads -> Jobs]
    BY <1>5, <1>b, <2>1, GoTyped, JobTyped, FieldsTyped DEF Pcs, Append_Fires, Fire
  <2>3. due' \in Seq(SUBSET Subscribers)
    <3>1. [i \in 1..n |-> Registered] \in Seq(SUBSET Subscribers)
      BY <1>a, <2>1
    <3> QED
      BY <1>5, <3>1, ConcatProperties DEF Append_Fires, Fire
  <2> QED
    BY <1>3, <1>5, <2>2, <2>3 DEF Append_Fires, Fire
<1>6. ASSUME NEW t \in Threads, Controls(t) PROVE TypeOK'
  <2>1. CASE Snapshot(t) \/ \E snapshot \in saved : Restore(t, snapshot)
    BY <2>1 DEF Snapshot, Restore
  <2>2. CASE Reset(t)
    <3>1. pc' \in [Threads -> Pcs] /\ job' \in [Threads -> Jobs]
      BY <2>2, GoTyped, NoJobTyped DEF Pcs, Reset
    <3>2. << >> \in Logs
      BY EmptySeq DEF Logs
    <3> QED
      BY <2>2, <3>1, <3>2 DEF Reset
  <2>3. CASE SeedNext(t)
    <3>1. Seed[seeding] \in Keys
      BY <2>3, ElementOfSeq DEF SeedNext
    <3>2. pc' \in [Threads -> Pcs] /\ job' \in [Threads -> Jobs]
      BY <2>3, <3>1, GoTyped, JobTyped DEF Pcs, SeedNext, Write
    <3> QED
      BY <2>3, <3>1, <3>2 DEF SeedNext, Write
  <2>4. CASE SeedSkips(t)
    BY <2>4 DEF SeedSkips
  <2>5. CASE SeedConflicts(t) \/ Seeded(t)
    <3>1. pc' \in [Threads -> Pcs] /\ job' \in [Threads -> Jobs]
      BY <2>5, GoTyped, NoJobTyped DEF Pcs, SeedConflicts, Seeded
    <3> QED
      BY <2>5, <3>1 DEF SeedConflicts, Seeded
  <2> QED
    BY <1>6, <2>1, <2>2, <2>3, <2>4, <2>5 DEF Controls
<1>7. ASSUME NEW t \in Threads, Prepare(t) \/ Resolve(t) \/ TakeRequestLock(t)
      PROVE  TypeOK'
  <2>1. PICK place \in Pcs, doing \in Jobs : Go(t, place, doing)
    BY <1>7, <1>a, <1>b, JobTyped, FieldsTyped DEF Pcs, Prepare, Resolve, SendTo, TakeRequestLock
  <2>2. pc' \in [Threads -> Pcs] /\ job' \in [Threads -> Jobs]
    BY <2>1, GoTyped
  <2> QED
    BY <1>7, <2>2 DEF Prepare, Resolve, TakeRequestLock
<1>8. ASSUME NEW t \in Threads, QueueAll(t)
      PROVE  /\ prepared' \in Seq([event : Nat, to : SUBSET Subscribers])
             /\ queue' \in Nat
  <2>1. [event |-> job[t].event, to |-> job[t].to] \in [event : Nat, to : SUBSET Subscribers]
    BY <1>b, FieldsTyped
  <2>2. Cardinality(job[t].to) \in Nat
    BY <1>b, FieldsTyped, FS_Subset, FS_CardinalityType
  <2> QED
    BY <1>8, <2>1, <2>2, AppendProperties DEF QueueAll
<1>9. ASSUME NEW t \in Threads, Queue_More(t) \/ Queue_Last(t) \/ Queue_Test(t)
      PROVE  TypeOK'
  <2>1. PICK place \in Pcs, doing \in Jobs : Go(t, place, doing)
    <3>1. ASSUME Queue_More(t)
          PROVE  Job("write", job[t].key, job[t].event + 1, job[t].left - 1, {}) \in Jobs
      <4>1. /\ job[t].key \in Keys \cup {Free}
            /\ job[t].event + 1 \in Nat /\ job[t].left - 1 \in Nat
        BY <1>b, <3>1, FieldsTyped DEF Queue_More
      <4> QED
        BY <4>1, JobTyped
    <3> QED
      BY <1>9, <1>b, <3>1, NoJobTyped DEF Pcs, Queue_More, Queue_Last, Queue_Test
  <2>2. pc' \in [Threads -> Pcs] /\ job' \in [Threads -> Jobs]
    BY <2>1, GoTyped
  <2>3. QueueAll(t) /\ owner' \in [Locks -> Threads \cup {Free}]
    BY <1>9 DEF Queue_More, Queue_Last, Queue_Test
  <2> QED
    BY <1>8, <2>2, <2>3 DEF QueueAll
<1>10. ASSUME NEW c \in Callers, Tests(c), ~Queue_Test(c) PROVE TypeOK'
  <2>1. PICK place \in Pcs, doing \in Jobs : Go(c, place, doing)
    <3>1. \A s \in Subscribers : TestSubscription(c, s) => Go(c, "targeting", Job("test", s, 0, 0, {}))
      BY DEF TestSubscription
    <3>2. Drain(c) => Go(c, "draining", Job("drain", Free, 0, 0, {}))
      BY DEF Drain
    <3>3. Drained(c) => Go(c, "idle", NoJob)
      BY DEF Drained
    <3>4. ResolveTarget(c) =>
            \/ Go(c, "draining", job[c])
            \/ /\ job[c].key \in Subscribers
               /\ Go(c, "queueing", Job(job[c].way, job[c].key, job[c].event, job[c].left, {job[c].key}))
      BY DEF ResolveTarget, SendTo, Registered
    <3>5. \A s \in Subscribers : Job("test", s, 0, 0, {}) \in Jobs
      BY JobTyped DEF Keys
    <3>6. Job("drain", Free, 0, 0, {}) \in Jobs
      BY JobTyped
    <3>7. job[c].key \in Subscribers =>
            Job(job[c].way, job[c].key, job[c].event, job[c].left, {job[c].key}) \in Jobs
      <4>1. job[c] \in Jobs
        BY <1>b, <1>c
      <4>2. job[c].key \in Subscribers => {job[c].key} \in SUBSET Subscribers
        OBVIOUS
      <4> QED
        BY <4>1, <4>2, JobTyped, FieldsTyped
    <3> QED
      BY <1>10, <1>b, <1>c, <3>1, <3>2, <3>3, <3>4, <3>5, <3>6, <3>7, NoJobTyped DEF Pcs, Tests
  <2>2. pc' \in [Threads -> Pcs] /\ job' \in [Threads -> Jobs]
    BY <1>c, <2>1, GoTyped
  <2> QED
    BY <1>10, <2>2 DEF Tests, TestSubscription, Drain, Drained, ResolveTarget
<1>11. ASSUME Send \/ Sent PROVE TypeOK'
  <2>1. pc' \in [Threads -> Pcs] /\ job' \in [Threads -> Jobs]
    BY <1>11, <1>c, GoTyped, NoJobTyped DEF Pcs, Send, Sent
  <2> QED
    BY <1>11, <2>1 DEF Send, Sent
<1>12. ASSUME UNCHANGED vars PROVE TypeOK'
  BY <1>12 DEF vars
<1> QED
  BY <1>1, <1>2, <1>4, <1>5, <1>6, <1>7, <1>9, <1>10, <1>11, <1>12, <1>c
     DEF Next, Mutates, Dispatches, Tests
-----------------------------------------------------------------------------
(* Who is where with what.                                                 *)

LEMMA GoSets ==
  ASSUME TypeOK, NEW t \in Threads, NEW place, NEW doing, Go(t, place, doing)
  PROVE  /\ pc'[t] = place /\ job'[t] = doing
         /\ \A u \in Threads \ {t} : pc'[u] = pc[u] /\ job'[u] = job[u]
  BY DEF TypeOK, Go

LEMMA JobFields ==
  ASSUME NEW way, NEW key, NEW event, NEW left, NEW to, NEW j,
         j = Job(way, key, event, left, to)
  PROVE  /\ j.way = way /\ j.key = key /\ j.event = event /\ j.left = left /\ j.to = to
  BY DEF Job

(* A step of t that takes no lock of another thread, and touches due only  *)
(* while t holds the store, leaves the others where they are.              *)
LEMMA OthersStay ==
  ASSUME TypeOK, Phases, NEW t \in Threads, NEW place, NEW doing, Go(t, place, doing),
         \A u \in Threads \ {t} : \A l \in Locks : owner'[l] = u <=> owner[l] = u,
         due' = due \/ Holds(t, "store"),
         (Ways(t) /\ Hands(t) /\ Locked(t))'
  PROVE  Phases'
<1>1. ASSUME NEW u \in Threads \ {t} PROVE (Ways(u) /\ Hands(u) /\ Locked(u))'
  <2>1. pc'[u] = pc[u] /\ job'[u] = job[u]
    BY GoSets
  <2>2. \A l \in Locks : owner'[l] = u <=> owner[l] = u
    OBVIOUS
  <2>3. Ways(u) /\ Hands(u) /\ Locked(u)
    BY DEF Phases
  <2>4. Ways(u)'
    BY <2>1, <2>3 DEF Ways, At
  <2>5. Hands(u)'
    <3>1. CASE due' = due
      BY <2>1, <2>3, <3>1 DEF Hands, At, Fanning
    <3>2. CASE Holds(t, "store")
      <4>1. ~Fanning(u)
        BY <2>3, <3>2 DEF Locked, Holds, Fanning
      <4> QED
        BY <2>1, <2>3, <4>1 DEF Hands, At, Fanning
    <3> QED
      BY <3>1, <3>2
  <2>6. Locked(u)'
    BY <2>1, <2>2, <2>3 DEF Locked, Holds, At, Locks
  <2> QED
    BY <2>4, <2>5, <2>6
<1> QED
  BY <1>1 DEF Phases

(* The locks after a step of t. *)
LEMMA TakeLock ==
  ASSUME TypeOK, NEW t \in Threads, NEW l \in Locks, Take(t, l)
  PROVE  /\ \A m \in Locks : owner'[m] = IF m = l THEN t ELSE owner[m]
         /\ \A u \in Threads \ {t} : \A m \in Locks : owner'[m] = u <=> owner[m] = u
  BY StoreAssumption DEF TypeOK, Take

LEMMA ReleaseLock ==
  ASSUME TypeOK, NEW t \in Threads, NEW l \in Locks, Release(l), owner[l] \in {t, Free}
  PROVE  /\ \A m \in Locks : owner'[m] = IF m = l THEN Free ELSE owner[m]
         /\ \A u \in Threads \ {t} : \A m \in Locks : owner'[m] = u <=> owner[m] = u
  BY StoreAssumption DEF TypeOK, Release

LEMMA NoJobFields ==
  /\ NoJob.way = "none" /\ NoJob.key = Free /\ NoJob.event = 0
  /\ NoJob.left = 0 /\ NoJob.to = {}
  BY JobFields DEF NoJob

LEMMA PhasesStep == TypeOK /\ Phases /\ [Next]_vars => Phases'
<1> SUFFICES ASSUME TypeOK, Phases, [Next]_vars PROVE Phases'
  OBVIOUS
<1> USE NoJobFields DEF data, sends, counts
<1>a. Callers \subseteq Threads /\ Worker \in Threads /\ Worker \notin Callers
  BY StoreAssumption DEF Threads
<1>b. "pipeline" \in Locks /\ "store" \in Locks /\ "request" \in Locks
  BY DEF Locks
<1>c. Len(due) \in Nat
  BY LenProperties DEF TypeOK
<1>d. \A t \in Threads : Ways(t) /\ Hands(t) /\ Locked(t) /\ job[t] \in Jobs
  BY DEF Phases, TypeOK
\* The three facts left for a step of t.
<1> DEFINE Mine(t) == (Ways(t) /\ Hands(t) /\ Locked(t))'
           Frame(t) == \A u \in Threads \ {t} : \A l \in Locks : owner'[l] = u <=> owner[l] = u
<1>1. ASSUME NEW t \in Threads, Arrive(t) \/ EnterBeside(t) PROVE Phases'
  <2>1. PICK place \in {"matched", "running"} : Go(t, place, NoJob)
    BY <1>1 DEF Arrive, EnterBeside
  <2>2. /\ pc'[t] = place /\ job'[t] = NoJob /\ owner' = owner /\ due' = due
        /\ pc[t] \in {"idle", "sending", "matched"}
    BY <1>1, <2>1, GoSets DEF Arrive, EnterBeside, At
  <2>3. Mine(t)
    BY <1>d, <2>2, StoreAssumption DEF Ways, Hands, Locked, Fanning, Sending, At, Holds
  <2> QED
    BY <2>1, <2>2, <2>3, OthersStay
<1>2. ASSUME NEW t \in Threads, Enter(t) PROVE Phases'
  <2>1. /\ pc'[t] = "running" /\ job'[t] = NoJob /\ due' = due /\ At(t, "matched")
        /\ Go(t, "running", NoJob)
    BY <1>2, GoSets DEF Enter
  <2>2. /\ \A m \in Locks : owner'[m] = IF m = "pipeline" THEN t ELSE owner[m]
        /\ Frame(t)
    BY <1>2, <1>b, TakeLock DEF Enter
  <2>3. Mine(t)
    BY <1>b, <1>d, <2>1, <2>2 DEF Ways, Hands, Locked, Fanning, Sending, At, Holds
  <2> QED
    BY <2>1, <2>2, <2>3, OthersStay
<1>3. ASSUME NEW t \in Threads, Leave(t) PROVE Phases'
  <2>1. PICK place \in {"idle", "sending"} : Go(t, place, NoJob)
    BY <1>3 DEF Leave
  <2>2. pc'[t] = place /\ job'[t] = NoJob /\ due' = due /\ At(t, "running")
    BY <1>3, <2>1, GoSets DEF Leave
  <2>3. /\ \A m \in Locks : owner'[m] = IF m = "pipeline" /\ owner[m] = t THEN Free ELSE owner[m]
        /\ Frame(t)
    BY <1>3, <1>b, ReleaseLock DEF Leave, Holds
  <2>4. Mine(t)
    BY <1>b, <1>d, <2>2, <2>3, StoreAssumption DEF Ways, Hands, Locked, Fanning, Sending, At, Holds
  <2> QED
    BY <2>1, <2>2, <2>3, <2>4, OthersStay
<1>4. ASSUME NEW t \in Threads, NEW k \in Keys, NEW version, NEW way \in {"write", "seed"},
             Write(t, k, version, way), pc[t] \in {"running", "seeding"}
      PROVE  Phases'
  <2>1. Go(t, "written", Job(way, k, 0, 0, {})) /\ due' = due
    BY <1>4 DEF Write
  <2>2. /\ pc'[t] = "written" /\ job'[t].way = way /\ job'[t].key = k
        /\ job'[t].event = 0 /\ job'[t].left = 0
    BY <2>1, GoSets, JobFields
  <2>3. /\ \A m \in Locks : owner'[m] = IF m = "store" THEN t ELSE owner[m]
        /\ Frame(t)
    BY <1>4, <1>b, TakeLock DEF Write
  <2>4. Mine(t)
    BY <1>b, <1>4, <1>d, <2>1, <2>2, <2>3 DEF Ways, Hands, Locked, Fanning, Sending, At, Holds
  <2> QED
    BY <2>1, <2>2, <2>3, <2>4, OthersStay
<1>5. ASSUME NEW t \in Threads, NEW k \in Keys, Insert(t, k) \/ Update(t, k) \/ Delete(t, k)
      PROVE  Phases'
  BY <1>4, <1>5 DEF Insert, Update, Delete, HandlerWrites, At
<1>6. ASSUME NEW t \in Threads, Append_Silent(t) PROVE Phases'
  <2>1. PICK place \in {"running", "seeding"} : Go(t, place, NoJob)
    BY <1>6 DEF Append_Silent, Return
  <2>2. pc'[t] = place /\ job'[t] = NoJob /\ due' = due /\ At(t, "written")
    BY <1>6, <2>1, GoSets DEF Append_Silent
  <2>3. Holds(t, "store")
    BY <1>d, <2>2 DEF Ways, Locked
  <2>4. /\ \A m \in Locks : owner'[m] = IF m = "store" THEN Free ELSE owner[m]
        /\ Frame(t)
    BY <1>6, <1>b, <2>3, ReleaseLock DEF Append_Silent, Holds
  <2>5. Mine(t)
    BY <1>b, <1>d, <2>2, <2>4, StoreAssumption DEF Ways, Hands, Locked, Fanning, Sending, At, Holds
  <2> QED
    BY <2>1, <2>2, <2>4, <2>5, OthersStay
<1>7. ASSUME NEW t \in Threads, NEW n \in 1..MaxEvents, Append_Fires(t, n) PROVE Phases'
  <2>1. /\ Go(t, "mapping", Job("write", job[t].key, Len(due) + 1, n, {}))
        /\ owner' = owner /\ At(t, "written") /\ job[t].way = "write"
    BY <1>7 DEF Append_Fires, Fire, Fires
  <2>2. /\ pc'[t] = "mapping" /\ job'[t].way = "write" /\ job'[t].key = job[t].key
        /\ job'[t].event = Len(due) + 1 /\ job'[t].left = n
    BY <2>1, GoSets, JobFields
  <2>3. Holds(t, "store")
    BY <1>d, <2>1 DEF Ways, Locked
  <2>4. Len(due') = Len(due) + n
    <3> DEFINE new == [i \in 1..n |-> Registered]
    <3>1. Registered \in SUBSET Subscribers
      BY DEF Registered
    <3>2. new \in Seq(SUBSET Subscribers) /\ Len(new) = n
      BY <3>1, StoreAssumption
    <3>3. due' = due \o new
      BY <1>7 DEF Append_Fires, Fire
    <3> QED
      BY <3>2, <3>3, ConcatProperties DEF TypeOK
  <2>5. Mine(t)
    BY <1>c, <1>d, <2>1, <2>2, <2>3, <2>4 DEF Ways, Hands, Locked, Fanning, Sending, At, Holds
  <2> QED
    BY <2>1, <2>3, <2>5, OthersStay
<1>8. ASSUME NEW t \in Threads, Prepare(t) PROVE Phases'
  <2>1. /\ Go(t, "resolving", job[t]) /\ owner' = owner /\ due' = due /\ At(t, "mapping")
        /\ pc'[t] = "resolving" /\ job'[t] = job[t]
    BY <1>8, GoSets DEF Prepare
  <2>2. Mine(t)
    BY <1>d, <2>1 DEF Ways, Hands, Locked, Fanning, Sending, At, Holds
  <2> QED
    BY <2>1, <2>2, OthersStay
<1>9. ASSUME NEW t \in Threads, NEW to, SendTo(t, to), pc[t] \in {"resolving", "targeting"},
             owner' = owner, due' = due
      PROVE  Phases'
  <2>1. /\ Go(t, "queueing", Job(job[t].way, job[t].key, job[t].event, job[t].left, to))
        /\ pc'[t] = "queueing" /\ job'[t].way = job[t].way /\ job'[t].key = job[t].key
        /\ job'[t].event = job[t].event /\ job'[t].left = job[t].left
    BY <1>9, GoSets, JobFields DEF SendTo
  <2>2. Mine(t)
    BY <1>9, <1>d, <2>1 DEF Ways, Hands, Locked, Fanning, Sending, At, Holds
  <2> QED
    BY <1>9, <2>1, <2>2, OthersStay
<1>10. ASSUME NEW t \in Threads, Resolve(t) PROVE Phases'
  BY <1>9, <1>10 DEF Resolve, At
<1>11. ASSUME NEW t \in Callers, ResolveTarget(t) PROVE Phases'
  <2>1. CASE SendTo(t, {job[t].key})
    BY <1>9, <1>11, <1>a, <2>1 DEF ResolveTarget, At
  <2>2. CASE Go(t, "draining", job[t])
    <3>1. /\ pc'[t] = "draining" /\ job'[t] = job[t] /\ owner' = owner /\ due' = due
          /\ At(t, "targeting") /\ t # Worker /\ t \in Threads
      BY <1>11, <1>a, <2>2, GoSets DEF ResolveTarget
    <3>2. Mine(t)
      BY <1>d, <3>1 DEF Ways, Hands, Locked, Fanning, Sending, At, Holds
    <3> QED
      BY <2>2, <3>1, <3>2, OthersStay
  <2> QED
    BY <1>11, <2>1, <2>2 DEF ResolveTarget
<1>12. ASSUME NEW t \in Threads, TakeRequestLock(t) PROVE Phases'
  <2>1. /\ Go(t, "queued", job[t]) /\ due' = due /\ At(t, "queueing")
        /\ pc'[t] = "queued" /\ job'[t] = job[t]
    BY <1>12, GoSets DEF TakeRequestLock
  <2>2. /\ \A m \in Locks : owner'[m] = IF m = "request" THEN t ELSE owner[m]
        /\ Frame(t)
    BY <1>12, <1>b, TakeLock DEF TakeRequestLock
  <2>3. Mine(t)
    BY <1>b, <1>d, <2>1, <2>2 DEF Ways, Hands, Locked, Fanning, Sending, At, Holds
  <2> QED
    BY <2>1, <2>2, <2>3, OthersStay
<1>13. ASSUME NEW t \in Threads, Queue_More(t) PROVE Phases'
  <2>1. /\ Go(t, "resolving", Job("write", job[t].key, job[t].event + 1, job[t].left - 1, {}))
        /\ due' = due /\ At(t, "queued") /\ job[t].left > 1
    BY <1>13 DEF Queue_More, QueueAll
  <2>2. /\ pc'[t] = "resolving" /\ job'[t].way = "write" /\ job'[t].key = job[t].key
        /\ job'[t].event = job[t].event + 1 /\ job'[t].left = job[t].left - 1
    BY <2>1, GoSets, JobFields
  <2>3. job[t].way = "write" /\ owner["request"] = t
    BY <1>d, <2>1 DEF Ways, Hands, Locked, Holds, At
  <2>4. /\ \A m \in Locks : owner'[m] = IF m = "request" THEN Free ELSE owner[m]
        /\ Frame(t)
    BY <1>13, <1>b, <2>3, ReleaseLock DEF Queue_More
  <2>5. job[t].event \in Nat /\ job[t].left \in Nat
    BY <1>d, FieldsTyped
  <2>6. Mine(t)
    <3>1. Ways(t)'
      BY <2>2 DEF Ways, At
    <3>2. job[t].event > 0 /\ job[t].event + job[t].left = Len(due) + 1 /\ job[t].key \in Keys
      BY <1>d, <2>1, <2>3 DEF Hands, Fanning, Sending, At
    <3>3. /\ job'[t].event > 0 /\ job'[t].left > 0
          /\ job'[t].event + job'[t].left = Len(due') + 1
      BY <1>c, <2>1, <2>2, <2>5, <3>2
    <3>4. Hands(t)'
      BY <2>2, <3>2, <3>3 DEF Hands, Fanning, Sending, At
    <3>5. Locked(t)'
      BY <1>b, <1>d, <2>1, <2>2, <2>3, <2>4, StoreAssumption DEF Locked, At, Holds
    <3> QED
      BY <3>1, <3>4, <3>5
  <2> QED
    BY <2>1, <2>4, <2>6, OthersStay
<1>14. ASSUME NEW t \in Threads, Queue_Last(t) PROVE Phases'
  <2>1. /\ Go(t, "running", NoJob) /\ due' = due /\ At(t, "queued") /\ job[t].left = 1
        /\ pc'[t] = "running" /\ job'[t] = NoJob
    BY <1>14, GoSets DEF Queue_Last, QueueAll
  <2>2. job[t].way \in {"write", "emit"} /\ owner["request"] = t
    BY <1>d, <2>1 DEF Ways, Hands, Locked, Holds, At
  <2>3. /\ \A m \in Locks : owner'[m] = IF m = "request" \/ (m = "store" /\ owner[m] = t)
                                          THEN Free ELSE owner[m]
        /\ Frame(t)
    BY <1>14, <2>2, StoreAssumption DEF Queue_Last, TypeOK, Locks
  <2>4. Mine(t)
    BY <1>b, <1>d, <2>1, <2>2, <2>3, StoreAssumption
       DEF Ways, Hands, Locked, Fanning, Sending, At, Holds
  <2> QED
    BY <2>1, <2>3, <2>4, OthersStay
<1>15. ASSUME NEW t \in Callers, Queue_Test(t) PROVE Phases'
  <2>1. /\ Go(t, "draining", job[t]) /\ due' = due /\ At(t, "queued") /\ job[t].left = 0
        /\ pc'[t] = "draining" /\ job'[t] = job[t] /\ t \in Threads /\ t # Worker
    BY <1>15, <1>a, GoSets DEF Queue_Test, QueueAll
  <2>2. job[t].way = "test" /\ owner["request"] = t
    BY <1>d, <2>1 DEF Ways, Hands, Locked, Holds, At, Fanning, Sending
  <2>3. /\ \A m \in Locks : owner'[m] = IF m = "request" THEN Free ELSE owner[m]
        /\ Frame(t)
    BY <1>15, <1>b, <2>1, <2>2, ReleaseLock DEF Queue_Test
  <2>4. Mine(t)
    BY <1>b, <1>d, <2>1, <2>2, <2>3, StoreAssumption
       DEF Ways, Hands, Locked, Fanning, Sending, At, Holds
  <2> QED
    BY <2>1, <2>3, <2>4, OthersStay
<1>16. ASSUME NEW t \in Threads, Emit(t) PROVE Phases'
  <2>1. /\ Go(t, "resolving", Job("emit", Free, 0, 1, {}))
        /\ owner' = owner /\ due' = due /\ At(t, "running")
    BY <1>16 DEF Emit
  <2>2. /\ pc'[t] = "resolving" /\ job'[t].way = "emit" /\ job'[t].event = 0
        /\ job'[t].left = 1
    BY <2>1, GoSets, JobFields
  <2>3. Mine(t)
    BY <1>d, <2>1, <2>2 DEF Ways, Hands, Locked, Fanning, Sending, At, Holds
  <2> QED
    BY <2>1, <2>3, OthersStay
<1>17. ASSUME NEW t \in Callers, NEW s \in Subscribers, TestSubscription(t, s) PROVE Phases'
  <2>1. /\ Go(t, "targeting", Job("test", s, 0, 0, {})) /\ t \in Threads /\ t # Worker
        /\ owner' = owner /\ due' = due /\ At(t, "idle")
    BY <1>17, <1>a DEF TestSubscription
  <2>2. /\ pc'[t] = "targeting" /\ job'[t].way = "test" /\ job'[t].event = 0
        /\ job'[t].left = 0 /\ job'[t].key = s
    BY <2>1, GoSets, JobFields
  <2>3. Mine(t)
    BY <1>d, <2>1, <2>2 DEF Ways, Hands, Locked, Fanning, Sending, At, Holds
  <2> QED
    BY <2>1, <2>3, OthersStay
<1>18. ASSUME NEW t \in Callers, Drain(t) PROVE Phases'
  <2>1. /\ Go(t, "draining", Job("drain", Free, 0, 0, {})) /\ t \in Threads /\ t # Worker
        /\ owner' = owner /\ due' = due /\ At(t, "idle")
    BY <1>18, <1>a DEF Drain
  <2>2. /\ pc'[t] = "draining" /\ job'[t].way = "drain" /\ job'[t].event = 0
    BY <2>1, GoSets, JobFields
  <2>3. Mine(t)
    BY <1>d, <2>1, <2>2 DEF Ways, Hands, Locked, Fanning, Sending, At, Holds
  <2> QED
    BY <2>1, <2>3, OthersStay
\* The steps that lead a thread from one place without a lock to another.
<1>19. ASSUME NEW t \in Threads, NEW place \in {"idle", "sending"}, Go(t, place, NoJob),
              pc[t] \in {"draining", "idle", "sending"}, owner' = owner, due' = due
       PROVE  Phases'
  <2>1. pc'[t] = place /\ job'[t] = NoJob
    BY <1>19, GoSets
  <2>2. Mine(t)
    BY <1>19, <1>d, <2>1 DEF Ways, Hands, Locked, Fanning, Sending, At, Holds
  <2> QED
    BY <1>19, <2>2, OthersStay
<1>20. ASSUME NEW t \in Callers, Drained(t) PROVE Phases'
  BY <1>19, <1>20, <1>a DEF Drained, At
<1>21. ASSUME Send \/ Sent PROVE Phases'
  BY <1>19, <1>21, <1>a DEF Send, Sent, At
\* The control routes, between running and seeding.
<1>22. ASSUME NEW t \in Threads, NEW place \in {"running", "seeding"}, Go(t, place, NoJob),
              pc[t] \in {"running", "seeding"}, owner' = owner, due' = due
       PROVE  Phases'
  <2>1. pc'[t] = place /\ job'[t] = NoJob
    BY <1>22, GoSets
  <2>2. Mine(t)
    BY <1>22, <1>d, <2>1 DEF Ways, Hands, Locked, Fanning, Sending, At, Holds
  <2> QED
    BY <1>22, <2>2, OthersStay
<1>23. ASSUME UNCHANGED <<owner, pc, job, due>> PROVE Phases'
  BY <1>23 DEF Phases, Ways, Hands, Locked, Fanning, At, Holds
<1>24. ASSUME NEW t \in Threads, Controls(t) PROVE Phases'
  <2>1. CASE SeedNext(t)
    <3>1. Seed[seeding] \in Keys
      BY <2>1, StoreAssumption, ElementOfSeq DEF SeedNext
    <3> QED
      BY <1>4, <2>1, <3>1 DEF SeedNext, At
  <2>2. CASE Reset(t) \/ SeedConflicts(t) \/ Seeded(t)
    BY <1>22, <2>2 DEF Reset, InControl, SeedConflicts, Seeded, At
  <2>3. CASE Snapshot(t) \/ (\E snapshot \in saved : Restore(t, snapshot)) \/ SeedSkips(t)
    BY <1>23, <2>3 DEF Snapshot, Restore, SeedSkips
  <2> QED
    BY <1>24, <2>1, <2>2, <2>3 DEF Controls
<1> QED
  BY <1>1, <1>2, <1>3, <1>5, <1>6, <1>7, <1>8, <1>10, <1>11, <1>12, <1>13, <1>14, <1>15, <1>16,
     <1>17, <1>18, <1>20, <1>21, <1>23, <1>24
     DEF Next, Serves, Mutates, Dispatches, Tests, vars
-----------------------------------------------------------------------------
(* The lock order.  Who waits for the pipeline lock waits for somebody who *)
(* at most waits for the store, who waits for somebody who at most waits   *)
(* for the request lock, whose holder waits for nobody.                    *)
LEMMA PhasesOrderLocks == TypeOK /\ Phases => NoCircularWait
<1> SUFFICES ASSUME TypeOK, Phases, NEW S \in SUBSET Threads, S # {}
             PROVE  \E t \in S : WaitsFor(t) \cap S = {}
  BY DEF NoCircularWait
<1> DEFINE Goal == \E t \in S : WaitsFor(t) \cap S = {}
<1>a. \A t \in S : t \in Threads /\ Ways(t) /\ Hands(t) /\ Locked(t) /\ pc[t] \in Pcs
  BY DEF Phases, TypeOK
<1>b. Worker \in Threads /\ "pipeline" \in Locks /\ "store" \in Locks /\ "request" \in Locks
  BY DEF Threads, Locks
\* Somebody waits for one thread at most.
<1>1. ASSUME NEW t \in S, Needs(t) = {}, ~At(t, "draining") PROVE Goal
  BY <1>1 DEF WaitsFor
<1>2. ASSUME NEW t \in S, NEW l \in Locks, Needs(t) = {l}, ~At(t, "draining")
      PROVE  Goal \/ (owner[l] \in S /\ owner[l] # t)
  BY <1>2 DEF WaitsFor
<1>3. ASSUME NEW t \in S, pc[t] \in {"written", "queued", "idle", "sending"} PROVE Goal
  BY <1>1, <1>3 DEF Needs, At
<1>4. ASSUME NEW t \in S, pc[t] \in {"mapping", "queueing"} PROVE Goal
  <2>1. Needs(t) = {"request"} /\ ~At(t, "draining")
    BY <1>4 DEF Needs, At
  <2>2. CASE owner["request"] \in S
    BY <1>a, <1>b, <1>3, <2>2 DEF Locked, Holds, At
  <2> QED
    BY <1>b, <1>2, <2>1, <2>2
<1>5. ASSUME NEW t \in S, pc[t] \in {"running", "seeding", "resolving", "targeting"} PROVE Goal
  <2>1. \A u \in S : pc[u] \in {"running", "seeding", "resolving", "targeting"}
                       => Needs(u) = {"store"} /\ ~At(u, "draining")
    BY DEF Needs, At
  <2>2. CASE owner["store"] \in S
    <3> DEFINE u == owner["store"]
    <3>1. pc[u] \in {"written", "mapping", "resolving", "queueing", "queued"}
      BY <1>a, <2>2 DEF Locked, Holds, Ways, At, Pcs
    <3>2. CASE pc[u] = "resolving"
      <4>1. WaitsFor(u) = {}
        BY <2>1, <2>2, <3>2 DEF WaitsFor
      <4> QED
        BY <2>2, <4>1
    <3> QED
      BY <1>3, <1>4, <2>2, <3>1, <3>2
  <2> QED
    BY <1>b, <1>2, <1>5, <2>1, <2>2
<1>6. ASSUME NEW t \in S, At(t, "matched") PROVE Goal
  <2>1. Needs(t) = {"pipeline"} /\ ~At(t, "draining")
    BY <1>6 DEF Needs, At
  <2>2. CASE owner["pipeline"] \in S
    <3> DEFINE u == owner["pipeline"]
    <3>1. pc[u] \in {"written", "mapping", "resolving", "queueing", "queued", "running", "seeding"}
      BY <1>a, <2>2 DEF Locked, Holds, Pcs
    <3> QED
      BY <1>3, <1>4, <1>5, <2>2, <3>1
  <2> QED
    BY <1>b, <1>2, <2>1, <2>2
<1>7. ASSUME NEW t \in S, At(t, "draining") PROVE Goal
  <2>1. WaitsFor(t) \subseteq {Worker}
    BY <1>7 DEF WaitsFor, Needs, At
  <2>2. CASE Worker \in S
    <3>1. pc[Worker] \in Pcs \ {"draining"}
      BY <1>a, <2>2 DEF Hands, At
    <3> QED
      BY <1>3, <1>4, <1>5, <1>6, <2>2, <3>1 DEF Pcs, At
  <2> QED
    BY <2>1, <2>2
<1> QED
  BY <1>3, <1>4, <1>5, <1>6, <1>7, <1>a DEF Pcs, At

LEMMA InitTypes == Init => TypeOK /\ Phases
<1> SUFFICES ASSUME Init PROVE TypeOK /\ Phases
  OBVIOUS
<1>1. journal \in Logs
  <2>1. /\ Len(Seed) \in Nat /\ DOMAIN Seed = 1..Len(Seed)
        /\ \A i \in DOMAIN Seed : Seed[i] \in Keys
    BY StoreAssumption, LenProperties, ElementOfSeq
  <2>2. \A i \in DOMAIN Seed : Entry(Seed[i], 1) \in [key : Keys, to : Nat]
    BY <2>1 DEF Entry
  <2> QED
    BY <2>1, <2>2 DEF Init, Logs
<1>2. prepared \in Seq([event : Nat, to : SUBSET Subscribers]) /\ due \in Seq(SUBSET Subscribers)
  BY EmptySeq DEF Init
<1>3. TypeOK
  BY <1>1, <1>2, NoJobTyped DEF Init, TypeOK, Pcs
<1>4. Phases
  BY NoJobFields, StoreAssumption DEF Init, Phases, Ways, Hands, Locked, Fanning, Sending, At, Holds, Locks
<1> QED
  BY <1>3, <1>4

(* The store, the dispatcher and the routes keep every variable in its     *)
(* type.                                                                   *)
THEOREM TypeCorrect == Spec => [](TypeOK /\ Phases)
<1>1. TypeOK /\ Phases /\ [Next]_vars => (TypeOK /\ Phases)'
  BY TypeStep, PhasesStep
<1> QED
  BY <1>1, InitTypes, PTL DEF Spec

(* Whatever routes run beside each other, serialized or not, no set of     *)
(* threads is ever stuck on itself.                                        *)
THEOREM LocksAreOrdered == Spec => []NoCircularWait
  BY TypeCorrect, PhasesOrderLocks, PTL
-----------------------------------------------------------------------------
(* The journal.                                                            *)

(* Every key is told by the journal, but the one that is being written.    *)
Traced ==
  /\ \A k \in Keys : \/ Tells(journal, k, stored[k])
                     \/ \E t \in Threads : At(t, "written") /\ job[t].key = k
  /\ \A s \in saved : \A k \in Keys : Tells(s.journal, k, s.stored[k])

LEMMA TellsAppended ==
  ASSUME NEW log \in Logs, NEW k \in Keys, NEW version \in Nat
  PROVE  /\ Tells(Append(log, Entry(k, version)), k, version)
         /\ \A other \in Keys \ {k} : \A v \in Nat :
              Tells(log, other, v) => Tells(Append(log, Entry(k, version)), other, v)
<1> DEFINE e == Entry(k, version)
           more == Append(log, e)
<1>1. e \in [key : Keys, to : Nat] /\ e.key = k
  BY DEF Entry
<1> HIDE DEF e
<1>2. /\ Len(log) \in Nat /\ DOMAIN log = 1..Len(log) /\ DOMAIN more = 1..(Len(log) + 1)
      /\ more[Len(log) + 1] = e /\ \A i \in DOMAIN log : more[i] = log[i]
  BY <1>1, AppendProperties, LenProperties DEF Logs
<1>3. Tells(more, k, version)
  <2>1. Len(log) + 1 \in DOMAIN more /\ \A j \in DOMAIN more : ~(j > Len(log) + 1)
    BY <1>2
  <2> QED
    BY <1>2, <2>1 DEF Tells, e
<1>4. ASSUME NEW other \in Keys \ {k}, NEW v \in Nat, Tells(log, other, v)
      PROVE  Tells(more, other, v)
  <2> HIDE DEF more
  <2>1. CASE v = 0 /\ \A i \in DOMAIN log : log[i].key # other
    <3>1. \A i \in DOMAIN more : more[i].key # other
      BY <1>1, <1>2, <2>1
    <3> QED
      BY <2>1, <3>1 DEF Tells
  <2>2. CASE \E i \in DOMAIN log : /\ log[i] = Entry(other, v)
                                   /\ \A j \in DOMAIN log : j > i => log[j].key # other
    <3>1. PICK i \in DOMAIN log : /\ log[i] = Entry(other, v)
                                  /\ \A j \in DOMAIN log : j > i => log[j].key # other
      BY <2>2
    <3>2. i \in DOMAIN more /\ more[i] = Entry(other, v)
      BY <1>2, <3>1
    <3>3. \A j \in DOMAIN more : j > i => more[j].key # other
      BY <1>1, <1>2, <3>1
    <3> QED
      BY <3>2, <3>3 DEF Tells
  <2> QED
    BY <1>4, <2>1, <2>2 DEF Tells
<1> QED
  BY <1>3, <1>4 DEF e

(* Nobody is inside the store when a thread that is not may enter it.      *)
LEMMA StoreIsEmpty ==
  ASSUME TypeOK, Phases, owner["store"] = Free, NEW u \in Threads
  PROVE  ~At(u, "written") /\ ~Fanning(u)
  BY StoreAssumption DEF Phases, Ways, Locked, Holds, At, Fanning

LEMMA ControlFindsItEmpty ==
  ASSUME TypeOK, Phases, NEW t \in Threads, InControl(t)
  PROVE  owner["store"] = Free
  BY DEF Phases, Ways, Locked, Holds, At, InControl, Passes

LEMMA OneInside ==
  ASSUME Phases, NEW t \in Threads, job[t].way \in {"write", "seed"},
         NEW u \in Threads \ {t}
  PROVE  ~At(u, "written") /\ ~Fanning(u)
  BY DEF Phases, Ways, Locked, Holds, At, Fanning

LEMMA TracedStep == TypeOK /\ Phases /\ Traced /\ [Next]_vars => Traced'
<1> SUFFICES ASSUME TypeOK, Phases, Traced, [Next]_vars PROVE Traced'
  OBVIOUS
<1> USE DEF data, sends, counts
<1>a. Callers \subseteq Threads /\ Worker \in Threads
  BY DEF Threads
<1>b. stored \in [Keys -> Nat] /\ journal \in Logs
  BY DEF TypeOK
\* Steps that write nothing, of a thread that was not writing.
<1>1. ASSUME NEW t \in Threads, NEW place, NEW doing, Go(t, place, doing), ~At(t, "written"),
             UNCHANGED <<stored, journal, saved>>
      PROVE  Traced'
  <2>1. \A u \in Threads : At(u, "written") => pc'[u] = pc[u] /\ job'[u] = job[u]
    BY <1>1, GoSets
  <2> QED
    BY <1>1, <2>1 DEF Traced, At
<1>2. ASSUME UNCHANGED <<pc, job, stored, journal, saved>> PROVE Traced'
  BY <1>2 DEF Traced, At
<1>3. ASSUME NEW t \in Threads, Serves(t) \/ Dispatches(t) PROVE Traced'
  <2>1. \E place, doing : Go(t, place, doing)
    BY <1>3 DEF Serves, Arrive, Enter, EnterBeside, Leave, Emit, Dispatches, Prepare, Resolve,
                SendTo, TakeRequestLock, Queue_More, Queue_Last
  <2>2. ~At(t, "written") /\ UNCHANGED <<stored, journal, saved>>
    BY <1>3 DEF Serves, Arrive, Enter, EnterBeside, Leave, Emit, Dispatches, Prepare, Resolve,
                TakeRequestLock, Queue_More, Queue_Last, QueueAll, At
  <2> QED
    BY <1>1, <2>1, <2>2
<1>4. ASSUME NEW t \in Callers, Tests(t) PROVE Traced'
  <2>1. \E place, doing : Go(t, place, doing)
    BY <1>4 DEF Tests, TestSubscription, ResolveTarget, SendTo, Queue_Test, Drain, Drained
  <2>2. ~At(t, "written") /\ UNCHANGED <<stored, journal, saved>> /\ t \in Threads
    BY <1>4, <1>a DEF Tests, TestSubscription, ResolveTarget, Queue_Test, QueueAll, Drain, Drained, At
  <2> QED
    BY <1>1, <2>1, <2>2
<1>5. ASSUME Send \/ Sent PROVE Traced'
  BY <1>1, <1>5, <1>a DEF Send, Sent, At
<1>6. ASSUME NEW t \in Threads, NEW k \in Keys, NEW version, NEW way, Write(t, k, version, way)
      PROVE  Traced'
  <2>1. /\ \A other \in Keys \ {k} : stored'[other] = stored[other]
        /\ journal' = journal /\ saved' = saved
    BY <1>b, <1>6 DEF Write
  <2>2. \A u \in Threads : ~At(u, "written")
    BY <1>6, StoreIsEmpty DEF Write, Take
  <2>3. At(t, "written")' /\ job'[t].key = k
    BY <1>6, GoSets, JobFields DEF Write, At
  <2> QED
    BY <2>1, <2>2, <2>3 DEF Traced
<1>7. ASSUME NEW t \in Threads, NEW k \in Keys, Insert(t, k) \/ Update(t, k) \/ Delete(t, k)
      PROVE  Traced'
  BY <1>6, <1>7 DEF Insert, Update, Delete, HandlerWrites
<1>8. ASSUME NEW t \in Threads, AppendEntry(t), At(t, "written"), stored' = stored, saved' = saved
      PROVE  Traced'
  <2> DEFINE k == job[t].key
  <2>1. k \in Keys /\ job[t].way \in {"write", "seed"}
    BY <1>8 DEF Phases, Ways, Hands
  <2>2. journal' = Append(journal, Entry(k, stored[k])) /\ stored[k] \in Nat
    BY <1>b, <1>8, <2>1 DEF AppendEntry
  <2>3. \A other \in Keys \ {k} : Tells(journal, other, stored[other])
    BY <2>1, OneInside DEF Traced
  <2> HIDE DEF k
  <2>4. \A other \in Keys : Tells(journal', other, stored[other])
    BY <1>b, <2>1, <2>2, <2>3, TellsAppended
  <2> QED
    BY <1>8, <2>4 DEF Traced
<1>9. ASSUME NEW t \in Threads, NEW n \in 1..MaxEvents, Append_Fires(t, n)
      PROVE  Traced'
  BY <1>8, <1>9 DEF Append_Fires, Fire
<1>10. ASSUME NEW t \in Threads, Append_Silent(t) PROVE Traced'
  BY <1>8, <1>10 DEF Append_Silent
<1>11. ASSUME NEW t \in Threads, Controls(t) PROVE Traced'
  <2>1. InControl(t) => \A k \in Keys : Tells(journal, k, stored[k])
    BY ControlFindsItEmpty, StoreIsEmpty DEF Traced
  <2>2. CASE Snapshot(t)
    BY <2>1, <2>2 DEF Snapshot, Traced, At
  <2>3. CASE \E snapshot \in saved : Restore(t, snapshot)
    BY <2>3 DEF Restore, Traced, At
  <2>4. CASE Reset(t)
    <3>1. \A k \in Keys : Tells(<< >>, k, 0)
      BY DEF Tells
    <3> QED
      BY <2>4, <3>1 DEF Reset, Traced
  <2>5. CASE SeedNext(t)
    <3>1. Seed[seeding] \in Keys
      BY <2>5, StoreAssumption, ElementOfSeq DEF SeedNext
    <3> QED
      BY <1>6, <2>5, <3>1 DEF SeedNext
  <2>6. CASE SeedSkips(t)
    BY <1>2, <2>6 DEF SeedSkips
  <2>7. CASE SeedConflicts(t) \/ Seeded(t)
    BY <1>1, <2>7 DEF SeedConflicts, Seeded, At
  <2> QED
    BY <1>11, <2>2, <2>3, <2>4, <2>5, <2>6, <2>7 DEF Controls
<1> QED
  BY <1>2, <1>3, <1>4, <1>5, <1>7, <1>9, <1>10, <1>11 DEF Next, Mutates, vars

LEMMA InitTraced == Init => Traced
<1> SUFFICES ASSUME Init, NEW k \in Keys PROVE Tells(journal, k, stored[k])
  BY DEF Init, Traced
<1>1. DOMAIN journal = DOMAIN Seed /\ \A i \in DOMAIN Seed : journal[i] = Entry(Seed[i], 1)
  BY DEF Init
<1>2. \A i \in DOMAIN Seed : journal[i].key = Seed[i]
  BY <1>1 DEF Entry
<1>3. CASE \E i \in DOMAIN Seed : Seed[i] = k
  <2>1. PICK i \in DOMAIN Seed : Seed[i] = k
    BY <1>3
  <2>2. \A j \in DOMAIN Seed : j > i => Seed[j] # k
    <3>1. DOMAIN Seed = 1..Len(Seed) /\ Len(Seed) \in Nat
      BY StoreAssumption, LenProperties
    <3> QED
      BY <2>1, <3>1, StoreAssumption
  <2>3. stored[k] = 1
    BY <1>3 DEF Init
  <2> QED
    BY <1>1, <1>2, <2>1, <2>2, <2>3 DEF Tells
<1>4. CASE ~\E i \in DOMAIN Seed : Seed[i] = k
  BY <1>1, <1>2, <1>4 DEF Init, Tells
<1> QED
  BY <1>3, <1>4

(* The journal tells the version of every entity, whatever was written,    *)
(* seeded, restored or reset, as long as nobody is inside the store.       *)
THEOREM JournalTells == Spec => []JournalIsTheSource
<1>1. TypeOK /\ Phases /\ Traced => JournalIsTheSource
  BY StoreIsEmpty DEF JournalIsTheSource, Traced
<1>2. Init => Traced
  BY InitTraced
<1>3. TypeOK /\ Phases /\ Traced /\ [Next]_vars => Traced'
  BY TracedStep
<1> QED
  BY <1>1, <1>2, <1>3, TypeCorrect, PTL DEF Spec
-----------------------------------------------------------------------------
(* The events.                                                             *)

(* What was prepared is what the journal called for, in its order. *)
Followed ==
  \A i \in DOMAIN prepared :
    prepared[i].event > 0 =>
      /\ prepared[i].event \in DOMAIN due
      /\ prepared[i].to = due[prepared[i].event]
      /\ \A j \in DOMAIN prepared : j < i => prepared[j].event < prepared[i].event

Completed ==
  \A n \in DOMAIN due : \/ \E i \in DOMAIN prepared : prepared[i].event = n
                        \/ \E t \in Threads : Dispatching(t, n)

(* The thread inside the store is about to prepare the rest, and the       *)
(* subscribers are still those of its entry.                               *)
Current(t) ==
  Fanning(t) =>
    /\ \A i \in DOMAIN prepared : prepared[i].event < job[t].event
    /\ \A n \in DOMAIN due : job[t].event <= n => due[n] = Registered
    /\ pc[t] \in {"queueing", "queued"} => job[t].to = Registered

Events == Followed /\ Completed /\ \A t \in Threads : Current(t)

(* A step of a thread that is not fanning out, before or after it. *)
LEMMA OthersFan ==
  ASSUME TypeOK, Phases, Events, NEW t \in Threads, NEW place, NEW doing, Go(t, place, doing),
         prepared' = prepared, due' = due,
         ~Fanning(t), doing.way # "write" \/ place \notin Sending,
         stored' = stored \/ owner["store"] = Free
  PROVE  Events'
<1>1. /\ \A u \in Threads \ {t} : pc'[u] = pc[u] /\ job'[u] = job[u]
      /\ ~Fanning(t)'
  BY GoSets DEF Fanning
<1>2. Followed'
  BY DEF Events, Followed
<1>3. Completed'
  BY <1>1 DEF Events, Completed, Dispatching, Fanning, Sending
<1>4. ASSUME NEW u \in Threads PROVE Current(u)'
  <2>1. CASE u = t
    BY <1>1, <2>1 DEF Current
  <2>2. CASE u # t /\ Fanning(u)
    <3>1. stored' = stored
      BY <2>2, StoreIsEmpty
    <3> QED
      BY <1>1, <2>2, <3>1 DEF Events, Current, Fanning, Registered
  <2>3. CASE u # t /\ ~Fanning(u)
    BY <1>1, <2>3 DEF Current, Fanning
  <2> QED
    BY <2>1, <2>2, <2>3
<1> QED
  BY <1>2, <1>3, <1>4 DEF Events

(* A step of a thread that is fanning out and goes on doing so. *)
LEMMA KeepsFanning ==
  ASSUME TypeOK, Phases, Events, NEW t \in Threads, NEW place \in Sending, NEW doing,
         Go(t, place, doing), Fanning(t), prepared' = prepared, due' = due, stored' = stored,
         doing.way = "write", doing.event = job[t].event, doing.left = job[t].left,
         place \in {"queueing", "queued"} => doing.to = Registered
  PROVE  Events'
<1>1. /\ \A u \in Threads \ {t} : pc'[u] = pc[u] /\ job'[u] = job[u]
      /\ pc'[t] = place /\ job'[t] = doing
  BY GoSets
<1>2. Followed'
  BY DEF Events, Followed
<1>3. Completed'
  BY <1>1 DEF Events, Completed, Dispatching, Fanning, Sending
<1>4. ASSUME NEW u \in Threads PROVE Current(u)'
  <2>1. CASE u = t
    BY <1>1, <2>1 DEF Events, Current, Registered
  <2>2. CASE u # t
    BY <1>1, <2>2 DEF Events, Current, Fanning, Registered
  <2> QED
    BY <2>1, <2>2
<1> QED
  BY <1>2, <1>3, <1>4 DEF Events

(* The step that prepares an event. *)
LEMMA QueueFollows ==
  ASSUME TypeOK, Phases, Events, NEW t \in Threads, NEW place, NEW doing, Go(t, place, doing),
         QueueAll(t),
         IF Fanning(t) /\ job[t].left > 1
           THEN /\ place = "resolving" /\ doing.way = "write"
                /\ doing.event = job[t].event + 1 /\ doing.left = job[t].left - 1
           ELSE doing.way # "write" \/ place \notin Sending
  PROVE  Events'
<1> DEFINE e == [event |-> job[t].event, to |-> job[t].to]
           N == Len(prepared)
<1>1. /\ \A u \in Threads \ {t} : pc'[u] = pc[u] /\ job'[u] = job[u]
      /\ pc'[t] = place /\ job'[t] = doing
  BY GoSets
<1>2. At(t, "queued") /\ prepared' = Append(prepared, e) /\ due' = due /\ stored' = stored
  BY DEF QueueAll, data
<1>3. job[t].event \in Nat /\ job[t].left \in Nat /\ job[t].to \in SUBSET Subscribers
  BY FieldsTyped DEF TypeOK
<1>4. e.event = job[t].event /\ e.to = job[t].to
      /\ e \in [event : Nat, to : SUBSET Subscribers]
  BY <1>3
<1> HIDE DEF e
<1>5. /\ N \in Nat /\ DOMAIN prepared = 1..N /\ DOMAIN prepared' = 1..(N + 1)
      /\ prepared'[N + 1] = e /\ \A i \in 1..N : prepared'[i] = prepared[i]
  BY <1>2, <1>4, AppendProperties, LenProperties DEF TypeOK
<1>6. \A i \in 1..N : prepared[i].event \in Nat
  <2>1. \A i \in 1..N : prepared[i] \in [event : Nat, to : SUBSET Subscribers]
    BY ElementOfSeq DEF TypeOK
  <2> QED
    BY <2>1
<1>7. Len(due) \in Nat /\ DOMAIN due = 1..Len(due)
  BY LenProperties DEF TypeOK
<1> HIDE DEF N
<1>8. CASE ~Fanning(t)
  <2>1. job[t].event = 0 /\ ~Fanning(t)'
    BY <1>1, <1>8 DEF Phases, Hands, Fanning
  <2>2. Followed'
    BY <1>2, <1>4, <1>5, <1>6, <2>1 DEF Events, Followed
  <2>3. Completed'
    BY <1>1, <1>2, <1>5, <1>8 DEF Events, Completed, Dispatching, Fanning, Sending
  <2>4. ASSUME NEW u \in Threads PROVE Current(u)'
    <3>1. CASE u = t \/ ~Fanning(u)
      BY <1>1, <2>1, <3>1 DEF Current, Fanning
    <3>2. CASE u # t /\ Fanning(u)
      <4>1. job[u].event > 0
        BY <3>2 DEF Phases, Hands
      <4> QED
        BY <1>1, <1>2, <1>4, <1>5, <2>1, <3>2, <4>1 DEF Events, Current, Fanning, Registered
    <3> QED
      BY <3>1, <3>2
  <2> QED
    BY <2>2, <2>3, <2>4 DEF Events
<1>9. CASE Fanning(t)
  <2>1. /\ job[t].event > 0 /\ job[t].left > 0 /\ job[t].event + job[t].left = Len(due) + 1
        /\ job[t].way = "write"
    BY <1>9 DEF Phases, Hands, Fanning
  <2>2. /\ \A i \in 1..N : prepared[i].event < job[t].event
        /\ \A n \in DOMAIN due : job[t].event <= n => due[n] = Registered
        /\ job[t].to = Registered
    BY <1>2, <1>5, <1>9 DEF Events, Current, At
  <2>3. job[t].event \in DOMAIN due /\ due[job[t].event] = job[t].to
    BY <1>3, <1>7, <2>1, <2>2
  <2>4. Followed'
    <3>1. ASSUME NEW i \in 1..N, prepared[i].event > 0
          PROVE  /\ prepared[i].event \in DOMAIN due /\ prepared[i].to = due[prepared[i].event]
                 /\ \A j \in 1..N : j < i => prepared[j].event < prepared[i].event
      BY <1>5, <3>1 DEF Events, Followed
    <3>2. ASSUME NEW i \in 1..(N + 1), prepared'[i].event > 0
          PROVE  /\ prepared'[i].event \in DOMAIN due /\ prepared'[i].to = due[prepared'[i].event]
                 /\ \A j \in 1..(N + 1) : j < i => prepared'[j].event < prepared'[i].event
      <4>1. CASE i \in 1..N
        BY <1>5, <3>1, <3>2, <4>1
      <4>2. CASE i = N + 1
        BY <1>4, <1>5, <2>2, <2>3, <4>2
      <4> QED
        BY <1>5, <4>1, <4>2
    <3> QED
      BY <1>2, <1>5, <3>2 DEF Followed
  <2>5. Completed'
    <3>1. ASSUME NEW n \in DOMAIN due
          PROVE  \/ \E i \in 1..(N + 1) : prepared'[i].event = n
                 \/ \E u \in Threads : Dispatching(u, n)'
      <4>1. CASE \E i \in 1..N : prepared[i].event = n
        BY <1>5, <4>1
      <4>2. CASE n = job[t].event
        BY <1>4, <1>5, <4>2
      <4>3. CASE Dispatching(t, n) /\ n # job[t].event
        <5>1. n \in Nat /\ n >= job[t].event + 1 /\ n < job[t].event + job[t].left
          BY <1>3, <1>7, <4>3 DEF Dispatching
        <5>2. job[t].left > 1
          BY <1>3, <5>1
        <5>3. /\ pc'[t] = "resolving" /\ job'[t].way = "write"
              /\ job'[t].event = job[t].event + 1 /\ job'[t].left = job[t].left - 1
          BY <1>1, <1>9, <5>2
        <5>4. Dispatching(t, n)'
          BY <1>3, <5>1, <5>3 DEF Dispatching
        <5> QED
          BY <5>4
      <4>4. CASE \E u \in Threads \ {t} : Dispatching(u, n)
        BY <1>1, <4>4 DEF Dispatching
      <4> QED
        BY <1>5, <4>1, <4>2, <4>3, <4>4 DEF Events, Completed
    <3> QED
      BY <1>2, <1>5, <3>1 DEF Completed
  <2>6. ASSUME NEW u \in Threads PROVE Current(u)'
    <3>1. CASE u # t
      <4>1. ~Fanning(u)
        BY <2>1, <3>1, OneInside
      <4> QED
        BY <1>1, <3>1, <4>1 DEF Current, Fanning
    <3>2. CASE u = t /\ job[t].left > 1
      <4>1. pc'[t] = "resolving" /\ job'[t].event = job[t].event + 1
        BY <1>1, <1>9, <3>2
      <4>2. \A i \in 1..(N + 1) : prepared'[i].event < job[t].event + 1
        BY <1>3, <1>4, <1>5, <1>6, <2>2
      <4>3. \A n \in DOMAIN due : job[t].event + 1 <= n => due[n] = Registered
        BY <1>3, <1>7, <2>2
      <4> QED
        BY <1>2, <1>5, <3>2, <4>1, <4>2, <4>3 DEF Current, Registered
    <3>3. CASE u = t /\ ~(job[t].left > 1)
      BY <1>1, <3>3 DEF Current, Fanning
    <3> QED
      BY <3>1, <3>2, <3>3
  <2> QED
    BY <2>4, <2>5, <2>6 DEF Events
<1> QED
  BY <1>8, <1>9

(* The step that calls for events. *)
LEMMA FiresFollow ==
  ASSUME TypeOK, Phases, Events, NEW t \in Threads, NEW n \in 1..MaxEvents, Append_Fires(t, n)
  PROVE  Events'
<1> DEFINE new == [i \in 1..n |-> Registered]
           D == Len(due)
<1>1. /\ At(t, "written") /\ job[t].way = "write" /\ due' = due \o new
      /\ Go(t, "mapping", Job("write", job[t].key, D + 1, n, {}))
      /\ prepared' = prepared /\ stored' = stored
  BY DEF Append_Fires, Fire, Fires
<1>2. /\ \A u \in Threads \ {t} : pc'[u] = pc[u] /\ job'[u] = job[u]
      /\ pc'[t] = "mapping" /\ job'[t].way = "write"
      /\ job'[t].event = D + 1 /\ job'[t].left = n
  BY <1>1, GoSets, JobFields
<1>3. n \in Nat /\ n > 0
  BY StoreAssumption
<1>4. /\ D \in Nat /\ DOMAIN due = 1..D /\ DOMAIN due' = 1..(D + n)
      /\ \A m \in 1..D : due'[m] = due[m]
      /\ \A m \in (D + 1)..(D + n) : due'[m] = Registered
  <2>1. Registered \in SUBSET Subscribers
    BY DEF Registered
  <2>2. new \in Seq(SUBSET Subscribers) /\ Len(new) = n
    BY <1>3, <2>1
  <2>3. D \in Nat /\ DOMAIN due = 1..D
    BY LenProperties DEF TypeOK
  <2>4. due' \in Seq(SUBSET Subscribers) /\ Len(due') = D + n
    BY <1>1, <2>2, ConcatProperties DEF TypeOK
  <2>5. \A m \in 1..(D + n) : due'[m] = IF m <= D THEN due[m] ELSE new[m - D]
    BY <1>1, <2>2, ConcatProperties DEF TypeOK
  <2>6. DOMAIN due' = 1..(D + n)
    BY <2>4, LenProperties
  <2> QED
    BY <1>3, <2>3, <2>5, <2>6
<1> HIDE DEF new, D
<1>5. \A u \in Threads \ {t} : ~Fanning(u)
  BY <1>1, OneInside
<1>6. Followed'
  <2>1. ASSUME NEW i \in DOMAIN prepared, prepared[i].event > 0
        PROVE  /\ prepared[i].event \in DOMAIN due'
               /\ prepared[i].to = due'[prepared[i].event]
               /\ \A j \in DOMAIN prepared : j < i => prepared[j].event < prepared[i].event
    <3>1. /\ prepared[i].event \in DOMAIN due /\ prepared[i].to = due[prepared[i].event]
          /\ \A j \in DOMAIN prepared : j < i => prepared[j].event < prepared[i].event
      BY <2>1 DEF Events, Followed
    <3> QED
      BY <1>3, <1>4, <3>1
  <2> QED
    BY <1>1, <2>1 DEF Followed
<1>7. Completed'
  <2>1. ASSUME NEW m \in DOMAIN due'
        PROVE  \/ \E i \in DOMAIN prepared : prepared[i].event = m
               \/ \E u \in Threads : Dispatching(u, m)'
    <3>1. CASE m \in 1..D
      <4>1. \A u \in Threads : ~Fanning(u)
        BY <1>1, <1>5 DEF Fanning, Sending, At
      <4> QED
        BY <1>4, <3>1, <4>1 DEF Events, Completed, Dispatching, Fanning, Sending
    <3>2. CASE m \in (D + 1)..(D + n)
      <4>1. D + 1 <= m /\ m < D + 1 + n
        BY <1>3, <1>4, <3>2
      <4> QED
        BY <1>2, <4>1 DEF Dispatching
    <3> QED
      BY <1>3, <1>4, <3>1, <3>2
  <2> QED
    BY <1>1, <2>1 DEF Completed
<1>8. ASSUME NEW u \in Threads PROVE Current(u)'
  <2>1. CASE u # t
    BY <1>2, <1>5, <2>1 DEF Current, Fanning
  <2>2. CASE u = t
    <3>1. \A i \in DOMAIN prepared : prepared[i].event < D + 1
      <4>1. ASSUME NEW i \in DOMAIN prepared PROVE prepared[i].event < D + 1
        <5>1. prepared[i] \in [event : Nat, to : SUBSET Subscribers]
          BY ElementOfSeq, LenProperties DEF TypeOK
        <5>2. prepared[i].event \in Nat
          BY <5>1
        <5>3. prepared[i].event > 0 => prepared[i].event \in 1..D
          BY <1>4 DEF Events, Followed
        <5> QED
          BY <1>4, <5>2, <5>3
      <4> QED
        BY <4>1
    <3>2. \A m \in DOMAIN due' : D + 1 <= m => due'[m] = Registered
      BY <1>3, <1>4
    <3> QED
      BY <1>1, <1>2, <2>2, <3>1, <3>2 DEF Current, Registered
  <2> QED
    BY <2>1, <2>2
<1> QED
  BY <1>6, <1>7, <1>8 DEF Events

LEMMA EventsStep == TypeOK /\ Phases /\ Events /\ [Next]_vars => Events'
<1> SUFFICES ASSUME TypeOK, Phases, Events, [Next]_vars PROVE Events'
  OBVIOUS
<1> USE NoJobFields DEF data, sends, counts
<1>a. Callers \subseteq Threads /\ Worker \in Threads
  BY DEF Threads
<1>b. \A t \in Threads : Ways(t) /\ Hands(t)
  BY DEF Phases
<1>1. ASSUME NEW t \in Threads, Serves(t) PROVE Events'
  <2>1. PICK place \in Pcs, doing \in {NoJob, Job("emit", Free, 0, 1, {})} : Go(t, place, doing)
    BY <1>1 DEF Serves, Arrive, Enter, EnterBeside, Leave, Emit, Pcs
  <2>2. /\ ~Fanning(t) /\ prepared' = prepared /\ due' = due /\ stored' = stored
    BY <1>1 DEF Serves, Arrive, Enter, EnterBeside, Leave, Emit, Fanning, Sending, At
  <2>3. doing.way # "write"
    BY <2>1, JobFields
  <2> QED
    BY <2>1, <2>2, <2>3, OthersFan
<1>2. ASSUME NEW t \in Threads, NEW k \in Keys, NEW version, NEW way,
             Write(t, k, version, way), pc[t] \in {"running", "seeding"}
      PROVE  Events'
  <2>1. /\ Go(t, "written", Job(way, k, 0, 0, {})) /\ owner["store"] = Free
        /\ prepared' = prepared /\ due' = due
    BY <1>2 DEF Write, Take
  <2>2. ~Fanning(t) /\ "written" \notin Sending
    BY <1>2 DEF Fanning, Sending
  <2> QED
    BY <2>1, <2>2, OthersFan
<1>3. ASSUME NEW t \in Threads, NEW k \in Keys, Insert(t, k) \/ Update(t, k) \/ Delete(t, k)
      PROVE  Events'
  BY <1>2, <1>3 DEF Insert, Update, Delete, HandlerWrites, At
\* A thread with no job in hand any more.
<1>4. ASSUME NEW t \in Threads, NEW place, Go(t, place, NoJob), ~Fanning(t),
             prepared' = prepared, due' = due, stored' = stored \/ owner["store"] = Free
      PROVE  Events'
  BY <1>4, OthersFan
<1>5. ASSUME NEW t \in Threads, Append_Silent(t) PROVE Events'
  <2>1. PICK place : Go(t, place, NoJob)
    BY <1>5 DEF Append_Silent, Return
  <2>2. ~Fanning(t) /\ prepared' = prepared /\ due' = due /\ stored' = stored
    BY <1>5 DEF Append_Silent, Fanning, Sending, At
  <2> QED
    BY <1>4, <2>1, <2>2
\* Nobody moves, and the entities change with nobody inside the store at most.
<1>6. ASSUME UNCHANGED <<pc, job, prepared, due>>, stored' = stored \/ owner["store"] = Free
      PROVE  Events'
  <2>1. Followed' /\ Completed'
    BY <1>6 DEF Events, Followed, Completed, Dispatching
  <2>2. ASSUME NEW u \in Threads PROVE Current(u)'
    <3>1. CASE stored' = stored
      BY <1>6, <3>1 DEF Events, Current, Fanning, Registered
    <3>2. CASE owner["store"] = Free
      <4>1. ~Fanning(u)
        BY <3>2, StoreIsEmpty
      <4> QED
        BY <1>6, <4>1 DEF Current, Fanning
    <3> QED
      BY <1>6, <3>1, <3>2
  <2> QED
    BY <2>1, <2>2 DEF Events
<1>7. ASSUME NEW t \in Threads, Controls(t) PROVE Events'
  <2>1. InControl(t) => owner["store"] = Free
    BY ControlFindsItEmpty
  <2>2. CASE Snapshot(t) \/ (\E snapshot \in saved : Restore(t, snapshot)) \/ SeedSkips(t)
    BY <1>6, <2>1, <2>2 DEF Snapshot, Restore, SeedSkips
  <2>3. CASE Reset(t) \/ SeedConflicts(t) \/ Seeded(t)
    <3>1. PICK place : Go(t, place, NoJob)
      BY <2>3 DEF Reset, SeedConflicts, Seeded
    <3>2. /\ ~Fanning(t) /\ prepared' = prepared /\ due' = due
          /\ stored' = stored \/ owner["store"] = Free
      BY <2>1, <2>3 DEF Reset, InControl, SeedConflicts, Seeded, Fanning, Sending, At
    <3> QED
      BY <1>4, <3>1, <3>2
  <2>4. CASE SeedNext(t)
    <3>1. Seed[seeding] \in Keys
      BY <2>4, StoreAssumption, ElementOfSeq DEF SeedNext
    <3> QED
      BY <1>2, <2>4, <3>1 DEF SeedNext, At
  <2> QED
    BY <1>7, <2>2, <2>3, <2>4 DEF Controls
\* A thread that goes on with the job it has.
<1>8. ASSUME NEW t \in Threads, Prepare(t) \/ TakeRequestLock(t) PROVE Events'
  <2>1. PICK place \in {"resolving", "queued"} :
          /\ Go(t, place, job[t])
          /\ place = "queued" => At(t, "queueing")
    BY <1>8 DEF Prepare, TakeRequestLock
  <2>2. /\ prepared' = prepared /\ due' = due /\ stored' = stored
        /\ At(t, "mapping") \/ At(t, "queueing")
    BY <1>8 DEF Prepare, TakeRequestLock
  <2>3. CASE Fanning(t)
    <3>1. place = "queued" => job[t].to = Registered
      BY <2>1, <2>3 DEF Events, Current, At
    <3> QED
      BY <2>1, <2>2, <2>3, <3>1, KeepsFanning DEF Fanning, Sending
  <2>4. CASE ~Fanning(t)
    <3>1. job[t].way # "write"
      BY <2>2, <2>4 DEF Fanning, Sending, At
    <3> QED
      BY <2>1, <2>2, <2>4, <3>1, OthersFan
  <2> QED
    BY <2>3, <2>4
<1>9. ASSUME NEW t \in Threads, NEW to, SendTo(t, to), At(t, "resolving") \/ At(t, "targeting"),
             Fanning(t) => to = Registered, prepared' = prepared, due' = due, stored' = stored
      PROVE  Events'
  <2>1. PICK doing : /\ Go(t, "queueing", doing)
                     /\ doing.way = job[t].way /\ doing.event = job[t].event
                     /\ doing.left = job[t].left /\ doing.to = to
    BY <1>9, JobFields DEF SendTo
  <2>2. CASE Fanning(t)
    BY <1>9, <2>1, <2>2, KeepsFanning DEF Fanning, Sending
  <2>3. CASE ~Fanning(t)
    <3>1. job[t].way # "write"
      BY <1>9, <1>b, <2>3 DEF Ways, Fanning, Sending, At
    <3> QED
      BY <1>9, <2>1, <2>3, <3>1, OthersFan
  <2> QED
    BY <2>2, <2>3
<1>10. ASSUME NEW t \in Threads, Resolve(t) PROVE Events'
  BY <1>9, <1>10 DEF Resolve
<1>11. ASSUME NEW t \in Threads, Queue_More(t) PROVE Events'
  <2>1. PICK doing : /\ Go(t, "resolving", doing) /\ doing.way = "write"
                     /\ doing.event = job[t].event + 1 /\ doing.left = job[t].left - 1
    BY <1>11, JobFields DEF Queue_More
  <2>2. QueueAll(t) /\ At(t, "queued") /\ job[t].left > 1
    BY <1>11 DEF Queue_More, QueueAll
  <2>3. Fanning(t)
    BY <1>b, <2>2 DEF Ways, Hands, Fanning, Sending, At
  <2> QED
    BY <2>1, <2>2, <2>3, QueueFollows
<1>12. ASSUME NEW t \in Threads, Queue_Last(t) PROVE Events'
  <2>1. Go(t, "running", NoJob) /\ QueueAll(t) /\ ~(job[t].left > 1)
    BY <1>12 DEF Queue_Last
  <2> QED
    BY <2>1, QueueFollows
<1>13. ASSUME NEW t \in Callers, Queue_Test(t) PROVE Events'
  <2>1. /\ Go(t, "draining", job[t]) /\ QueueAll(t) /\ ~(job[t].left > 1)
        /\ t \in Threads /\ "draining" \notin Sending
    BY <1>13, <1>a DEF Queue_Test, Sending
  <2> QED
    BY <2>1, QueueFollows
<1>14. ASSUME NEW t \in Callers, Tests(t), ~Queue_Test(t) PROVE Events'
  <2>1. /\ t \in Threads /\ prepared' = prepared /\ due' = due /\ stored' = stored
        /\ pc[t] \in {"idle", "targeting", "draining"}
    BY <1>14, <1>a DEF Tests, TestSubscription, ResolveTarget, Drain, Drained, At
  <2>2. ~Fanning(t)
    BY <2>1 DEF Fanning, Sending
  <2>3. CASE \E s \in Subscribers : TestSubscription(t, s)
    <3>1. PICK doing : Go(t, "targeting", doing) /\ doing.way = "test"
      BY <2>3, JobFields DEF TestSubscription
    <3> QED
      BY <2>1, <2>2, <3>1, OthersFan
  <2>4. CASE ResolveTarget(t)
    <3>1. CASE SendTo(t, {job[t].key})
      BY <1>9, <2>1, <2>2, <2>4, <3>1 DEF ResolveTarget
    <3>2. CASE Go(t, "draining", job[t])
      BY <2>1, <2>2, <3>2, OthersFan DEF Sending
    <3> QED
      BY <2>4, <3>1, <3>2 DEF ResolveTarget
  <2>5. CASE Drain(t)
    <3>1. PICK doing : Go(t, "draining", doing)
      BY <2>5 DEF Drain
    <3> QED
      BY <2>1, <2>2, <3>1, OthersFan DEF Sending
  <2>6. CASE Drained(t)
    BY <1>4, <2>1, <2>2, <2>6 DEF Drained
  <2> QED
    BY <1>14, <2>3, <2>4, <2>5, <2>6 DEF Tests
<1>15. ASSUME Send \/ Sent PROVE Events'
  <2>1. PICK place : Go(Worker, place, NoJob)
    BY <1>15 DEF Send, Sent
  <2>2. ~Fanning(Worker) /\ prepared' = prepared /\ due' = due /\ stored' = stored
    BY <1>15 DEF Send, Sent, Fanning, Sending, At
  <2> QED
    BY <1>4, <1>a, <2>1, <2>2
<1> QED
  BY <1>1, <1>3, <1>5, <1>6, <1>7, <1>8, <1>10, <1>11, <1>12, <1>13, <1>14, <1>15, FiresFollow
     DEF Next, Mutates, Dispatches, Tests, vars

LEMMA InitEvents == Init => Events
<1> SUFFICES ASSUME Init PROVE Events
  OBVIOUS
<1>1. DOMAIN prepared = {} /\ DOMAIN due = {}
  BY DEF Init
<1>2. \A t \in Threads : ~Fanning(t)
  BY DEF Init, Fanning, Sending
<1> QED
  BY <1>1, <1>2 DEF Events, Followed, Completed, Current

(* The events prepared are those the journal calls for, in its order, each *)
(* for whom the subscribers were when it was journalled, for any callers,  *)
(* and whatever the mapper makes of an entry.                              *)
THEOREM EventsFollow == Spec => []EventsFollowJournal
<1>1. Events => EventsFollowJournal
  BY DEF Events, Followed, Completed, EventsFollowJournal
<1>2. Init => Events
  BY InitEvents
<1>3. TypeOK /\ Phases /\ Events /\ [Next]_vars => Events'
  BY EventsStep
<1> QED
  BY <1>1, <1>2, <1>3, TypeCorrect, PTL DEF Spec
-----------------------------------------------------------------------------
(* The outbox the store implements.                                        *)

LEMMA VersionTold ==
  ASSUME NEW log \in Logs, NEW k \in Keys, NEW v \in Nat, Tells(log, k, v)
  PROVE  Outbox!Version(log, k) = v
<1> DEFINE about == Outbox!About(log, k)
<1>1. DOMAIN log = 1..Len(log) /\ Len(log) \in Nat
      /\ about \subseteq DOMAIN log /\ \A i \in DOMAIN log : i \in about <=> log[i].key = k
  BY LenProperties DEF Logs, Outbox!About
<1>2. Outbox!Version(log, k) =
        IF about = {} THEN 0
        ELSE log[CHOOSE i \in about : \A j \in about : j <= i].to
  BY DEF Outbox!Version
<1> HIDE DEF about
<1>3. CASE v = 0 /\ \A i \in DOMAIN log : log[i].key # k
  BY <1>1, <1>2, <1>3
<1>4. ASSUME NEW i \in DOMAIN log, log[i] = Entry(k, v),
             \A j \in DOMAIN log : j > i => log[j].key # k
      PROVE  Outbox!Version(log, k) = v
  <2>1. log[i].key = k /\ log[i].to = v
    BY <1>4 DEF Entry
  <2>2. i \in about /\ \A j \in about : j <= i
    BY <1>1, <1>4, <2>1
  <2>3. \A m \in about : (\A j \in about : j <= m) => m = i
    BY <1>1, <2>2
  <2>4. (CHOOSE m \in about : \A j \in about : j <= m) = i
    BY <2>2, <2>3
  <2> QED
    BY <1>2, <2>1, <2>2, <2>4
<1> QED
  BY <1>3, <1>4 DEF Tells

(* What a thread has written and not journalled follows on what the        *)
(* journal tells.                                                          *)
Follows(before, after) ==
  \/ before = 0 /\ after = 1
  \/ before > 0 /\ after \in {0, before + 1}

Owed ==
  \A t \in Threads :
    At(t, "written") =>
      \E v \in Nat : Tells(journal, job[t].key, v) /\ Follows(v, stored[job[t].key])

LEMMA OwedStep == TypeOK /\ Phases /\ Traced /\ Owed /\ [Next]_vars => Owed'
<1> SUFFICES ASSUME TypeOK, Phases, Traced, Owed, [Next]_vars PROVE Owed'
  OBVIOUS
<1> USE DEF data, sends, counts
<1>a. Callers \subseteq Threads /\ Worker \in Threads
  BY DEF Threads
<1>b. stored \in [Keys -> Nat] /\ journal \in Logs
  BY DEF TypeOK
<1>1. ASSUME NEW t \in Threads, NEW place, NEW doing, Go(t, place, doing), place # "written",
             UNCHANGED <<stored, journal>>
      PROVE  Owed'
  BY <1>1, GoSets DEF Owed, At
<1>2. ASSUME UNCHANGED <<pc, job, stored, journal>> PROVE Owed'
  BY <1>2 DEF Owed, At
<1>3. ASSUME NEW t \in Threads, NEW place, NEW doing, Go(t, place, doing), place # "written",
             \A u \in Threads \ {t} : ~At(u, "written")
      PROVE  Owed'
  BY <1>3, GoSets DEF Owed, At
<1>4. ASSUME NEW t \in Threads, Serves(t) \/ Dispatches(t) PROVE Owed'
  <2>1. PICK place \in Pcs \ {"written"} : \E doing : Go(t, place, doing)
    BY <1>4 DEF Serves, Arrive, Enter, EnterBeside, Leave, Emit, Dispatches, Prepare, Resolve,
                SendTo, TakeRequestLock, Queue_More, Queue_Last, Pcs
  <2>2. UNCHANGED <<stored, journal>>
    BY <1>4 DEF Serves, Arrive, Enter, EnterBeside, Leave, Emit, Dispatches, Prepare, Resolve,
                TakeRequestLock, Queue_More, Queue_Last, QueueAll
  <2> QED
    BY <1>1, <2>1, <2>2
<1>5. ASSUME NEW t \in Callers, Tests(t) PROVE Owed'
  <2>1. PICK place \in Pcs \ {"written"} : \E doing : Go(t, place, doing)
    BY <1>5 DEF Tests, TestSubscription, ResolveTarget, SendTo, Queue_Test, Drain, Drained, Pcs
  <2>2. UNCHANGED <<stored, journal>> /\ t \in Threads
    BY <1>5, <1>a DEF Tests, TestSubscription, ResolveTarget, Queue_Test, QueueAll, Drain, Drained
  <2> QED
    BY <1>1, <2>1, <2>2
<1>6. ASSUME Send \/ Sent PROVE Owed'
  BY <1>1, <1>6, <1>a DEF Send, Sent
<1>7. ASSUME NEW t \in Threads, NEW k \in Keys, NEW version, NEW way, Write(t, k, version, way),
             Follows(stored[k], version)
      PROVE  Owed'
  <2>1. stored'[k] = version /\ journal' = journal
    BY <1>b, <1>7 DEF Write
  <2>2. \A u \in Threads : ~At(u, "written")
    BY <1>7, StoreIsEmpty DEF Write, Take
  <2>3. /\ \A u \in Threads \ {t} : ~At(u, "written")'
        /\ job'[t].key = k
    BY <1>7, <2>2, GoSets, JobFields DEF Write, At
  <2>4. stored[k] \in Nat /\ Tells(journal, k, stored[k])
    BY <1>b, <2>2 DEF Traced
  <2> QED
    BY <1>7, <2>1, <2>3, <2>4 DEF Owed
<1>8. ASSUME NEW t \in Threads, NEW k \in Keys, Insert(t, k) \/ Update(t, k) \/ Delete(t, k)
      PROVE  Owed'
  <2>1. PICK version \in {1, stored[k] + 1, 0} :
          Write(t, k, version, "write") /\ Follows(stored[k], version)
    BY <1>8 DEF Insert, Update, Delete, HandlerWrites, Follows
  <2> QED
    BY <1>7, <2>1
<1>9. ASSUME NEW t \in Threads, At(t, "written"), NEW place, NEW doing, Go(t, place, doing),
             place # "written"
      PROVE  Owed'
  <2>1. job[t].way \in {"write", "seed"}
    BY <1>9 DEF Phases, Ways
  <2> QED
    BY <1>3, <1>9, <2>1, OneInside
<1>10. ASSUME NEW t \in Threads, NEW n \in 1..MaxEvents, Append_Fires(t, n) PROVE Owed'
  BY <1>9, <1>10 DEF Append_Fires, Fire
<1>11. ASSUME NEW t \in Threads, Append_Silent(t) PROVE Owed'
  BY <1>9, <1>11 DEF Append_Silent, Return
<1>12. ASSUME NEW t \in Threads, Controls(t) PROVE Owed'
  <2>1. InControl(t) => \A u \in Threads : ~At(u, "written")
    BY ControlFindsItEmpty, StoreIsEmpty
  <2>2. CASE Snapshot(t) \/ \E snapshot \in saved : Restore(t, snapshot)
    BY <2>1, <2>2 DEF Snapshot, Restore, Owed, At
  <2>3. CASE Reset(t)
    BY <1>3, <2>1, <2>3 DEF Reset
  <2>4. CASE SeedNext(t)
    <3>1. Seed[seeding] \in Keys
      BY <2>4, StoreAssumption, ElementOfSeq DEF SeedNext
    <3> QED
      BY <1>7, <2>4, <3>1 DEF SeedNext, Follows
  <2>5. CASE SeedSkips(t)
    BY <1>2, <2>5 DEF SeedSkips
  <2>6. CASE SeedConflicts(t) \/ Seeded(t)
    BY <1>1, <2>6 DEF SeedConflicts, Seeded
  <2> QED
    BY <1>12, <2>2, <2>3, <2>4, <2>5, <2>6 DEF Controls
<1> QED
  BY <1>2, <1>4, <1>5, <1>6, <1>8, <1>10, <1>11, <1>12 DEF Next, Mutates, vars

(* When no thread fans out, every event called for is out. *)
LEMMA NobodyFansOut ==
  ASSUME TypeOK, Phases, Events, \A t \in Threads : ~Fanning(t)
  PROVE  Outbox!AllOut
<1> SUFFICES ASSUME NEW n \in DOMAIN due PROVE [event |-> n, to |-> due[n]] \in PreparedOfJournal
  BY DEF Outbox!AllOut, Outbox!Event
<1>1. n \in Nat /\ n > 0
  BY LenProperties DEF TypeOK
<1>2. PICK i \in DOMAIN prepared : prepared[i].event = n
  BY DEF Events, Completed, Dispatching, Fanning, Sending
<1>3. prepared[i] \in [event : Nat, to : SUBSET Subscribers]
  BY ElementOfSeq, LenProperties DEF TypeOK
<1>4. prepared[i].to = due[n]
  BY <1>1, <1>2 DEF Events, Followed
<1>5. prepared[i] = [event |-> n, to |-> due[n]]
  BY <1>2, <1>3, <1>4
<1> QED
  BY <1>1, <1>2, <1>5 DEF PreparedOfJournal

LEMMA PreparedGrows ==
  ASSUME TypeOK, NEW e \in [event : Nat, to : SUBSET Subscribers],
         prepared' = Append(prepared, e)
  PROVE  PreparedOfJournal' =
           IF e.event > 0 THEN PreparedOfJournal \cup {e} ELSE PreparedOfJournal
<1> DEFINE N == Len(prepared)
<1>1. /\ N \in Nat /\ DOMAIN prepared = 1..N /\ DOMAIN prepared' = 1..(N + 1)
      /\ prepared'[N + 1] = e /\ \A i \in 1..N : prepared'[i] = prepared[i]
  BY AppendProperties, LenProperties DEF TypeOK
<1> HIDE DEF N
<1>2. PreparedOfJournal = {prepared[i] : i \in {k \in 1..N : prepared[k].event > 0}}
  BY <1>1 DEF PreparedOfJournal
<1>3. PreparedOfJournal' = {prepared'[i] : i \in {k \in 1..(N + 1) : prepared'[k].event > 0}}
  BY <1>1 DEF PreparedOfJournal
<1>4. {prepared'[i] : i \in {k \in 1..N : prepared'[k].event > 0}} = PreparedOfJournal
  BY <1>1, <1>2
<1>5. 1..(N + 1) = 1..N \cup {N + 1}
  BY <1>1
<1> QED
  BY <1>1, <1>3, <1>4, <1>5

(* The step of a thread that sends an event is a step of the outbox, if    *)
(* the journal called for it.                                              *)
LEMMA QueueIsSending ==
  ASSUME TypeOK, Phases, Events, NEW t \in Threads, QueueAll(t)
  PROVE  \/ \E n \in DOMAIN due : Outbox!SendNext(n)
         \/ UNCHANGED Outbox!vars
<1> DEFINE e == [event |-> job[t].event, to |-> job[t].to]
<1>1. /\ job[t].event \in Nat /\ job[t].left \in Nat /\ job[t].to \in SUBSET Subscribers
  BY FieldsTyped DEF TypeOK
<1>2. e \in [event : Nat, to : SUBSET Subscribers] /\ e.event = job[t].event
  BY <1>1
<1>3. At(t, "queued") /\ prepared' = Append(prepared, e)
      /\ UNCHANGED <<journal, saved, due>>
  BY DEF QueueAll, data
<1>4. SavedLogs' = SavedLogs
  BY <1>3 DEF SavedLogs
<1> HIDE DEF e
<1>5. PreparedOfJournal' =
        IF job[t].event > 0 THEN PreparedOfJournal \cup {e} ELSE PreparedOfJournal
  BY <1>2, <1>3, PreparedGrows
<1>6. CASE ~Fanning(t)
  <2>1. job[t].event = 0
    BY <1>6 DEF Phases, Hands
  <2> QED
    BY <1>3, <1>4, <1>5, <2>1 DEF Outbox!vars
<1>7. CASE Fanning(t)
  <2> DEFINE n == job[t].event
  <2>1. /\ n > 0 /\ job[t].left > 0 /\ n + job[t].left = Len(due) + 1
        /\ job[t].way = "write"
    BY <1>7 DEF Phases, Hands, Fanning
  <2>2. /\ \A i \in DOMAIN prepared : prepared[i].event < n
        /\ \A m \in DOMAIN due : n <= m => due[m] = Registered
        /\ job[t].to = Registered
    BY <1>3, <1>7 DEF Events, Current, At
  <2>3. DOMAIN due = 1..Len(due) /\ Len(due) \in Nat
    BY LenProperties DEF TypeOK
  <2>4. n \in DOMAIN due /\ e = Outbox!Event(n)
    BY <1>1, <2>1, <2>2, <2>3 DEF e, Outbox!Event
  <2>5. Outbox!Event(n) \notin PreparedOfJournal
    <3>1. \A m : Outbox!Event(m).event = m
      BY DEF Outbox!Event
    <3>2. \A i \in DOMAIN prepared : prepared[i].event # n
      <4>1. ASSUME NEW i \in DOMAIN prepared PROVE prepared[i].event # n
        <5>1. prepared[i] \in [event : Nat, to : SUBSET Subscribers]
          BY ElementOfSeq, LenProperties DEF TypeOK
        <5>2. prepared[i].event \in Nat /\ prepared[i].event < n
          BY <2>2, <5>1
        <5> QED
          BY <1>1, <5>2
      <4> QED
        BY <4>1
    <3> QED
      BY <3>1, <3>2 DEF PreparedOfJournal
  <2>6. ASSUME NEW m \in 1..n - 1 PROVE Outbox!Event(m) \in PreparedOfJournal
    <3>1. m \in DOMAIN due /\ m > 0 /\ m < n
      BY <1>1, <2>3, <2>4
    <3>2. \A u \in Threads : ~Dispatching(u, m)
      <4>1. ~Dispatching(t, m)
        BY <1>1, <2>3, <3>1 DEF Dispatching
      <4>2. \A u \in Threads \ {t} : ~Fanning(u)
        BY <2>1, OneInside
      <4> QED
        BY <4>1, <4>2 DEF Dispatching, Fanning, Sending
    <3>3. PICK i \in DOMAIN prepared : prepared[i].event = m
      BY <3>1, <3>2 DEF Events, Completed
    <3>4. prepared[i] \in [event : Nat, to : SUBSET Subscribers]
      BY ElementOfSeq, LenProperties DEF TypeOK
    <3>5. prepared[i].to = due[m]
      BY <3>1, <3>3 DEF Events, Followed
    <3>6. prepared[i] = Outbox!Event(m)
      BY <3>3, <3>4, <3>5 DEF Outbox!Event
    <3> QED
      BY <3>1, <3>3, <3>6 DEF PreparedOfJournal
  <2>7. PreparedOfJournal' = PreparedOfJournal \cup {Outbox!Event(n)}
    BY <1>5, <2>1, <2>4
  <2> HIDE DEF n
  <2>8. Outbox!SendNext(n)
    BY <1>3, <1>4, <2>5, <2>6, <2>7 DEF Outbox!SendNext
  <2> QED
    BY <2>4, <2>8
<1> QED
  BY <1>6, <1>7

(* Journalling what was written is the change, with its events.            *)
LEMMA AppendIsChange ==
  ASSUME TypeOK, Phases, Traced, Owed, Events, NEW t \in Threads, At(t, "written"),
         AppendEntry(t), NEW n \in 0..MaxEvents, n > 0 => job[t].key \notin Subscribers,
         due' = due \o [i \in 1..n |-> Registered], UNCHANGED <<saved, prepared>>
  PROVE  \E k \in Keys : Outbox!Create(k) \/ Outbox!Update(k) \/ Outbox!Delete(k)
<1> DEFINE k == job[t].key
<1>1. k \in Keys /\ job[t].way \in {"write", "seed"}
  BY DEF Phases, Ways, Hands
<1>2. \A u \in Threads : ~Fanning(u)
  BY <1>1, OneInside DEF Fanning, Sending, At
<1>3. Outbox!AllOut
  BY <1>2, NobodyFansOut
<1>4. journal \in Logs /\ stored \in [Keys -> Nat]
  BY DEF TypeOK
<1>5. PICK v \in Nat : Tells(journal, k, v) /\ Follows(v, stored[k])
  BY DEF Owed
<1>6. Outbox!Version(journal, k) = v
  BY <1>1, <1>4, <1>5, VersionTold
<1>7. n > 0 => Outbox!Following(journal) = Registered
  <2> SUFFICES ASSUME k \notin Subscribers, NEW s \in Subscribers
               PROVE  Outbox!Version(journal, s) = stored[s]
    BY DEF Outbox!Following, Registered
  <2>1. s \in Keys /\ s # k
    BY DEF Keys
  <2>2. Tells(journal, s, stored[s])
    BY <1>1, <2>1, OneInside DEF Traced
  <2> QED
    BY <1>4, <2>1, <2>2, VersionTold
<1>8. due' = due \o [i \in 1..n |-> Outbox!Following(journal)]
  <2>1. CASE n > 0
    BY <1>7, <2>1
  <2>2. CASE n = 0
    <3>1. 1..n = {}
      BY <2>2
    <3>2. [i \in 1..n |-> Registered] = [i \in 1..n |-> Outbox!Following(journal)]
      BY <3>1
    <3> QED
      BY <3>2
  <2> QED
    BY <2>1, <2>2
<1>9. journal' = Append(journal, [key |-> k, to |-> stored[k]])
  BY DEF AppendEntry, Entry
<1>10. SavedLogs' = SavedLogs /\ PreparedOfJournal' = PreparedOfJournal
  BY DEF SavedLogs, PreparedOfJournal
<1>11. n > 0 => k \notin Subscribers
  OBVIOUS
<1> HIDE DEF k
<1>12. Outbox!Change(k, stored[k])
  BY <1>3, <1>8, <1>9, <1>10, <1>11 DEF Outbox!Change
<1>13. CASE v = 0 /\ stored[k] = 1
  BY <1>1, <1>6, <1>12, <1>13 DEF Outbox!Create
<1>14. CASE v > 0 /\ stored[k] = v + 1
  BY <1>1, <1>6, <1>12, <1>14 DEF Outbox!Update
<1>15. CASE v > 0 /\ stored[k] = 0
  BY <1>1, <1>6, <1>12, <1>15 DEF Outbox!Delete
<1> QED
  BY <1>5, <1>13, <1>14, <1>15 DEF Follows

LEMMA OutboxStep ==
  TypeOK /\ Phases /\ Traced /\ Owed /\ Events /\ [Next]_vars => [Outbox!Next]_(Outbox!vars)
<1> SUFFICES ASSUME TypeOK, Phases, Traced, Owed, Events, [Next]_vars
             PROVE  Outbox!Next \/ UNCHANGED Outbox!vars
  OBVIOUS
<1> USE DEF data, sends, counts
<1>a. Callers \subseteq Threads /\ Worker \in Threads
  BY DEF Threads
<1>1. ASSUME UNCHANGED <<journal, saved, due, prepared>> PROVE UNCHANGED Outbox!vars
  BY <1>1 DEF Outbox!vars, SavedLogs, PreparedOfJournal
<1>2. ASSUME NEW t \in Threads, QueueAll(t) PROVE Outbox!Next \/ UNCHANGED Outbox!vars
  BY <1>2, QueueIsSending DEF Outbox!Next
<1>3. ASSUME NEW t \in Threads, Serves(t) PROVE UNCHANGED Outbox!vars
  BY <1>1, <1>3 DEF Serves, Arrive, Enter, EnterBeside, Leave, Emit
<1>4. ASSUME NEW t \in Threads, Dispatches(t) PROVE Outbox!Next \/ UNCHANGED Outbox!vars
  <2>1. CASE Prepare(t) \/ Resolve(t) \/ TakeRequestLock(t)
    BY <1>1, <2>1 DEF Prepare, Resolve, TakeRequestLock
  <2>2. CASE Queue_More(t) \/ Queue_Last(t)
    BY <1>2, <2>2 DEF Queue_More, Queue_Last
  <2> QED
    BY <1>4, <2>1, <2>2 DEF Dispatches
<1>5. ASSUME NEW t \in Callers, Tests(t) PROVE Outbox!Next \/ UNCHANGED Outbox!vars
  <2>1. CASE Queue_Test(t)
    BY <1>2, <1>a, <2>1 DEF Queue_Test
  <2>2. CASE ~Queue_Test(t)
    BY <1>1, <1>5, <2>2 DEF Tests, TestSubscription, ResolveTarget, Drain, Drained
  <2> QED
    BY <2>1, <2>2
<1>6. ASSUME Send \/ Sent PROVE UNCHANGED Outbox!vars
  BY <1>1, <1>6 DEF Send, Sent
<1>7. ASSUME NEW t \in Threads, NEW k \in Keys, Insert(t, k) \/ Update(t, k) \/ Delete(t, k)
      PROVE  UNCHANGED Outbox!vars
  BY <1>1, <1>7 DEF Insert, Update, Delete, HandlerWrites, Write
<1>8. ASSUME NEW t \in Threads, Append_Silent(t) PROVE Outbox!Next
  <2>1. due \o [i \in 1..0 |-> Registered] = due
    <3>1. [i \in 1..0 |-> Registered] = << >>
      OBVIOUS
    <3> QED
      BY <3>1, ConcatEmptySeq DEF TypeOK
  <2>2. At(t, "written") /\ AppendEntry(t) /\ UNCHANGED <<saved, prepared, due>>
    BY <1>8 DEF Append_Silent
  <2>3. 0 \in 0..MaxEvents /\ ~(0 > 0)
    BY StoreAssumption
  <2>4. \E k \in Keys : Outbox!Create(k) \/ Outbox!Update(k) \/ Outbox!Delete(k)
    BY <2>1, <2>2, <2>3, AppendIsChange
  <2> QED
    BY <2>4 DEF Outbox!Next
<1>9. ASSUME NEW t \in Threads, NEW n \in 1..MaxEvents, Append_Fires(t, n) PROVE Outbox!Next
  <2>1. At(t, "written") /\ AppendEntry(t) /\ UNCHANGED <<saved, prepared>>
        /\ job[t].key \notin Subscribers /\ due' = due \o [i \in 1..n |-> Registered]
    BY <1>9 DEF Append_Fires, Fire, Fires
  <2>2. n \in 0..MaxEvents
    BY StoreAssumption
  <2>3. \E k \in Keys : Outbox!Create(k) \/ Outbox!Update(k) \/ Outbox!Delete(k)
    BY <2>1, <2>2, AppendIsChange
  <2> QED
    BY <2>3 DEF Outbox!Next
<1>10. ASSUME NEW t \in Threads, Controls(t) PROVE Outbox!Next \/ UNCHANGED Outbox!vars
  <2>1. InControl(t) => Outbox!AllOut
    BY ControlFindsItEmpty, StoreIsEmpty, NobodyFansOut
  <2>2. prepared' = prepared => PreparedOfJournal' = PreparedOfJournal
    BY DEF PreparedOfJournal
  <2>3. saved' = saved => SavedLogs' = SavedLogs
    BY DEF SavedLogs
  <2>4. CASE Snapshot(t)
    <3>1. SavedLogs' = {journal}
      BY <2>4 DEF Snapshot, SavedLogs
    <3>2. Outbox!Save
      BY <2>1, <2>2, <2>4, <3>1 DEF Snapshot, Outbox!Save
    <3> QED
      BY <3>2 DEF Outbox!Next
  <2>5. ASSUME NEW snapshot \in saved, Restore(t, snapshot) PROVE Outbox!Next
    <3>1. journal' \in SavedLogs
      BY <2>5 DEF Restore, SavedLogs
    <3>2. Outbox!Restore
      BY <2>1, <2>2, <2>3, <2>5, <3>1 DEF Restore, Outbox!Restore
    <3> QED
      BY <3>2 DEF Outbox!Next
  <2>6. CASE Reset(t)
    <3>1. Outbox!Clear
      BY <2>1, <2>2, <2>3, <2>6 DEF Reset, Outbox!Clear
    <3> QED
      BY <3>1 DEF Outbox!Next
  <2>7. CASE SeedNext(t) \/ SeedSkips(t) \/ SeedConflicts(t) \/ Seeded(t)
    BY <1>1, <2>7 DEF SeedNext, Write, SeedSkips, SeedConflicts, Seeded
  <2> QED
    BY <1>10, <2>4, <2>5, <2>6, <2>7 DEF Controls
<1>11. CASE UNCHANGED vars
  BY <1>1, <1>11 DEF vars
<1> QED
  BY <1>3, <1>4, <1>5, <1>6, <1>7, <1>8, <1>9, <1>10, <1>11 DEF Next, Mutates

LEMMA InitOutbox == Init => Outbox!Init /\ Owed
<1> SUFFICES ASSUME Init PROVE Outbox!Init /\ Owed
  OBVIOUS
<1>1. SavedLogs = {} /\ PreparedOfJournal = {}
  BY DEF Init, SavedLogs, PreparedOfJournal
<1>2. Outbox!Init
  BY <1>1 DEF Init, Entry, Outbox!Init
<1>3. Owed
  BY DEF Init, Owed, At
<1> QED
  BY <1>2, <1>3

(* Seen through the journal, every change is one step with its events and  *)
(* waits until the events before it are out, for any callers, keys and     *)
(* seed, whatever routes run outside the pipeline lock.                    *)
THEOREM StoreIsOutbox == Spec => FollowsOutbox
<1>1. Init => Traced /\ Events /\ Owed /\ Outbox!Init
  BY InitTraced, InitEvents, InitOutbox
<1>2. TypeOK /\ Phases /\ Traced /\ [Next]_vars => Traced'
  BY TracedStep
<1>3. TypeOK /\ Phases /\ Events /\ [Next]_vars => Events'
  BY EventsStep
<1>4. TypeOK /\ Phases /\ Traced /\ Owed /\ [Next]_vars => Owed'
  BY OwedStep
<1>5. TypeOK /\ Phases /\ Traced /\ Owed /\ Events /\ [Next]_vars
        => [Outbox!Next]_(Outbox!vars)
  BY OutboxStep
<1> QED
  BY <1>1, <1>2, <1>3, <1>4, <1>5, TypeCorrect, PTL DEF Spec, FollowsOutbox, Outbox!Spec
=============================================================================
