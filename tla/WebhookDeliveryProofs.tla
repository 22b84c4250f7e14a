----------------------- MODULE WebhookDeliveryProofs -----------------------
(***************************************************************************)
(* The safety properties of WebhookDelivery, for any number of events,     *)
(* subscribers, copies, callers and any schedule.  Inv, at the end of the  *)
(* first part, is what all of them rest on: the types, that a caller holds *)
(* a job exactly while it fires it, what sort of job can be where, and     *)
(* that every delivery is in one place.  Each property then adds what      *)
(* makes it inductive: Counted, Stoppers, Spaced, Ordered, Seconds and     *)
(* Settling.                                                               *)
(***************************************************************************)
EXTENDS WebhookDelivery, SetInduction, FiniteSetTheorems, SequenceTheorems

-----------------------------------------------------------------------------
(* Entries of the sequences the actions build.                             *)
LEMMA EntriesAppend ==
  ASSUME NEW S, NEW s \in Seq(S), NEW x
  PROVE  Entries(Append(s, x)) = Entries(s) \cup {x}
BY DEF Entries

LEMMA EntriesConcat ==
  ASSUME NEW S, NEW s \in Seq(S), NEW t \in Seq(S)
  PROVE  Entries(s \o t) = Entries(s) \cup Entries(t)
<1>1. \A i \in 1 .. Len(s \o t) :
        (s \o t)[i] = IF i <= Len(s) THEN s[i] ELSE t[i - Len(s)]
  OBVIOUS
<1>2. Entries(s \o t) \subseteq Entries(s) \cup Entries(t)
  BY <1>1 DEF Entries
<1>3. \A i \in 1 .. Len(s) : s[i] = (s \o t)[i] /\ i \in 1 .. Len(s \o t)
  OBVIOUS
<1>4. \A i \in 1 .. Len(t) : t[i] = (s \o t)[Len(s) + i] /\ Len(s) + i \in 1 .. Len(s \o t)
  OBVIOUS
<1>5. Entries(s) \subseteq Entries(s \o t)
  BY <1>3 DEF Entries
<1>6. Entries(t) \subseteq Entries(s \o t)
  BY <1>4 DEF Entries
<1> QED
  BY <1>2, <1>5, <1>6

LEMMA EntriesTail ==
  ASSUME NEW S, NEW s \in Seq(S), s # <<>>
  PROVE  /\ Head(s) \in S /\ Tail(s) \in Seq(S) /\ Head(s) = s[1] /\ Len(Tail(s)) = Len(s) - 1
         /\ \A i \in 1 .. Len(Tail(s)) : Tail(s)[i] = s[i + 1]
         /\ Entries(s) = {Head(s)} \cup Entries(Tail(s))
<1>1. /\ Head(s) \in S /\ Tail(s) \in Seq(S) /\ Head(s) = s[1] /\ Len(Tail(s)) = Len(s) - 1
      /\ \A i \in 1 .. Len(Tail(s)) : Tail(s)[i] = s[i + 1]
  OBVIOUS
<1>2. \A i \in 1 .. Len(s) : i = 1 \/ (i - 1 \in 1 .. Len(Tail(s)) /\ s[i] = Tail(s)[i - 1])
  BY <1>1
<1>3. Entries(s) \subseteq {Head(s)} \cup Entries(Tail(s))
  BY <1>1, <1>2 DEF Entries
<1>4. \A i \in 1 .. Len(Tail(s)) : i + 1 \in 1 .. Len(s)
  BY <1>1
<1>5. {Head(s)} \cup Entries(Tail(s)) \subseteq Entries(s)
  BY <1>1, <1>4 DEF Entries
<1> QED
  BY <1>1, <1>3, <1>5

LEMMA EntriesRemove ==
  ASSUME NEW S, NEW s \in Seq(S), NEW i \in 1 .. Len(s)
  PROVE  /\ RemoveAt(s, i) \in Seq(S) /\ Len(RemoveAt(s, i)) = Len(s) - 1
         /\ \A k \in 1 .. Len(s) - 1 : RemoveAt(s, i)[k] = IF k < i THEN s[k] ELSE s[k + 1]
         /\ Entries(s) = {s[i]} \cup Entries(RemoveAt(s, i))
<1> DEFINE a == SubSeq(s, 1, i - 1)
           b == SubSeq(s, i + 1, Len(s))
           r == RemoveAt(s, i)
<1>1. a \in Seq(S) /\ Len(a) = i - 1 /\ \A k \in 1 .. i - 1 : a[k] = s[k]
  OBVIOUS
<1>2. b \in Seq(S) /\ Len(b) = Len(s) - i /\ \A k \in 1 .. Len(s) - i : b[k] = s[i + k]
  OBVIOUS
<1>3. r = a \o b
  BY DEF RemoveAt
<1> HIDE DEF a, b
<1>4. /\ a \o b \in Seq(S) /\ Len(a \o b) = Len(s) - 1
      /\ \A k \in 1 .. Len(s) - 1 : (a \o b)[k] = IF k < i THEN s[k] ELSE s[k + 1]
  <2>1. a \o b \in Seq(S) /\ Len(a \o b) = Len(s) - 1
    <3>1. a \o b \in Seq(S) /\ Len(a \o b) = Len(a) + Len(b)
      BY <1>1, <1>2, ConcatProperties
    <3>2. Len(a) + Len(b) = Len(s) - 1
      BY <1>1, <1>2
    <3> QED
      BY <3>1, <3>2
  <2>2. ASSUME NEW k \in 1 .. Len(s) - 1
        PROVE  (a \o b)[k] = IF k < i THEN s[k] ELSE s[k + 1]
    <3>1. (a \o b)[k] = IF k <= Len(a) THEN a[k] ELSE b[k - Len(a)]
      <4>1. k \in 1 .. Len(a) + Len(b)
        BY <1>1, <1>2
      <4> QED
        BY <1>1, <1>2, <4>1, ConcatProperties
    <3>2. CASE k < i
      BY <1>1, <3>1, <3>2
    <3>3. CASE ~(k < i)
      <4>1. k - (i - 1) \in 1 .. Len(s) - i
        BY <3>3
      <4>2. b[k - (i - 1)] = s[i + (k - (i - 1))]
        BY <1>2, <4>1
      <4>3. i + (k - (i - 1)) = k + 1 /\ ~(k <= Len(a))
        BY <1>1, <3>3
      <4> QED
        BY <1>1, <3>1, <3>3, <4>2, <4>3
    <3> QED
      BY <3>2, <3>3
  <2> QED
    BY <2>1, <2>2
<1> HIDE DEF r
<1>5. /\ r \in Seq(S) /\ Len(r) = Len(s) - 1
      /\ \A k \in 1 .. Len(s) - 1 : r[k] = IF k < i THEN s[k] ELSE s[k + 1]
  BY <1>3, <1>4
<1>6. \A k \in 1 .. Len(s) : \/ k = i
                             \/ k < i /\ k \in 1 .. Len(r) /\ s[k] = r[k]
                             \/ k > i /\ k - 1 \in 1 .. Len(r) /\ s[k] = r[k - 1]
  BY <1>5
<1>7. Entries(s) \subseteq {s[i]} \cup Entries(r)
  BY <1>6 DEF Entries
<1>8. \A k \in 1 .. Len(r) : r[k] \in Entries(s)
  BY <1>5 DEF Entries
<1>9. {s[i]} \cup Entries(r) \subseteq Entries(s)
  BY <1>8 DEF Entries
<1> QED
  BY <1>5, <1>7, <1>9 DEF r

(* The chains of a set of jobs. *)
LEMMA ChainUnion ==
  ASSUME NEW A, NEW B
  PROVE  Chain(A \cup B) = Chain(A) \cup Chain(B)
BY DEF Chain

LEMMA ChainOne ==
  ASSUME NEW j
  PROVE  Chain({j}) = IF j.kind = "skipped" THEN {} ELSE {j.chain}
BY DEF Chain

LEMMA ForemostIs ==
  ASSUME NEW F, F \subseteq Nat, F # {}
  PROVE  LET f == CHOOSE s \in F : \A t \in F : s <= t IN f \in F /\ \A t \in F : f <= t
BY LeastNat

-----------------------------------------------------------------------------
(* Types.                                                                  *)

JobOrNone == Jobs \cup {NoJob}
Timers == [due : Nat, job : Jobs]
Statuses == {"delivered", "exhausted", "failed", "skipped", "dropped"}
Records == [chain : Chains, attempt : Nat, status : Statuses, chaos : Labels,
            at : Nat, next : Nat]
Losses == [chain : Chains, why : {"refused", "overwritten", "cleared"}]
CallerStates ==
  [pc : {"idle", "quiesce", "look", "asleep", "move", "settle", "scan", "fire", "stopping",
         "joining", "clearing", "settled", "gaveup", "advanced", "unit_stopped"},
   route : AllRoutes \cup {"none"}, hand : JobOrNone, step : Nat, passes : Int,
   asked : SUBSET Chains, doomed : SUBSET Jobs, told : {"nothing", "settled", "gaveup"}]

WorkerTypes ==
  /\ queue \in Seq(Jobs) /\ inHand \in JobOrNone /\ delay \in Nat
  /\ wpc \in {"idle", "started", "acked", "refused", "retrying", "scheduling"}
  /\ wpc = "idle" <=> inHand = NoJob
  /\ wpc \notin {"idle", "started"} => inHand.kind = "attempt"
ClockTypes == timers \in Seq(Timers) /\ popped \subseteq Jobs /\ now \in Nat
RequestTypes ==
  /\ held \in JobOrNone /\ fanout \subseteq Subs /\ chains \subseteq Chains
  /\ emitted \in 0 .. MaxEvents /\ (fanout # {} => emitted > 0)
AdminTypes == schedule \in Seq(Nat) /\ resets \in Nat /\ stopped \in BOOLEAN
RecordTypes ==
  /\ log \in Seq(Records) /\ past \in Seq(Records)
  /\ failures \subseteq Chains /\ lost \subseteq Losses
CallerTypes == caller \in [Callers -> CallerStates]

Types == WorkerTypes /\ ClockTypes /\ RequestTypes /\ AdminTypes /\ RecordTypes /\ CallerTypes

LEMMA EntriesType ==
  ASSUME NEW S, NEW s \in Seq(S)
  PROVE  Entries(s) \subseteq S
BY DEF Entries

LEMMA JobType ==
  ASSUME NEW j \in Jobs
  PROVE  /\ j.chain \in Chains /\ j.retry \in Nat /\ j.chaos \in Labels
         /\ j.kind \in {"attempt", "skipped", "dropped"} /\ j # NoJob
BY DeliveryAssumption DEF Jobs

LEMMA ForemostType ==
  ASSUME Types, fanout # {}
  PROVE  Foremost \in fanout /\ Foremost \in Subs /\ \A t \in fanout : Foremost <= t
<1>1. fanout \subseteq Nat
  BY DeliveryAssumption DEF Types, RequestTypes
<1> QED
  BY <1>1, ForemostIs DEF Foremost, Types, RequestTypes

(* What one job of the fan-out looks like. *)
LEMMA FirstType ==
  ASSUME Types, fanout # {}, NEW fault \in Faults
  PROVE  /\ First(fault) \in Jobs /\ First(fault).kind = "attempt" /\ First(fault).retry = 0
         /\ First(fault).chaos = fault
         /\ First(fault).chain = [event |-> emitted, sub |-> Foremost, copy |-> 0]
         /\ First(fault).chain \in Chains
<1>1. [event |-> emitted, sub |-> Foremost, copy |-> 0] \in Chains
  BY ForemostType, DeliveryAssumption DEF Types, RequestTypes, Chains
<1> QED
  BY <1>1 DEF First, Jobs, Labels

NumberOfCopies(fault) == IF fault = "duplicate" THEN 1 + ExtraCopies ELSE 1

LEMMA CopiesType ==
  ASSUME Types, fanout # {}, NEW fault \in Faults
  PROVE  /\ Copies(fault) \in Seq(Jobs) /\ Len(Copies(fault)) = NumberOfCopies(fault)
         /\ NumberOfCopies(fault) \in Nat /\ NumberOfCopies(fault) >= 1
         /\ \A k \in 1 .. NumberOfCopies(fault) :
              /\ Copies(fault)[k].kind = "attempt" /\ Copies(fault)[k].retry = 0
              /\ Copies(fault)[k].chaos = fault
              /\ Copies(fault)[k].chain = [event |-> emitted, sub |-> Foremost, copy |-> k - 1]
              /\ Copies(fault)[k].chain \in Chains
<1> DEFINE n == NumberOfCopies(fault)
           copy(k) == [First(fault) EXCEPT !.chain.copy = k - 1]
<1>1. n \in Nat /\ n >= 1 /\ n <= 1 + ExtraCopies
  BY DeliveryAssumption DEF NumberOfCopies
<1>2. Copies(fault) = [k \in 1 .. n |-> copy(k)]
  BY DEF Copies, NumberOfCopies
<1>3. ASSUME NEW k \in 1 .. n
      PROVE  /\ copy(k) \in Jobs /\ copy(k).kind = "attempt" /\ copy(k).retry = 0
             /\ copy(k).chaos = fault
             /\ copy(k).chain = [event |-> emitted, sub |-> Foremost, copy |-> k - 1]
             /\ copy(k).chain \in Chains
  <2>1. [event |-> emitted, sub |-> Foremost, copy |-> k - 1] \in Chains
    BY <1>1, <1>3, ForemostType, DeliveryAssumption DEF Types, RequestTypes, Chains
  <2>2. copy(k).chain = [event |-> emitted, sub |-> Foremost, copy |-> k - 1]
    BY FirstType DEF First
  <2> QED
    BY <2>1, <2>2, FirstType DEF Jobs, First
<1> HIDE DEF n, copy
<1>4. Copies(fault) \in Seq(Jobs) /\ Len(Copies(fault)) = n
  <2>1. Copies(fault) \in [1 .. n -> Jobs]
    BY <1>2, <1>3
  <2> QED
    BY <1>1, <2>1, SeqDef, LenProperties
<1> QED
  BY <1>1, <1>2, <1>3, <1>4 DEF n

LEMMA RetryOfType ==
  ASSUME NEW j \in Jobs, inHand = j, j.kind = "attempt"
  PROVE  /\ RetryOf \in Jobs /\ RetryOf.kind = "attempt" /\ RetryOf.retry = j.retry + 1
         /\ RetryOf.chain = j.chain /\ RetryOf.chaos = "retry"
<1>1. "retry" \in Labels /\ j.retry + 1 \in Nat
  BY JobType DEF Labels
<1> QED
  BY <1>1, JobType DEF RetryOf, Jobs

LEMMA ReleasedType ==
  ASSUME Types
  PROVE  /\ Released \in Seq(Jobs)
         /\ held = NoJob => Released = <<>>
         /\ held # NoJob => /\ Released = <<Released[1]>> /\ Released[1] \in Jobs
                            /\ Released[1].chain = held.chain /\ Released[1].chaos = "released"
                            /\ Released[1].kind = held.kind /\ Released[1].retry = held.retry
<1>1. CASE held = NoJob
  BY <1>1 DEF Released
<1>2. CASE held # NoJob
  <2>1. held \in Jobs
    BY <1>2 DEF Types, RequestTypes, JobOrNone
  <2> DEFINE j == [held EXCEPT !.chaos = "released"]
  <2>2. /\ j \in Jobs /\ j.chain = held.chain /\ j.chaos = "released"
        /\ j.kind = held.kind /\ j.retry = held.retry
    BY <2>1 DEF Jobs, Labels
  <2>3. Released = <<j>>
    BY <1>2 DEF Released
  <2> HIDE DEF j
  <2> QED
    BY <1>2, <2>2, <2>3
<1> QED
  BY <1>1, <1>2

LEMMA LoseTypes ==
  ASSUME Types, NEW jobs \in SUBSET Jobs, NEW why \in {"refused", "overwritten", "cleared"},
         Lose(jobs, why)
  PROVE  lost' \subseteq Losses
<1>1. \A j \in jobs : [chain |-> j.chain, why |-> why] \in Losses
  BY JobType DEF Losses
<1> QED
  BY <1>1 DEF Lose, Types, RecordTypes

LEMMA SubmitTypes ==
  ASSUME Types, NEW jobs \in Seq(Jobs), SubmitAll(jobs)
  PROVE  queue' \in Seq(Jobs) /\ lost' \subseteq Losses
<1>0. queue \in Seq(Jobs) /\ lost \subseteq Losses
  BY DEF Types, WorkerTypes, RecordTypes
<1>1. CASE stopped
  BY <1>0, <1>1, EntriesType, LoseTypes DEF SubmitAll
<1>2. CASE ~stopped
  BY <1>0, <1>2, ConcatProperties DEF SubmitAll
<1> QED
  BY <1>1, <1>2

LEMMA HandType ==
  ASSUME Types, wpc # "idle"
  PROVE  inHand \in Jobs /\ inHand # NoJob /\ inHand.chain \in Chains /\ inHand.retry \in Nat
BY JobType DEF Types, WorkerTypes, JobOrNone

LEMMA RecordTypesKept ==
  ASSUME Types, wpc # "idle", NEW status \in Statuses, NEW next \in Nat, Record(status, next)
  PROVE  log' \in Seq(Records)
<1> DEFINE r == [chain |-> inHand.chain, attempt |-> inHand.retry + 1, status |-> status,
                 chaos |-> inHand.chaos, at |-> now, next |-> next]
<1>1. r \in Records
  BY HandType, JobType DEF Records, Types, ClockTypes
<1>2. log' = Append(log, r)
  BY DEF Record
<1> HIDE DEF r
<1> QED
  BY <1>1, <1>2, AppendProperties DEF Types, RecordTypes

LEMMA ScheduleTypes ==
  ASSUME Types, NEW job \in Jobs, NEW ms \in Nat, Schedule(job, ms)
  PROVE  timers' \in Seq(Timers)
<1>1. [due |-> now + ms, job |-> job] \in Timers
  BY DEF Types, ClockTypes, Timers
<1> QED
  BY <1>1, AppendProperties DEF Schedule, Types, ClockTypes

(* A step of a caller's thread. *)
LEMMA CallerStep ==
  ASSUME Types, NEW c \in Callers, NEW state \in CallerStates,
         caller' = [caller EXCEPT ![c] = state]
  PROVE  CallerTypes'
BY DEF Types, CallerTypes

LEMMA QueueNextTypes ==
  ASSUME Types, NEW fault \in Faults, QueueNext(fault)
  PROVE  Types'
<1> DEFINE f == First(fault)
<1>0. fanout # {} /\ UNCHANGED <<inHand, wpc, delay, popped, now, emitted, schedule, resets,
                                 log, past, failures, stopped, caller>>
  BY DEF QueueNext, worker, admin, records
<1>1. f \in Jobs /\ f.chain \in Chains
  BY <1>0, FirstType
<1>2. fanout' \subseteq Subs /\ (fanout' # {} => emitted' > 0)
  BY <1>0 DEF QueueNext, Types, RequestTypes
<1> HIDE DEF f
<1>3. /\ queue' \in Seq(Jobs) /\ lost' \subseteq Losses /\ timers' \in Seq(Timers)
      /\ held' \in JobOrNone /\ chains' \subseteq Chains
  <2>1. CASE Hold(fault)
    <3>1. [f EXCEPT !.kind = "skipped"] \in Jobs
      BY <1>1 DEF Jobs
    <3>2. queue' \in Seq(Jobs)
      BY <2>1, <3>1, AppendProperties DEF Hold, Types, WorkerTypes, f
    <3>3. lost' \subseteq Losses
      <4>1. CASE held = NoJob
        BY <2>1, <4>1 DEF Hold, Types, RecordTypes
      <4>2. CASE held # NoJob
        <5>1. {held} \in SUBSET Jobs
          BY <4>2 DEF Types, RequestTypes, JobOrNone
        <5> QED
          BY <2>1, <4>2, <5>1, LoseTypes DEF Hold
      <4> QED
        BY <4>1, <4>2
    <3> QED
      BY <2>1, <3>2, <3>3, <1>1 DEF Hold, Types, ClockTypes, RequestTypes, JobOrNone, f
  <2>2. CASE Drop(fault)
    <3>1. [f EXCEPT !.kind = "dropped"] \in Jobs
      BY <1>1 DEF Jobs
    <3>2. <<[f EXCEPT !.kind = "dropped"]>> \in Seq(Jobs)
      BY <3>1
    <3> QED
      BY <2>2, <3>2, <1>1, SubmitTypes DEF Drop, Types, ClockTypes, RequestTypes, f
  <2>3. CASE SendAll(fault)
    <3>1. Copies(fault) \in Seq(Jobs) /\ Released \in Seq(Jobs)
      BY <1>0, CopiesType, ReleasedType
    <3>2. Copies(fault) \o Released \in Seq(Jobs)
      BY <3>1, ConcatProperties
    <3>3. queue' \in Seq(Jobs) /\ lost' \subseteq Losses
      BY <2>3, <3>1, <3>2, SubmitTypes DEF SendAll
    <3>4. timers' \in Seq(Timers)
      BY <2>3, <1>1, ScheduleTypes, DeliveryAssumption DEF SendAll, Types, ClockTypes, f
    <3>5. \A j \in Entries(Copies(fault)) : j.chain \in Chains
      BY <3>1, EntriesType, JobType
    <3>6. chains' \subseteq Chains
      BY <2>3, <3>5 DEF SendAll, Types, RequestTypes
    <3> QED
      BY <2>3, <3>3, <3>4, <3>6 DEF SendAll, ClearSlot, JobOrNone
  <2> QED
    BY <2>1, <2>2, <2>3 DEF QueueNext
<1> QED
  BY <1>0, <1>2, <1>3 DEF Types, WorkerTypes, ClockTypes, RequestTypes, AdminTypes, RecordTypes,
                          CallerTypes

LEMMA WorkerTypesKept ==
  ASSUME Types, Worker_Next
  PROVE  Types'
<1>1. CASE TakeJob
  <2>1. Head(queue) \in Jobs /\ Tail(queue) \in Seq(Jobs)
    BY <1>1, EntriesTail DEF TakeJob, Types, WorkerTypes
  <2> QED
    BY <1>1, <2>1, JobType DEF TakeJob, Types, WorkerTypes, ClockTypes, RequestTypes, AdminTypes,
         RecordTypes, CallerTypes, clock, request, admin, records, JobOrNone
<1>2. ASSUME wpc # "idle", NEW status \in Statuses, NEW next \in Nat, Record(status, next),
             FinishJob,
             UNCHANGED <<queue, clock, request, admin, past, failures, stopped, lost, caller>>
      PROVE  Types'
  <2>1. log' \in Seq(Records)
    BY <1>2, RecordTypesKept
  <2> QED
    BY <1>2, <2>1 DEF FinishJob, Types, WorkerTypes, ClockTypes, RequestTypes, AdminTypes,
         RecordTypes, CallerTypes, clock, request, admin, JobOrNone
<1>3. CASE RecordTerminal
  <2>1. inHand.kind \in Statuses /\ wpc # "idle"
    BY <1>3, HandType, JobType DEF RecordTerminal, Statuses
  <2> QED
    BY <1>2, <1>3, <2>1 DEF RecordTerminal
<1>4. CASE Delivered
  BY <1>2, <1>4 DEF Delivered, Statuses
<1>5. CASE Exhausted
  BY <1>2, <1>5 DEF Exhausted, Statuses
<1>6. CASE NotExhausted \/ \E a \in Answers : Send(a)
  BY <1>6 DEF NotExhausted, Send, Types, WorkerTypes, ClockTypes, RequestTypes, AdminTypes,
         RecordTypes, CallerTypes, clock, request, admin, records
<1>7. CASE SendRaises \/ ScheduleGone
  <2>1. inHand.chain \in Chains
    BY <1>7, HandType DEF SendRaises, ScheduleGone
  <2> QED
    BY <1>7, <2>1 DEF SendRaises, ScheduleGone, JobRaises, FinishJob, Types, WorkerTypes,
         ClockTypes, RequestTypes, AdminTypes, RecordTypes, CallerTypes, clock, request, admin,
         JobOrNone
<1>8. CASE RecordFailed
  <2>1. schedule[inHand.retry + 1] \in Nat
    BY <1>8, HandType DEF RecordFailed, Types, AdminTypes
  <2>2. log' \in Seq(Records)
    BY <1>8, <2>1, RecordTypesKept DEF RecordFailed, Statuses
  <2> QED
    BY <1>8, <2>1, <2>2, HandType DEF RecordFailed, Types, WorkerTypes, ClockTypes, RequestTypes,
         AdminTypes, RecordTypes, CallerTypes, clock, request, admin, JobOrNone
<1>9. CASE ScheduleRetry
  <2>1. timers' \in Seq(Timers)
    BY <1>9, HandType, RetryOfType, ScheduleTypes DEF ScheduleRetry, Types, WorkerTypes
  <2> QED
    BY <1>9, <2>1 DEF ScheduleRetry, FinishJob, Types, WorkerTypes, ClockTypes, RequestTypes,
         AdminTypes, RecordTypes, CallerTypes, request, admin, records, JobOrNone
<1> QED
  BY <1>1, <1>3, <1>4, <1>5, <1>6, <1>7, <1>8, <1>9 DEF Worker_Next

LEMMA TimerTypes ==
  ASSUME Types, Timer_Next
  PROVE  Types'
<1>1. ASSUME NEW i \in 1 .. Len(timers), TimerPop(i) PROVE Types'
  <2>0. timers \in Seq(Timers) /\ timers[i] \in Timers
    BY DEF Types, ClockTypes
  <2>1. timers[i].job \in Jobs /\ RemoveAt(timers, i) \in Seq(Timers)
    BY <2>0, EntriesRemove DEF Timers
  <2> QED
    BY <1>1, <2>1 DEF TimerPop, Types, WorkerTypes, ClockTypes, RequestTypes, AdminTypes,
         RecordTypes, CallerTypes, worker, request, admin, records
<1>2. ASSUME NEW job \in popped, TimerFire(job) PROVE Types'
  <2>1. <<job>> \in Seq(Jobs)
    BY DEF Types, ClockTypes
  <2>2. queue' \in Seq(Jobs) /\ lost' \subseteq Losses
    BY <1>2, <2>1, SubmitTypes DEF TimerFire
  <2> QED
    BY <1>2, <2>2 DEF TimerFire, Types, WorkerTypes, ClockTypes, RequestTypes, AdminTypes,
         RecordTypes, CallerTypes, worker, request, admin, records
<1> QED
  BY <1>1, <1>2 DEF Timer_Next

LEMMA SoonestType ==
  ASSUME Types, timers # <<>>
  PROVE  SoonestDue \in Nat
<1> DEFINE D == {t.due : t \in Entries(timers)}
<1>1. D \subseteq Nat /\ D # {}
  <2>0. timers \in Seq(Timers)
    BY DEF Types, ClockTypes
  <2>1. timers[1] \in Entries(timers) /\ Entries(timers) \subseteq Timers
    BY <2>0, EntriesType DEF Entries
  <2> QED
    BY <2>1 DEF Timers
<1>2. PICK x \in D : \A y \in D : x <= y
  BY <1>1, LeastNat
<1>3. x \in D /\ \A t \in Entries(timers) : x <= t.due
  BY <1>2
<1>4. SoonestDue \in D
  BY <1>3 DEF SoonestDue
<1> QED
  BY <1>1, <1>4

LEMMA EarliestType ==
  ASSUME Types, DueJobs # {}
  PROVE  /\ Earliest \in 1 .. Len(timers) /\ timers[Earliest] \in Timers
         /\ timers[Earliest].due <= now
<1>1. ASSUME NEW i \in DueJobs
      PROVE  /\ i \in Nat /\ i \in 1 .. Len(timers)
             /\ timers[i] \in Timers /\ timers[i].due \in Nat
  <2>1. timers \in Seq(Timers) /\ i \in 1 .. Len(timers)
    BY DEF Types, ClockTypes, DueJobs
  <2>2. timers[i] \in Timers
    BY <2>1
  <2> QED
    BY <2>1, <2>2 DEF Timers
<1> DEFINE D == {timers[i].due : i \in DueJobs}
<1>2. PICK d \in D : \A y \in D : d <= y
  <2>1. D \in SUBSET Nat /\ D # {}
    BY <1>1
  <2> QED
    BY <2>1, LeastNat
<1> DEFINE S == {i \in DueJobs : timers[i].due = d}
<1>3. PICK i \in S : \A k \in S : i <= k
  <2>1. S \in SUBSET Nat /\ S # {}
    BY <1>1, <1>2
  <2> QED
    BY <2>1, LeastNat
<1>4. /\ i \in DueJobs
      /\ \A k \in DueJobs : \/ timers[i].due < timers[k].due
                            \/ timers[i].due = timers[k].due /\ i <= k
  <2>0. i \in DueJobs
    BY <1>3
  <2> SUFFICES ASSUME NEW k \in DueJobs
               PROVE  \/ timers[i].due < timers[k].due
                      \/ timers[i].due = timers[k].due /\ i <= k
    BY <2>0
  <2>1. timers[i].due <= timers[k].due /\ timers[i].due \in Nat /\ timers[k].due \in Nat
    BY <1>1, <1>2, <1>3
  <2>2. CASE timers[i].due = timers[k].due
    BY <1>3, <2>2
  <2> QED
    BY <2>1, <2>2
<1>5. Earliest \in DueJobs
  BY <1>4 DEF Earliest
<1> QED
  BY <1>1, <1>5 DEF DueJobs

(* What the callers' steps leave alone. *)
OthersKept == UNCHANGED <<worker, popped, request, admin, records>>

LEMMA CallerTypesKept ==
  ASSUME Types, OthersKept, CallerTypes', queue' \in Seq(Jobs), timers' \in Seq(Timers),
         now' \in Nat, stopped' \in BOOLEAN, lost' \subseteq Losses
  PROVE  Types'
BY DEF OthersKept, Types, WorkerTypes, ClockTypes, RequestTypes, AdminTypes, RecordTypes, worker,
       request, admin, records

LEMMA CallerState ==
  ASSUME Types, NEW c \in Callers
  PROVE  /\ caller[c] \in CallerStates /\ AtRest \in CallerStates
         /\ caller[c].hand \in JobOrNone /\ caller[c].doomed \subseteq Jobs
         /\ caller[c].asked \subseteq Chains /\ caller[c].step \in Nat
<1>1. caller[c] \in CallerStates
  BY DEF Types, CallerTypes
<1>2. AtRest \in CallerStates
  BY DEF AtRest, Thread, CallerStates, JobOrNone
<1> QED
  BY <1>1, <1>2 DEF CallerStates

LEMMA GoTypes ==
  ASSUME Types, NEW c \in Callers,
         NEW pc \in {"idle", "quiesce", "look", "asleep", "move", "settle", "scan", "fire",
                     "stopping", "joining", "clearing", "settled", "gaveup", "advanced",
                     "unit_stopped"},
         Go(c, pc)
  PROVE  CallerTypes'
BY DEF Types, CallerTypes, Go, CallerStates

LEMMA DrainReturnsTypes ==
  ASSUME Types, NEW c \in Callers, NEW verdict \in {"settled", "gaveup"}, DrainReturns(c, verdict)
  PROVE  CallerTypes'
<1> DEFINE pc == IF caller[c].route = "stop" THEN "stopping" ELSE verdict
<1>1. pc \in {"stopping", "settled", "gaveup"}
  OBVIOUS
<1>2. caller' = [caller EXCEPT ![c].pc = pc, ![c].told = verdict]
  BY DEF DrainReturns
<1> HIDE DEF pc
<1> DEFINE moved == [caller EXCEPT ![c].pc = pc]
<1>3. moved \in [Callers -> CallerStates]
  BY <1>1 DEF Types, CallerTypes, CallerStates
<1>4. caller' = [moved EXCEPT ![c].told = verdict]
  BY <1>2
<1> HIDE DEF moved
<1> QED
  BY <1>3, <1>4 DEF CallerTypes, CallerStates

LEMMA NextPassTypes ==
  ASSUME Types, NEW c \in Callers, NextPass(c)
  PROVE  CallerTypes'
<1>1. CASE caller[c].passes = 1
  BY <1>1, DrainReturnsTypes DEF NextPass
<1>2. CASE caller[c].passes # 1
  BY <1>2 DEF NextPass, Types, CallerTypes, CallerStates
<1> QED
  BY <1>1, <1>2

LEMMA BeginTypes ==
  ASSUME Types, NEW c \in Callers, NEW route \in AllRoutes, NEW pc \in {"quiesce", "settle"},
         Begin(c, route, pc)
  PROVE  CallerTypes'
<1>1. Outstanding \subseteq Chains
  BY DEF Outstanding, Types, RequestTypes
<1>2. Thread(pc, route, DrainPasses, Outstanding) \in CallerStates
  BY <1>1, DeliveryAssumption DEF Thread, CallerStates, JobOrNone
<1> QED
  BY <1>2, CallerStep DEF Begin

(* What a step of c's thread does: nobody else moves.                      *)
Steps(c, pc, hand, told, asked) ==
  /\ \A d \in Callers \ {c} : caller'[d] = caller[d]
  /\ caller'[c].pc = pc /\ caller'[c].hand = hand
  /\ caller'[c].told = told /\ caller'[c].asked = asked

(* A caller has a job in hand exactly while it is about to fire it.        *)
Hands == \A c \in Callers : caller[c].pc = "fire" <=> caller[c].hand # NoJob

LEMMA GoSteps ==
  ASSUME Types, NEW c \in Callers, NEW pc, Go(c, pc)
  PROVE  Steps(c, pc, caller[c].hand, caller[c].told, caller[c].asked)
BY DEF Types, CallerTypes, Go, CallerStates, Steps

LEMMA DrainReturnsSteps ==
  ASSUME Types, NEW c \in Callers, NEW verdict, DrainReturns(c, verdict)
  PROVE  Steps(c, IF caller[c].route = "stop" THEN "stopping" ELSE verdict, caller[c].hand,
               verdict, caller[c].asked)
BY DEF Types, CallerTypes, DrainReturns, CallerStates, Steps

LEMMA NextPassSteps ==
  ASSUME Types, NEW c \in Callers, NextPass(c)
  PROVE  \/ Steps(c, "quiesce", caller[c].hand, caller[c].told, caller[c].asked)
         \/ Steps(c, IF caller[c].route = "stop" THEN "stopping" ELSE "gaveup", caller[c].hand,
                  "gaveup", caller[c].asked)
<1>1. CASE caller[c].passes = 1
  BY <1>1, DrainReturnsSteps DEF NextPass
<1>2. CASE caller[c].passes # 1
  BY <1>2 DEF NextPass, Types, CallerTypes, CallerStates, Steps
<1> QED
  BY <1>1, <1>2

LEMMA BeginSteps ==
  ASSUME Types, NEW c \in Callers, NEW route, NEW pc, Begin(c, route, pc)
  PROVE  Steps(c, pc, NoJob, "nothing", Outstanding) /\ caller'[c].route = route
BY DEF Types, CallerTypes, CallerStates, Steps, Begin, Thread

LEMMA AdvanceReturnsSteps ==
  ASSUME Types, NEW c \in Callers, AdvanceReturns(c)
  PROVE  \/ Steps(c, "advanced", caller[c].hand, caller[c].told, caller[c].asked)
         \/ Steps(c, "quiesce", caller[c].hand, caller[c].told, caller[c].asked)
         \/ Steps(c, IF caller[c].route = "stop" THEN "stopping" ELSE "gaveup", caller[c].hand,
                  "gaveup", caller[c].asked)
<1>1. CASE caller[c].route = "advance"
  BY <1>1, GoSteps DEF AdvanceReturns
<1>2. CASE caller[c].route = "advance_drain"
  BY <1>2 DEF AdvanceReturns, Types, CallerTypes, CallerStates, Steps
<1>3. CASE caller[c].route \notin {"advance", "advance_drain"}
  BY <1>3, NextPassSteps DEF AdvanceReturns
<1> QED
  BY <1>1, <1>2, <1>3

LEMMA AdvanceScanSteps ==
  ASSUME Types, NEW c \in Callers, AdvanceScan(c), DueJobs # {}
  PROVE  Steps(c, "fire", timers[Earliest].job, caller[c].told, caller[c].asked)
BY DEF AdvanceScan, Types, CallerTypes, CallerStates, Steps

LEMMA AdvanceFireSteps ==
  ASSUME Types, NEW c \in Callers, AdvanceFire(c)
  PROVE  Steps(c, IF stopped THEN "gaveup" ELSE "settle", NoJob, caller[c].told, caller[c].asked)
BY DEF AdvanceFire, Types, CallerTypes, CallerStates, Steps

LEMMA OtherSteps ==
  ASSUME Types, NEW c \in Callers
  PROVE  /\ DrainAdvance(c) => Steps(c, "settle", caller[c].hand, caller[c].told, caller[c].asked)
         /\ ListTimers(c) => Steps(c, "clearing", caller[c].hand, caller[c].told, caller[c].asked)
         /\ StopReturns(c) =>
              Steps(c, "unit_stopped", caller[c].hand, caller[c].told, caller[c].asked)
         /\ Return(c) => Steps(c, "idle", NoJob, "nothing", {})
BY DEF DrainAdvance, ListTimers, StopReturns, Return, AtRest, Thread, Types, CallerTypes, CallerStates, Steps

LEMMA LookSteps ==
  ASSUME Types, NEW c \in Callers, DrainLook(c), timers # <<>>
  PROVE  Steps(c, IF Virtual THEN "move" ELSE "asleep", caller[c].hand, caller[c].told,
               caller[c].asked)
<1>1. CASE Virtual
  BY <1>1 DEF DrainLook, Types, CallerTypes, CallerStates, Steps
<1>2. CASE ~Virtual
  BY <1>2, GoSteps DEF DrainLook
<1> QED
  BY <1>1, <1>2

LEMMA CallerNextTypes ==
  ASSUME Types, Hands, NEW c \in Callers, Call(c) \/ Caller_Next(c)
  PROVE  Types'
<1> USE DEF shared, OthersKept
<1>0. queue \in Seq(Jobs) /\ timers \in Seq(Timers) /\ now \in Nat /\ stopped \in BOOLEAN
      /\ lost \subseteq Losses
  BY DEF Types, WorkerTypes, ClockTypes, AdminTypes, RecordTypes
<1>1. ASSUME NEW route \in Routes, CallDrain(c, route) PROVE Types'
  BY <1>0, <1>1, BeginTypes, CallerTypesKept, DeliveryAssumption DEF CallDrain
<1>2. ASSUME NEW route \in Routes, NEW ms \in 0 .. MaxTime, CallAdvance(c, route, ms) PROVE Types'
  <2>1. now' \in Nat
    BY <1>0, <1>2, DeliveryAssumption DEF CallAdvance
  <2>2. CallerTypes'
    BY <1>2, BeginTypes, DeliveryAssumption DEF CallAdvance
  <2> QED
    BY <1>0, <1>2, <2>1, <2>2, CallerTypesKept DEF CallAdvance
<1>3. CASE DrainQuiesce(c) \/ DrainTimeout(c)
  BY <1>0, <1>3, GoTypes, CallerTypesKept DEF DrainQuiesce, DrainTimeout
<1>4. CASE DrainLook(c)
  <2>1. CASE timers = <<>>
    BY <1>0, <1>4, <2>1, DrainReturnsTypes, CallerTypesKept DEF DrainLook
  <2>2. CASE timers # <<>> /\ Virtual
    <3> DEFINE ms == IF SoonestDue > now THEN SoonestDue - now ELSE 0
               moved == [caller EXCEPT ![c].pc = "move"]
    <3>1. ms \in Nat
      BY <1>0, <2>2, SoonestType
    <3>2. caller' = [moved EXCEPT ![c].step = ms]
      BY <1>4, <2>2 DEF DrainLook
    <3> HIDE DEF ms
    <3>3. moved \in [Callers -> CallerStates]
      BY DEF Types, CallerTypes, CallerStates
    <3> HIDE DEF moved
    <3>4. CallerTypes'
      BY <3>1, <3>2, <3>3 DEF CallerTypes, CallerStates
    <3> QED
      BY <1>0, <1>4, <3>4, CallerTypesKept DEF DrainLook
  <2>3. CASE timers # <<>> /\ ~Virtual
    BY <1>0, <1>4, <2>3, GoTypes, CallerTypesKept DEF DrainLook
  <2> QED
    BY <2>1, <2>2, <2>3
<1>5. CASE DrainSleep(c)
  BY <1>0, <1>5, NextPassTypes, CallerTypesKept DEF DrainSleep
<1>6. CASE DrainAdvance(c)
  <2>1. now' \in Nat
    BY <1>0, <1>6, CallerState DEF DrainAdvance
  <2> DEFINE moved == [caller EXCEPT ![c].pc = "settle"]
  <2>2. moved \in [Callers -> CallerStates]
    BY DEF Types, CallerTypes, CallerStates
  <2>3. caller' = [moved EXCEPT ![c].step = 0]
    BY <1>6 DEF DrainAdvance
  <2> HIDE DEF moved
  <2>4. CallerTypes'
    BY <2>2, <2>3 DEF CallerTypes, CallerStates
  <2> QED
    BY <1>0, <1>6, <2>1, <2>4, CallerTypesKept DEF DrainAdvance
<1>7. CASE AdvanceSettle(c)
  BY <1>0, <1>7, GoTypes, CallerTypesKept DEF AdvanceSettle, Rescan
<1>8. CASE AdvanceScan(c)
  <2>1. CASE DueJobs = {}
    <3>1. CallerTypes'
      <4>1. CASE caller[c].route = "advance"
        BY <1>8, <2>1, <4>1, GoTypes DEF AdvanceScan, AdvanceReturns
      <4>2. CASE caller[c].route = "advance_drain"
        <5> DEFINE moved == [caller EXCEPT ![c].pc = "quiesce"]
        <5>1. moved \in [Callers -> CallerStates]
          BY DEF Types, CallerTypes, CallerStates
        <5>2. caller' = [moved EXCEPT ![c].route = "drain"]
          BY <1>8, <2>1, <4>2 DEF AdvanceScan, AdvanceReturns
        <5> HIDE DEF moved
        <5> QED
          BY <5>1, <5>2 DEF CallerTypes, CallerStates, AllRoutes
      <4>3. CASE caller[c].route \notin {"advance", "advance_drain"}
        BY <1>8, <2>1, <4>3, NextPassTypes DEF AdvanceScan, AdvanceReturns
      <4> QED
        BY <4>1, <4>2, <4>3
    <3> QED
      BY <1>0, <1>8, <2>1, <3>1, CallerTypesKept DEF AdvanceScan
  <2>2. CASE DueJobs # {}
    <3>1. /\ Earliest \in 1 .. Len(timers) /\ timers[Earliest].job \in Jobs
          /\ RemoveAt(timers, Earliest) \in Seq(Timers)
      BY <1>0, <2>2, EarliestType, EntriesRemove DEF Timers
    <3> DEFINE moved == [caller EXCEPT ![c].pc = "fire"]
               job == timers[Earliest].job
    <3>2. moved \in [Callers -> CallerStates]
      BY DEF Types, CallerTypes, CallerStates
    <3>3. caller' = [moved EXCEPT ![c].hand = job]
      BY <1>8, <2>2 DEF AdvanceScan
    <3> HIDE DEF moved, job
    <3>4. job \in Jobs
      BY <3>1 DEF job
    <3>5. CallerTypes'
      BY <3>2, <3>3, <3>4 DEF CallerTypes, CallerStates, JobOrNone
    <3> QED
      BY <1>0, <1>8, <2>2, <3>1, <3>5, CallerTypesKept DEF AdvanceScan
  <2> QED
    BY <2>1, <2>2
<1>9. CASE AdvanceFire(c)
  <2> DEFINE pc == IF stopped THEN "gaveup" ELSE "settle"
             moved == [caller EXCEPT ![c].pc = pc]
  <2>2. moved \in [Callers -> CallerStates]
    BY DEF Types, CallerTypes, CallerStates
  <2>3. caller' = [moved EXCEPT ![c].hand = NoJob]
    BY <1>9 DEF AdvanceFire
  <2> HIDE DEF moved
  <2>4. CallerTypes'
    BY <2>2, <2>3 DEF CallerTypes, CallerStates, JobOrNone
  <2>5. <<caller[c].hand>> \in Seq(Jobs)
    BY <1>9, CallerState DEF AdvanceFire, Hands, JobOrNone
  <2>6. queue' \in Seq(Jobs) /\ lost' \subseteq Losses
    BY <1>9, <2>5, SubmitTypes DEF AdvanceFire
  <2> QED
    BY <1>0, <1>9, <2>4, <2>6, CallerTypesKept DEF AdvanceFire
<1>10. CASE StopWorker(c)
  BY <1>0, <1>10, GoTypes, CallerTypesKept DEF StopWorker
<1>11. CASE ListTimers(c)
  <2> DEFINE moved == [caller EXCEPT ![c].pc = "clearing"]
             jobs == {t.job : t \in Entries(timers)}
  <2>1. moved \in [Callers -> CallerStates]
    BY DEF Types, CallerTypes, CallerStates
  <2>2. caller' = [moved EXCEPT ![c].doomed = jobs]
    BY <1>11 DEF ListTimers
  <2>3. jobs \subseteq Jobs
    BY <1>0, EntriesType DEF Timers
  <2> HIDE DEF moved, jobs
  <2>4. CallerTypes'
    BY <2>1, <2>2, <2>3 DEF CallerTypes, CallerStates
  <2> QED
    BY <1>0, <1>11, <2>4, CallerTypesKept DEF ListTimers
<1>12. CASE CancelTimer(c)
  <2>1. PICK i \in DoomedTimers(c) : timers' = RemoveAt(timers, i) /\ Lose({timers[i].job}, "cleared")
    BY <1>12 DEF CancelTimer
  <2>2. i \in 1 .. Len(timers)
    BY DEF DoomedTimers
  <2>3. RemoveAt(timers, i) \in Seq(Timers) /\ timers[i].job \in Jobs
    <3>1. timers[i] \in Timers
      BY <1>0, <2>2
    <3> QED
      BY <1>0, <2>2, <3>1, EntriesRemove DEF Timers
  <2>4. lost' \subseteq Losses
    BY <2>1, <2>3, LoseTypes
  <2> QED
    BY <1>0, <1>12, <2>1, <2>3, <2>4, CallerTypesKept DEF CancelTimer, Types, CallerTypes
<1>13. CASE StopReturns(c)
  <2> DEFINE moved == [caller EXCEPT ![c].pc = "unit_stopped"]
  <2>1. moved \in [Callers -> CallerStates]
    BY DEF Types, CallerTypes, CallerStates
  <2>2. caller' = [moved EXCEPT ![c].doomed = {}]
    BY <1>13 DEF StopReturns
  <2> HIDE DEF moved
  <2>3. CallerTypes'
    BY <2>1, <2>2 DEF CallerTypes, CallerStates
  <2> QED
    BY <1>0, <1>13, <2>3, CallerTypesKept DEF StopReturns
<1>14. CASE Return(c)
  BY <1>0, <1>14, CallerState, CallerStep, CallerTypesKept DEF Return
<1> QED
  BY <1>1, <1>2, <1>3, <1>4, <1>5, <1>6, <1>7, <1>8, <1>9, <1>10, <1>11, <1>12, <1>13, <1>14
     DEF Call, Caller_Next

LEMMA EmitTypes ==
  ASSUME Types, NEW matching \in SUBSET Subs, Emit(matching)
  PROVE  Types'
BY DeliveryAssumption DEF Emit, Types, WorkerTypes, ClockTypes, RequestTypes, AdminTypes,
   RecordTypes, CallerTypes, worker, clock, admin, records

LEMMA AdminKeepsTypes ==
  ASSUME Types, Admin_Next
  PROVE  Types'
<1>1. CASE Hydrate
  <2>1. log \in Seq(Records) /\ past \in Seq(Records)
    BY DEF Types, RecordTypes
  <2>2. log' \in Seq(Records) /\ past' \in Seq(Records)
    BY <1>1, <2>1, ConcatProperties DEF Hydrate
  <2>3. resets' \in Nat
    BY <1>1 DEF Hydrate, Types, AdminTypes
  <2> QED
    BY <1>1, <2>2, <2>3 DEF Hydrate, Types, WorkerTypes, ClockTypes, RequestTypes, AdminTypes,
       RecordTypes, CallerTypes, worker, clock, request
<1>2. ASSUME NEW s \in Schedules, SetRetryPolicy(s) PROVE Types'
  BY <1>2, DeliveryAssumption DEF SetRetryPolicy, Types, WorkerTypes, ClockTypes, RequestTypes,
     AdminTypes, RecordTypes, CallerTypes, worker, clock, request, records
<1> QED
  BY <1>1, <1>2 DEF Admin_Next

LEMMA HandsKept ==
  ASSUME Hands, UNCHANGED caller
  PROVE  Hands'
BY DEF Hands

LEMMA StepsHands ==
  ASSUME Hands, NEW c \in Callers, NEW pc, NEW hand, NEW told, NEW asked,
         Steps(c, pc, hand, told, asked), pc = "fire" <=> hand # NoJob
  PROVE  Hands'
BY DEF Hands, Steps

LEMMA CallerNextHands ==
  ASSUME Types, Hands, NEW c \in Callers, Call(c) \/ Caller_Next(c)
  PROVE  Hands'
<1>0. caller[c].pc # "fire" => caller[c].hand = NoJob
  BY DEF Hands
<1>1. ASSUME NEW route \in Routes, CallDrain(c, route) PROVE Hands'
  BY <1>1, BeginSteps, StepsHands DEF CallDrain
<1>2. ASSUME NEW route \in Routes, NEW ms \in 0 .. MaxTime, CallAdvance(c, route, ms) PROVE Hands'
  BY <1>2, BeginSteps, StepsHands DEF CallAdvance
<1>3. CASE DrainQuiesce(c) \/ DrainTimeout(c) \/ AdvanceSettle(c) \/ StopWorker(c)
  BY <1>0, <1>3, GoSteps, StepsHands DEF DrainQuiesce, DrainTimeout, AdvanceSettle, Rescan, StopWorker
<1>4. CASE DrainLook(c)
  <2>1. CASE timers = <<>>
    BY <1>0, <1>4, <2>1, DrainReturnsSteps, StepsHands DEF DrainLook
  <2>2. CASE timers # <<>>
    <3>1. \E pc \in {"move", "asleep"} :
            Steps(c, pc, caller[c].hand, caller[c].told, caller[c].asked)
      BY <1>4, <2>2, LookSteps
    <3> QED
      BY <1>0, <1>4, <3>1, StepsHands DEF DrainLook
  <2> QED
    BY <2>1, <2>2
<1>5. CASE DrainSleep(c)
  BY <1>0, <1>5, NextPassSteps, StepsHands DEF DrainSleep
<1>6. CASE DrainAdvance(c) \/ ListTimers(c) \/ StopReturns(c) \/ Return(c)
  BY <1>0, <1>6, OtherSteps, StepsHands DEF DrainAdvance, ListTimers, StopReturns, Return
<1>7. CASE AdvanceScan(c)
  <2>1. CASE DueJobs = {}
    BY <1>0, <1>7, <2>1, AdvanceReturnsSteps, StepsHands DEF AdvanceScan
  <2>2. CASE DueJobs # {}
    <3>1. timers[Earliest].job # NoJob
      BY <2>2, EarliestType, JobType DEF Timers
    <3> QED
      BY <1>7, <2>2, <3>1, AdvanceScanSteps, StepsHands
  <2> QED
    BY <2>1, <2>2
<1>8. CASE AdvanceFire(c)
  BY <1>8, AdvanceFireSteps, StepsHands
<1>9. CASE CancelTimer(c)
  BY <1>9, HandsKept DEF CancelTimer
<1> QED
  BY <1>1, <1>2, <1>3, <1>4, <1>5, <1>6, <1>7, <1>8, <1>9 DEF Call, Caller_Next

LEMMA TypesInit == Init => Types /\ Hands
<1> SUFFICES ASSUME Init PROVE Types /\ Hands
  OBVIOUS
<1>1. AtRest \in CallerStates /\ AtRest.pc = "idle" /\ AtRest.hand = NoJob
  BY DEF CallerStates, AtRest, Thread, JobOrNone
<1>2. CallerTypes /\ Hands
  BY <1>1 DEF Init, CallerTypes, Hands
<1>3. <<>> \in Seq(Jobs) /\ <<>> \in Seq(Timers) /\ <<>> \in Seq(Records)
  OBVIOUS
<1>4. RequestTypes /\ AdminTypes
  <2>1. RequestTypes
    BY DeliveryAssumption DEF Init, RequestTypes, JobOrNone
  <2>2. AdminTypes
    BY DeliveryAssumption DEF Init, AdminTypes
  <2> QED
    BY <2>1, <2>2
<1>5. WorkerTypes /\ ClockTypes /\ RecordTypes
  BY <1>3 DEF Init, WorkerTypes, ClockTypes, RecordTypes, JobOrNone
<1> QED
  BY <1>2, <1>4, <1>5 DEF Types

LEMMA TypesStep == Types /\ Hands /\ [Next]_vars => Types' /\ Hands'
<1> SUFFICES ASSUME Types, Hands, [Next]_vars PROVE Types' /\ Hands'
  OBVIOUS
<1>1. CASE Request_Next
  <2>1. UNCHANGED caller
    BY <1>1 DEF Request_Next, Emit, QueueNext
  <2> QED
    BY <1>1, <2>1, EmitTypes, QueueNextTypes, HandsKept DEF Request_Next
<1>2. CASE UNCHANGED vars
  BY <1>2, HandsKept DEF vars, Types, WorkerTypes, ClockTypes, RequestTypes, AdminTypes,
     RecordTypes, CallerTypes, worker, clock, request, admin, records
<1>3. CASE Worker_Next
  <2>1. UNCHANGED caller
    BY <1>3 DEF Worker_Next, TakeJob, RecordTerminal, Send, SendRaises, Delivered, Exhausted,
       NotExhausted, RecordFailed, ScheduleGone, ScheduleRetry, JobRaises
  <2> QED
    BY <1>3, <2>1, WorkerTypesKept, HandsKept
<1>4. CASE Timer_Next \/ Admin_Next
  <2>1. UNCHANGED caller
    BY <1>4 DEF Timer_Next, TimerPop, TimerFire, Admin_Next, Hydrate, SetRetryPolicy
  <2> QED
    BY <1>4, <2>1, TimerTypes, AdminKeepsTypes, HandsKept
<1>5. ASSUME NEW c \in Callers, Call(c) \/ Caller_Next(c) PROVE Types' /\ Hands'
  BY <1>5, CallerNextTypes, CallerNextHands
<1> QED
  BY <1>1, <1>2, <1>3, <1>4, <1>5 DEF Next

LEMMA TrailType ==
  ASSUME Types
  PROVE  trail \in Seq(Records) /\ log \in Seq(Records) /\ past \in Seq(Records)
BY ConcatProperties DEF trail, Types, RecordTypes

LEMMA TrailGrows ==
  ASSUME Types, wpc # "idle", NEW status \in Statuses, NEW next \in Nat, Record(status, next),
         UNCHANGED past
  PROVE  \E r \in Records :
           /\ trail' = Append(trail, r) /\ r.chain = inHand.chain /\ r.status = status
           /\ r.attempt = inHand.retry + 1 /\ r.chaos = inHand.chaos /\ r.at = now
           /\ r.next = next
<1> DEFINE r == [chain |-> inHand.chain, attempt |-> inHand.retry + 1, status |-> status,
                 chaos |-> inHand.chaos, at |-> now, next |-> next]
<1>1. r \in Records
  BY HandType, JobType DEF Records, Types, ClockTypes
<1>2. log' = Append(log, r)
  BY DEF Record
<1>3. /\ r.chain = inHand.chain /\ r.status = status /\ r.attempt = inHand.retry + 1
      /\ r.chaos = inHand.chaos /\ r.at = now /\ r.next = next
  OBVIOUS
<1> HIDE DEF r
<1>4. past \o Append(log, r) = Append(past \o log, r)
  BY <1>1, TrailType
<1>5. trail' = Append(trail, r)
  BY <1>2, <1>4 DEF trail
<1> QED
  BY <1>1, <1>3, <1>5

LEMMA TrailSurvivesReset ==
  ASSUME Types, Hydrate
  PROVE  trail' = trail
<1>1. trail' = trail \o <<>>
  BY DEF Hydrate, trail
<1> QED
  BY <1>1, TrailType, ConcatEmptySeq

(* The jobs of timers: on the clock, in a callback, in an advancing hand.  *)
Timed == {t.job : t \in Entries(timers)}
ClockJobs == Timed \cup popped \cup Firing

Sorts ==
  /\ \A j \in ClockJobs : j.kind = "attempt" /\ j.chaos \in {"retry", "delay"}
  /\ held # NoJob => held.kind = "attempt" /\ held.retry = 0
  /\ \A j \in Entries(queue) \cup {inHand} :
       /\ j # NoJob /\ j.kind = "skipped" => j.chaos = "out_of_order"
       /\ j # NoJob /\ j.kind = "dropped" => j.retry = 0

LEMMA FiringKept ==
  ASSUME \A c \in Callers : caller'[c].hand = caller[c].hand
  PROVE  Firing' = Firing
BY DEF Firing

LEMMA StepsFiring ==
  ASSUME NEW c \in Callers, NEW pc, NEW hand, NEW told, NEW asked,
         Steps(c, pc, hand, told, asked)
  PROVE  /\ hand = caller[c].hand => \A d \in Callers : caller'[d].hand = caller[d].hand
         /\ Firing' = ({hand} \cup {caller[d].hand : d \in Callers \ {c}}) \ {NoJob}
         /\ Firing \subseteq {caller[c].hand} \cup {caller[d].hand : d \in Callers \ {c}}
BY DEF Steps, Firing

LEMMA TimedType ==
  ASSUME Types
  PROVE  /\ timers \in Seq(Timers)
         /\ \A i \in 1 .. Len(timers) : /\ timers[i].job \in Jobs /\ timers[i].job \in Timed
                                        /\ timers[i].due \in Nat
         /\ \A j \in Timed : \E i \in 1 .. Len(timers) : timers[i].job = j
         /\ Timed \subseteq Jobs
<1>1. timers \in Seq(Timers)
  BY DEF Types, ClockTypes
<1>2. \A i \in 1 .. Len(timers) : timers[i] \in Timers
  BY <1>1
<1>3. \A i \in 1 .. Len(timers) : timers[i].job \in Jobs /\ timers[i].due \in Nat
  BY <1>2 DEF Timers
<1> QED
  BY <1>1, <1>3 DEF Timed, Entries

(* A new timer, and one that leaves the clock. *)
LEMMA TimerAdded ==
  ASSUME Types, NEW job \in Jobs, NEW ms \in Nat, Schedule(job, ms)
  PROVE  Timed' = Timed \cup {job}
<1> DEFINE t == [due |-> now + ms, job |-> job]
<1>1. timers' = Append(timers, t) /\ t.job = job
  BY DEF Schedule
<1> HIDE DEF t
<1>2. Entries(timers') = Entries(timers) \cup {t}
  BY <1>1, EntriesAppend, TimedType
<1> QED
  BY <1>1, <1>2 DEF Timed

LEMMA TimerRemoved ==
  ASSUME Types, NEW i \in 1 .. Len(timers), timers' = RemoveAt(timers, i)
  PROVE  Timed = Timed' \cup {timers[i].job}
<1>1. Entries(timers) = {timers[i]} \cup Entries(timers')
  BY EntriesRemove, TimedType
<1> QED
  BY <1>1 DEF Timed

(* What a submission does to the queue, and to what is lost. *)
LEMMA Submitted ==
  ASSUME Types, NEW jobs \in Seq(Jobs), SubmitAll(jobs)
  PROVE  /\ stopped => /\ queue' = queue
                       /\ lost' = lost \cup {[chain |-> j.chain, why |-> "refused"] :
                                               j \in Entries(jobs)}
         /\ ~stopped => /\ queue' = queue \o jobs /\ lost' = lost
                        /\ Entries(queue') = Entries(queue) \cup Entries(jobs)
BY EntriesConcat DEF SubmitAll, Lose, Types, WorkerTypes

(* The jobs of Copies and of Released, as sets.                            *)
LEMMA CopiesEntries ==
  ASSUME Types, fanout # {}, NEW fault \in Faults
  PROVE  \A j \in Entries(Copies(fault)) :
           /\ j \in Jobs /\ j.kind = "attempt" /\ j.retry = 0 /\ j.chaos = fault
           /\ j.chain.event = emitted /\ j.chain.sub = Foremost
<1> SUFFICES ASSUME NEW i \in 1 .. Len(Copies(fault))
             PROVE  LET j == Copies(fault)[i] IN
                    /\ j \in Jobs /\ j.kind = "attempt" /\ j.retry = 0 /\ j.chaos = fault
                    /\ j.chain.event = emitted /\ j.chain.sub = Foremost
  BY DEF Entries
<1>1. Copies(fault) \in Seq(Jobs) /\ Len(Copies(fault)) = NumberOfCopies(fault)
  BY CopiesType
<1>2. i \in 1 .. NumberOfCopies(fault) /\ Copies(fault)[i] \in Jobs
  BY <1>1
<1>3. /\ Copies(fault)[i].kind = "attempt" /\ Copies(fault)[i].retry = 0
      /\ Copies(fault)[i].chaos = fault
      /\ Copies(fault)[i].chain = [event |-> emitted, sub |-> Foremost, copy |-> i - 1]
  BY <1>2, CopiesType
<1> QED
  BY <1>2, <1>3

LEMMA ReleasedEntries ==
  ASSUME Types
  PROVE  /\ held = NoJob => Entries(Released) = {}
         /\ held # NoJob => /\ Entries(Released) = {Released[1]} /\ Released[1] \in Jobs
                            /\ Released[1].chain = held.chain /\ Released[1].chaos = "released"
                            /\ Released[1].kind = held.kind /\ Released[1].retry = held.retry
<1>1. CASE held = NoJob
  BY <1>1, ReleasedType DEF Entries
<1>2. CASE held # NoJob
  <2> DEFINE x == Released[1]
  <2>1. Released = <<x>>
    BY <1>2, ReleasedType
  <2> HIDE DEF x
  <2>2. Entries(Released) = {x}
    BY <2>1 DEF Entries
  <2> QED
    BY <1>2, <2>2, ReleasedType DEF x
<1> QED
  BY <1>1, <1>2

LEMMA SortsQueueNext ==
  ASSUME Types, Sorts, NEW fault \in Faults, QueueNext(fault)
  PROVE  Sorts'
<1>0. fanout # {} /\ UNCHANGED <<inHand, popped, caller>> /\ Firing' = Firing /\ queue \in Seq(Jobs)
  BY DEF QueueNext, worker, Firing, Types, WorkerTypes
<1> DEFINE f == First(fault)
<1>1. f \in Jobs /\ f.kind = "attempt" /\ f.retry = 0 /\ f.chaos = fault
  BY <1>0, FirstType
<1> HIDE DEF f
<1>2. CASE Hold(fault)
  <2> DEFINE s == [f EXCEPT !.kind = "skipped"]
  <2>1. s.chaos = "out_of_order" /\ s.kind = "skipped"
    BY <1>1, <1>2 DEF Hold, Jobs
  <2>2. held' = f /\ timers' = timers /\ (queue' = queue \/ queue' = Append(queue, s))
    BY <1>2 DEF Hold, f
  <2> HIDE DEF s
  <2>3. Entries(queue') \subseteq Entries(queue) \cup {s}
    BY <1>0, <2>2, EntriesAppend
  <2> QED
    BY <1>0, <1>1, <2>1, <2>2, <2>3 DEF Sorts, ClockJobs, Timed
<1>3. CASE Drop(fault)
  <2> DEFINE d == [f EXCEPT !.kind = "dropped"]
  <2>1. d \in Jobs /\ d.kind = "dropped" /\ d.retry = 0
    BY <1>1 DEF Jobs
  <2>2. SubmitAll(<<d>>) /\ UNCHANGED <<held, timers>>
    BY <1>3 DEF Drop, f
  <2> HIDE DEF d
  <2>3. <<d>> \in Seq(Jobs) /\ Entries(<<d>>) = {d}
    BY <2>1 DEF Entries
  <2>4. Entries(queue') \subseteq Entries(queue) \cup {d}
    BY <2>2, <2>3, Submitted
  <2> QED
    BY <1>0, <2>1, <2>2, <2>4 DEF Sorts, ClockJobs, Timed
<1>4. CASE SendAll(fault)
  <2>1. Copies(fault) \in Seq(Jobs) /\ Released \in Seq(Jobs)
        /\ Copies(fault) \o Released \in Seq(Jobs)
    BY <1>0, CopiesType, ReleasedType, ConcatProperties
  <2>2. \A j \in Entries(Copies(fault)) : j.kind = "attempt"
    BY <1>0, CopiesEntries
  <2>3. \A j \in Entries(Released) : j.kind = "attempt"
    BY ReleasedEntries DEF Sorts
  <2>4. Entries(Copies(fault) \o Released) = Entries(Copies(fault)) \cup Entries(Released)
    BY <2>1, EntriesConcat
  <2>5. Entries(queue') \subseteq Entries(queue) \cup Entries(Copies(fault)) \cup Entries(Released)
    BY <1>4, <2>1, <2>4, Submitted DEF SendAll
  <2>6. held' = NoJob
    BY <1>4 DEF SendAll, ClearSlot
  <2>7. Timed' = Timed \/ (fault = "delay" /\ Timed' = Timed \cup {f})
    BY <1>1, <1>4, TimerAdded, DeliveryAssumption DEF SendAll, f, Timed
  <2> QED
    BY <1>0, <1>1, <2>2, <2>3, <2>5, <2>6, <2>7 DEF Sorts, ClockJobs
<1> QED
  BY <1>2, <1>3, <1>4 DEF QueueNext

-----------------------------------------------------------------------------
(* The steps, by what they do with the jobs.                               *)

(* No job moves: time may pass, an event may be emitted, a thread goes on. *)
Still ==
  /\ UNCHANGED <<queue, inHand, delay, timers, popped, held, chains, failures, lost>>
  /\ trail' = trail
  /\ \A c \in Callers : caller'[c].hand = caller[c].hand
  /\ wpc' = "scheduling" <=> wpc = "scheduling"
  /\ wpc' = "idle" <=> wpc = "idle"
  /\ now' >= now /\ (stopped => stopped')
  /\ \/ UNCHANGED <<emitted, fanout>>
     \/ fanout = {} /\ emitted' = emitted + 1

(* The worker writes the last record of the job in its hand.               *)
Ends(status) ==
  /\ wpc \in {"started", "acked", "refused"} /\ Record(status, 0) /\ FinishJob
  /\ inHand.kind = "skipped" <=> status = "skipped"
  /\ inHand.kind = "attempt" <=> status \in {"delivered", "exhausted"}
  /\ status = "exhausted" => ScheduleExhausted
  /\ UNCHANGED <<queue, clock, request, admin, past, failures, stopped, lost, caller>>

Raises ==
  /\ wpc \in {"started", "retrying"} /\ inHand.kind = "attempt" /\ JobRaises

(* An advancing thread takes a due timer into its hand, or submits it.     *)
Scans(c, i) ==
  /\ caller[c].pc = "scan" /\ timers[i].due <= now /\ timers' = RemoveAt(timers, i)
  /\ Steps(c, "fire", timers[i].job, caller[c].told, caller[c].asked)
  /\ caller[c].hand = NoJob
  /\ UNCHANGED <<queue, worker, popped, request, admin, records, now, stopped, lost>>

Fires(c) ==
  /\ caller[c].pc = "fire" /\ caller[c].hand \in Jobs /\ SubmitAll(<<caller[c].hand>>)
  /\ Steps(c, IF stopped THEN "gaveup" ELSE "settle", NoJob, caller[c].told, caller[c].asked)
  /\ UNCHANGED <<worker, popped, request, admin, records, timers, now, stopped>>

Cancels(c, i) ==
  /\ caller[c].pc = "clearing" /\ timers' = RemoveAt(timers, i)
  /\ Lose({timers[i].job}, "cleared")
  /\ UNCHANGED <<queue, worker, popped, request, admin, records, now, stopped, caller>>

Kinds ==
  \/ Still
  \/ \E fault \in Faults : QueueNext(fault)
  \/ TakeJob
  \/ \E status \in {"delivered", "exhausted", "skipped", "dropped"} : Ends(status)
  \/ RecordFailed \/ Raises \/ ScheduleRetry
  \/ \E i \in 1 .. Len(timers) : TimerPop(i)
  \/ \E job \in popped : TimerFire(job)
  \/ \E c \in Callers : Fires(c) \/ \E i \in 1 .. Len(timers) : Scans(c, i) \/ Cancels(c, i)

LEMMA TrailKept ==
  ASSUME UNCHANGED <<log, past>>
  PROVE  trail' = trail
BY DEF trail

LEMMA StepsStill ==
  ASSUME NEW c \in Callers, NEW pc, NEW told, NEW asked,
         Steps(c, pc, caller[c].hand, told, asked)
  PROVE  \A d \in Callers : caller'[d].hand = caller[d].hand
BY DEF Steps

LEMMA CallerKinds ==
  ASSUME Types, Hands, NEW c \in Callers, Call(c) \/ Caller_Next(c)
  PROVE  Still \/ Fires(c) \/ \E i \in 1 .. Len(timers) : Scans(c, i) \/ Cancels(c, i)
<1>0. /\ now \in Nat /\ timers \in Seq(Timers)
      /\ caller[c].pc # "fire" => caller[c].hand = NoJob
      /\ caller[c].pc = "fire" => caller[c].hand \in Jobs
  BY CallerState DEF Hands, Types, ClockTypes, JobOrNone
<1>1. ASSUME UNCHANGED <<queue, shared, timers, lost>>, now' >= now, stopped => stopped',
             \A d \in Callers : caller'[d].hand = caller[d].hand
      PROVE  Still
  BY <1>1, TrailKept DEF Still, shared, worker, request, admin, records
<1>2. ASSUME NEW route \in Routes, CallDrain(c, route) PROVE Still
  <2>1. \A d \in Callers : caller'[d].hand = caller[d].hand
    BY <1>0, <1>2, BeginSteps DEF CallDrain, Steps
  <2> QED
    BY <1>0, <1>1, <1>2, <2>1 DEF CallDrain
<1>3. ASSUME NEW route \in Routes, NEW ms \in 0 .. MaxTime, CallAdvance(c, route, ms) PROVE Still
  <2>1. \A d \in Callers : caller'[d].hand = caller[d].hand
    BY <1>0, <1>3, BeginSteps DEF CallAdvance, Steps
  <2>2. now' >= now
    BY <1>0, <1>3, DeliveryAssumption DEF CallAdvance
  <2> QED
    BY <1>1, <1>3, <2>1, <2>2 DEF CallAdvance
<1>4. CASE DrainQuiesce(c) \/ DrainTimeout(c) \/ AdvanceSettle(c) \/ StopWorker(c)
  <2>1. \A d \in Callers : caller'[d].hand = caller[d].hand
    BY <1>4, GoSteps, StepsStill DEF DrainQuiesce, DrainTimeout, AdvanceSettle, Rescan, StopWorker
  <2> QED
    BY <1>0, <1>1, <1>4, <2>1 DEF DrainQuiesce, DrainTimeout, AdvanceSettle, Rescan, StopWorker
<1>5. CASE DrainLook(c)
  <2>1. \A d \in Callers : caller'[d].hand = caller[d].hand
    <3>1. CASE timers = <<>>
      BY <1>5, <3>1, DrainReturnsSteps, StepsStill DEF DrainLook
    <3>2. CASE timers # <<>>
      BY <1>5, <3>2, LookSteps, StepsStill
    <3> QED
      BY <3>1, <3>2
  <2> QED
    BY <1>0, <1>1, <1>5, <2>1 DEF DrainLook
<1>6. CASE DrainSleep(c)
  <2>1. \A d \in Callers : caller'[d].hand = caller[d].hand
    BY <1>6, NextPassSteps, StepsStill DEF DrainSleep
  <2> QED
    BY <1>0, <1>1, <1>6, <2>1 DEF DrainSleep
<1>7. CASE DrainAdvance(c) \/ ListTimers(c) \/ StopReturns(c) \/ Return(c)
  <2>1. \A d \in Callers : caller'[d].hand = caller[d].hand
    <3>1. CASE Return(c)
      <4>1. caller[c].hand = NoJob
        BY <1>0, <3>1 DEF Return
      <4>2. Steps(c, "idle", caller[c].hand, "nothing", {})
        BY <3>1, <4>1, OtherSteps
      <4> QED
        BY <4>2, StepsStill
    <3>2. CASE DrainAdvance(c) \/ ListTimers(c) \/ StopReturns(c)
      <4>1. \E pc : Steps(c, pc, caller[c].hand, caller[c].told, caller[c].asked)
        BY <3>2, OtherSteps
      <4> QED
        BY <4>1, StepsStill
    <3> QED
      BY <1>7, <3>1, <3>2
  <2>2. now' >= now
    BY <1>0, <1>7, CallerState DEF DrainAdvance, ListTimers, StopReturns, Return
  <2> QED
    BY <1>1, <1>7, <2>1, <2>2 DEF DrainAdvance, ListTimers, StopReturns, Return
<1>8. CASE AdvanceScan(c)
  <2>1. CASE DueJobs = {}
    <3>1. \A d \in Callers : caller'[d].hand = caller[d].hand
      BY <1>8, <2>1, AdvanceReturnsSteps, StepsStill DEF AdvanceScan
    <3> QED
      BY <1>0, <1>1, <1>8, <2>1, <3>1 DEF AdvanceScan
  <2>2. CASE DueJobs # {}
    <3>1. Scans(c, Earliest)
      BY <1>0, <1>8, <2>2, AdvanceScanSteps, EarliestType DEF AdvanceScan, Scans, shared
    <3> QED
      BY <2>2, <3>1, EarliestType
  <2> QED
    BY <2>1, <2>2
<1>9. CASE AdvanceFire(c)
  BY <1>0, <1>9, AdvanceFireSteps DEF AdvanceFire, Fires, shared
<1>10. CASE CancelTimer(c)
  <2>1. PICK i \in DoomedTimers(c) : timers' = RemoveAt(timers, i) /\ Lose({timers[i].job}, "cleared")
    BY <1>10 DEF CancelTimer
  <2> QED
    BY <1>10, <2>1 DEF CancelTimer, Cancels, shared, DoomedTimers
<1> QED
  BY <1>2, <1>3, <1>4, <1>5, <1>6, <1>7, <1>8, <1>9, <1>10 DEF Call, Caller_Next

LEMMA WorkerKinds ==
  ASSUME Types, Worker_Next
  PROVE  \/ Still \/ TakeJob \/ RecordFailed \/ Raises \/ ScheduleRetry
         \/ \E status \in {"delivered", "exhausted", "skipped", "dropped"} : Ends(status)
<1>0. now \in Nat /\ (wpc \notin {"idle", "started"} => inHand.kind = "attempt")
      /\ (wpc # "idle" => inHand.kind \in {"attempt", "skipped", "dropped"})
  BY HandType, JobType DEF Types, WorkerTypes, ClockTypes
<1>1. CASE RecordTerminal
  <2>1. Ends(inHand.kind) /\ inHand.kind \in {"skipped", "dropped"}
    BY <1>0, <1>1 DEF RecordTerminal, Ends
  <2> QED
    BY <2>1
<1>2. CASE Delivered
  <2>1. Ends("delivered")
    BY <1>0, <1>2 DEF Delivered, Ends
  <2> QED
    BY <2>1
<1>3. CASE Exhausted
  <2>1. Ends("exhausted")
    BY <1>0, <1>3 DEF Exhausted, Ends
  <2> QED
    BY <2>1
<1>4. CASE NotExhausted \/ \E a \in Answers : Send(a)
  BY <1>0, <1>4, TrailKept DEF NotExhausted, Send, Still, clock, request, admin, records
<1>5. CASE SendRaises \/ ScheduleGone
  BY <1>0, <1>5 DEF SendRaises, ScheduleGone, Raises
<1> QED
  BY <1>1, <1>2, <1>3, <1>4, <1>5 DEF Worker_Next

LEMMA StepKinds == Types /\ Hands /\ [Next]_vars => Kinds
<1> SUFFICES ASSUME Types, Hands, [Next]_vars PROVE Kinds
  OBVIOUS
<1>0. now \in Nat
  BY DEF Types, ClockTypes
<1>1. ASSUME NEW matching \in SUBSET Subs, Emit(matching) PROVE Still
  BY <1>0, <1>1, TrailKept DEF Emit, Still, worker, clock, admin, records
<1>2. CASE Hydrate
  <2>1. trail' = trail /\ now' >= now
    BY <1>0, <1>2, TrailSurvivesReset DEF Hydrate, clock
  <2> QED
    BY <1>0, <1>2, <2>1 DEF Kinds, Hydrate, Still, worker, clock, request
<1>3. ASSUME NEW s \in Schedules, SetRetryPolicy(s) PROVE Still
  BY <1>0, <1>3, TrailKept DEF SetRetryPolicy, Still, worker, clock, request, records
<1>4. CASE UNCHANGED vars
  <2>1. trail' = trail /\ now' >= now
    BY <1>0, <1>4, TrailKept DEF vars, clock, records
  <2> QED
    BY <1>0, <1>4, <2>1 DEF Kinds, vars, Still, worker, clock, request, records
<1>5. ASSUME NEW c \in Callers, Call(c) \/ Caller_Next(c) PROVE Kinds
  BY <1>5, CallerKinds DEF Kinds
<1>6. CASE Worker_Next
  BY <1>6, WorkerKinds DEF Kinds
<1> QED
  BY <1>1, <1>2, <1>3, <1>4, <1>5, <1>6 DEF Next, Request_Next, Timer_Next, Admin_Next, Kinds

LEMMA SortsStep == Types /\ Hands /\ Sorts /\ [Next]_vars => Sorts'
<1> SUFFICES ASSUME Types, Hands, Sorts, Kinds PROVE Sorts'
  BY StepKinds
<1>0. queue \in Seq(Jobs) /\ inHand \in JobOrNone
  BY DEF Types, WorkerTypes
<1>1. CASE Still
  BY <1>1, FiringKept DEF Still, Sorts, ClockJobs, Timed
<1>2. CASE TakeJob
  <2>1. Entries(queue) = {Head(queue)} \cup Entries(Tail(queue))
    BY <1>0, <1>2, EntriesTail DEF TakeJob
  <2> QED
    BY <1>2, <2>1 DEF TakeJob, Sorts, ClockJobs, Timed, clock, Firing, request
<1>3. ASSUME NEW status, Ends(status) PROVE Sorts'
  BY <1>3 DEF Ends, FinishJob, Sorts, ClockJobs, Timed, clock, Firing, request
<1>4. CASE RecordFailed \/ Raises
  BY <1>4 DEF RecordFailed, Raises, JobRaises, FinishJob, Sorts, ClockJobs, Timed, clock, Firing,
     request
<1>5. CASE ScheduleRetry
  <2>1. inHand \in Jobs /\ inHand.kind = "attempt"
    BY <1>5, HandType DEF ScheduleRetry, Types, WorkerTypes
  <2>2. RetryOf \in Jobs /\ RetryOf.kind = "attempt" /\ RetryOf.chaos = "retry"
    BY <2>1, RetryOfType
  <2>3. Timed' = Timed \cup {RetryOf}
    BY <1>5, <2>2, TimerAdded DEF ScheduleRetry, Types, WorkerTypes
  <2> QED
    BY <1>5, <2>2, <2>3 DEF ScheduleRetry, FinishJob, Sorts, ClockJobs, Firing, request
<1>6. ASSUME NEW i \in 1 .. Len(timers), TimerPop(i) PROVE Sorts'
  <2>1. Timed = Timed' \cup {timers[i].job}
    BY <1>6, TimerRemoved DEF TimerPop
  <2> QED
    BY <1>6, <2>1 DEF TimerPop, Sorts, ClockJobs, Firing, worker, request
<1>7. ASSUME NEW job \in Jobs, job.kind = "attempt", SubmitAll(<<job>>)
      PROVE  Entries(queue') \subseteq Entries(queue) \cup {job}
  <2>1. <<job>> \in Seq(Jobs) /\ Entries(<<job>>) = {job}
    BY DEF Entries
  <2> QED
    BY <1>7, <2>1, Submitted
<1>8. ASSUME NEW job \in popped, TimerFire(job) PROVE Sorts'
  <2>1. job \in Jobs /\ job.kind = "attempt"
    BY DEF Types, ClockTypes, Sorts, ClockJobs
  <2>2. Entries(queue') \subseteq Entries(queue) \cup {job}
    BY <1>7, <1>8, <2>1 DEF TimerFire
  <2> QED
    BY <1>8, <2>1, <2>2 DEF TimerFire, Sorts, ClockJobs, Timed, Firing, worker, request
<1>9. ASSUME NEW c \in Callers, Fires(c) PROVE Sorts'
  <2>1. caller[c].hand \in Firing
    BY <1>9, JobType DEF Fires, Firing
  <2>2. caller[c].hand \in Jobs /\ caller[c].hand.kind = "attempt"
    BY <1>9, <2>1 DEF Sorts, ClockJobs, Fires
  <2>3. Entries(queue') \subseteq Entries(queue) \cup {caller[c].hand}
    BY <1>7, <1>9, <2>2 DEF Fires
  <2>4. Firing' \subseteq Firing
    BY <1>9 DEF Fires, Steps, Firing
  <2> QED
    BY <1>9, <2>2, <2>3, <2>4 DEF Fires, Sorts, ClockJobs, Timed, worker, request
<1>10. ASSUME NEW c \in Callers, NEW i \in 1 .. Len(timers), Scans(c, i) PROVE Sorts'
  <2>1. Timed = Timed' \cup {timers[i].job}
    BY <1>10, TimerRemoved DEF Scans
  <2>2. Firing' \subseteq Firing \cup {timers[i].job}
    BY <1>10 DEF Scans, Steps, Firing
  <2> QED
    BY <1>10, <2>1, <2>2 DEF Scans, Sorts, ClockJobs, worker, request
<1>11. ASSUME NEW c \in Callers, NEW i \in 1 .. Len(timers), Cancels(c, i) PROVE Sorts'
  <2>1. Timed = Timed' \cup {timers[i].job}
    BY <1>11, TimerRemoved DEF Cancels
  <2> QED
    BY <1>11, <2>1 DEF Cancels, Sorts, ClockJobs, Firing, worker, request
<1> QED
  BY <1>1, <1>2, <1>3, <1>4, <1>5, <1>6, <1>8, <1>9, <1>10, <1>11, SortsQueueNext DEF Kinds

-----------------------------------------------------------------------------
(* Where the chains are.  P and Q are tuples of nine sets, as Places is.   *)

Nine == 1 .. 9

Parts(P, C) ==
  /\ C = UNION {P[i] : i \in Nine}
  /\ \A i, k \in Nine : i # k => P[i] \cap P[k] = {}

Moves(P, Q, a, b, K) ==
  /\ K \subseteq P[a] /\ Q[a] = P[a] \ K /\ Q[b] = P[b] \cup K
  /\ \A i \in Nine \ {a, b} : Q[i] = P[i]

Adds(P, Q, b, K) == Q[b] = P[b] \cup K /\ \A i \in Nine \ {b} : Q[i] = P[i]

LEMMA MoveKeeps ==
  ASSUME NEW P, NEW Q, NEW C, NEW K, NEW a \in Nine, NEW b \in Nine, a # b,
         Parts(P, C), Moves(P, Q, a, b, K)
  PROVE  Parts(Q, C)
<1>1. ASSUME NEW x PROVE x \in C <=> \E i \in Nine : x \in Q[i]
  <2>1. x \in C <=> \E i \in Nine : x \in P[i]
    BY DEF Parts
  <2> QED
    BY <2>1 DEF Moves
<1>2. ASSUME NEW i \in Nine, NEW k \in Nine, i # k PROVE Q[i] \cap Q[k] = {}
  <2>1. ASSUME NEW x, x \in Q[i], x \in Q[k] PROVE FALSE
    <3>1. \A m, n \in Nine : x \in P[m] /\ x \in P[n] => m = n
      BY DEF Parts
    <3>2. CASE x \in K
      <4>1. \A m \in Nine : x \in P[m] => m = a
        BY <3>1, <3>2 DEF Moves
      <4>2. \A m \in Nine : x \in Q[m] => m = b
        BY <3>2, <4>1 DEF Moves
      <4> QED
        BY <1>2, <2>1, <4>2
    <3>3. CASE x \notin K
      <4>1. \A m \in Nine : x \in Q[m] => x \in P[m]
        BY <3>3 DEF Moves
      <4> QED
        BY <1>2, <2>1, <3>1, <4>1
    <3> QED
      BY <3>2, <3>3
  <2> QED
    BY <2>1
<1> QED
  BY <1>1, <1>2 DEF Parts

LEMMA AddKeeps ==
  ASSUME NEW P, NEW Q, NEW C, NEW K, NEW b \in Nine, Parts(P, C), K \cap C = {},
         Adds(P, Q, b, K)
  PROVE  Parts(Q, C \cup K)
<1>1. \A i \in Nine : P[i] \subseteq C
  BY DEF Parts
<1>2. ASSUME NEW x PROVE x \in C \cup K <=> \E i \in Nine : x \in Q[i]
  <2>1. x \in C <=> \E i \in Nine : x \in P[i]
    BY DEF Parts
  <2> QED
    BY <2>1 DEF Adds
<1>3. ASSUME NEW i \in Nine, NEW k \in Nine, i # k PROVE Q[i] \cap Q[k] = {}
  BY <1>1, <1>3 DEF Adds, Parts
<1> QED
  BY <1>2, <1>3 DEF Parts

LEMMA SameKeeps ==
  ASSUME NEW P, NEW Q, NEW C, Parts(P, C), \A i \in Nine : Q[i] = P[i]
  PROVE  Parts(Q, C)
<1>1. {Q[i] : i \in Nine} = {P[i] : i \in Nine}
  OBVIOUS
<1> QED
  BY <1>1 DEF Parts

(* K goes from a to b, and what is new, L, comes to e.                     *)
Flows(P, Q, a, b, K, e, L) ==
  /\ K \subseteq P[a]
  /\ \A i \in Nine :
       Q[i] = (IF i = a THEN P[a] \ K ELSE IF i = b THEN P[b] \cup K ELSE P[i])
                \cup (IF i = e THEN L ELSE {})

LEMMA FlowKeeps ==
  ASSUME NEW P, NEW Q, NEW C, NEW K, NEW L, NEW a \in Nine, NEW b \in Nine, NEW e \in Nine,
         a # b, Parts(P, C), L \cap C = {}, Flows(P, Q, a, b, K, e, L)
  PROVE  Parts(Q, C \cup L)
<1> DEFINE R == [i \in Nine |-> IF i = a THEN P[a] \ K ELSE IF i = b THEN P[b] \cup K ELSE P[i]]
<1>1. Moves(P, R, a, b, K)
  BY DEF Moves, Flows
<1>2. Adds(R, Q, e, L)
  BY DEF Adds, Flows
<1> HIDE DEF R
<1> QED
  BY <1>1, <1>2, MoveKeeps, AddKeeps

Once ==
  /\ NoChainTwice(queue)
  /\ \A i, k \in 1 .. Len(timers) : timers[i].job.chain = timers[k].job.chain => i = k
  /\ \A j, k \in popped : j.chain = k.chain => j = k
  /\ \A c, d \in Callers :
       c # d /\ caller[c].hand # NoJob /\ caller[d].hand # NoJob =>
         caller[c].hand.chain # caller[d].hand.chain

(* What is not prepared yet belongs to a later event, or is for a          *)
(* subscriber that the fan-out has not come to.                            *)
Prepared ==
  \A chain \in chains :
    /\ chain.event <= emitted
    /\ chain.event = emitted => \A s \in fanout : chain.sub < s

Placed == Parts(Places, chains) /\ Once /\ Prepared

LEMMA PlacesAre ==
  /\ Places[1] = Chain(Entries(queue)) /\ Places[2] = Chain({inHand} \ {NoJob})
  /\ Places[3] = Chain(Timed) /\ Places[4] = Chain(popped) /\ Places[5] = Chain(Firing)
  /\ Places[6] = Chain(InSlot) /\ Places[7] = Ended /\ Places[8] = failures
  /\ Places[9] = Gone /\ Len(Places) = 9
  /\ Places'[1] = Chain(Entries(queue'))
  /\ Places'[2] = Chain({inHand'} \ {NoJob})
  /\ Places'[3] = Chain(Timed') /\ Places'[4] = Chain(popped') /\ Places'[5] = Chain(Firing')
  /\ Places'[6] = Chain(InSlot') /\ Places'[7] = Ended' /\ Places'[8] = failures'
  /\ Places'[9] = Gone'
BY DEF Places, Timed, Chain

(* The end of the trail. *)
LEMMA EndedGrows ==
  ASSUME Types, NEW r \in Records, trail' = Append(trail, r)
  PROVE  Ended' = Ended \cup (IF r.status \in {"delivered", "exhausted", "dropped"}
                                THEN {r.chain} ELSE {})
<1>1. Entries(trail') = Entries(trail) \cup {r}
  BY TrailType, EntriesAppend
<1> QED
  BY <1>1 DEF Ended

LEMMA ChainOfJob ==
  ASSUME NEW j \in Jobs
  PROVE  Chain({j} \ {NoJob}) = IF j.kind = "skipped" THEN {} ELSE {j.chain}
BY JobType DEF Chain

LEMMA ChainOfNone == Chain({NoJob} \ {NoJob}) = {} /\ Chain({}) = {}
BY DEF Chain

(* NoChainTwice of the queues the actions build. *)
LEMMA TwiceConcat ==
  ASSUME NEW s \in Seq(Jobs), NEW t \in Seq(Jobs), NoChainTwice(s), NoChainTwice(t),
         Chain(Entries(s)) \cap Chain(Entries(t)) = {}
  PROVE  NoChainTwice(s \o t)
<1> SUFFICES ASSUME NEW i \in 1 .. Len(s \o t), NEW k \in 1 .. Len(s \o t), i # k,
                    (s \o t)[i].chain = (s \o t)[k].chain,
                    (s \o t)[i].kind # "skipped", (s \o t)[k].kind # "skipped"
             PROVE  FALSE
  BY DEF NoChainTwice
<1>0. /\ Len(s) \in Nat /\ Len(t) \in Nat /\ Len(s \o t) = Len(s) + Len(t)
      /\ \A m \in 1 .. Len(s) + Len(t) : (s \o t)[m] = IF m <= Len(s) THEN s[m] ELSE t[m - Len(s)]
  BY ConcatProperties, LenProperties
<1> HIDE DEF NoChainTwice
<1>1. ASSUME NEW m \in 1 .. Len(s), NEW n \in 1 .. Len(t),
             s[m].chain = t[n].chain, s[m].kind # "skipped", t[n].kind # "skipped"
      PROVE  FALSE
  <2>1. s[m].chain \in Chain(Entries(s)) /\ t[n].chain \in Chain(Entries(t))
    BY <1>1 DEF Chain, Entries
  <2> QED
    BY <1>1, <2>1
<1>2. CASE i <= Len(s) /\ k <= Len(s)
  BY <1>0, <1>2 DEF NoChainTwice
<1>3. CASE i > Len(s) /\ k > Len(s)
  <2>1. i - Len(s) \in 1 .. Len(t) /\ k - Len(s) \in 1 .. Len(t) /\ i - Len(s) # k - Len(s)
    BY <1>0, <1>3
  <2>2. (s \o t)[i] = t[i - Len(s)] /\ (s \o t)[k] = t[k - Len(s)]
    BY <1>0, <1>3
  <2> QED
    BY <2>1, <2>2 DEF NoChainTwice
<1>4. CASE i <= Len(s) /\ k > Len(s)
  <2>1. i \in 1 .. Len(s) /\ k - Len(s) \in 1 .. Len(t)
    BY <1>0, <1>4
  <2>2. (s \o t)[i] = s[i] /\ (s \o t)[k] = t[k - Len(s)]
    BY <1>0, <1>4
  <2> QED
    BY <1>1, <2>1, <2>2
<1>5. CASE i > Len(s) /\ k <= Len(s)
  <2>1. k \in 1 .. Len(s) /\ i - Len(s) \in 1 .. Len(t)
    BY <1>0, <1>5
  <2>2. (s \o t)[k] = s[k] /\ (s \o t)[i] = t[i - Len(s)]
    BY <1>0, <1>5
  <2> QED
    BY <1>1, <2>1, <2>2
<1> QED
  BY <1>0, <1>2, <1>3, <1>4, <1>5

LEMMA TwiceOne ==
  ASSUME NEW j
  PROVE  NoChainTwice(<<j>>)
BY DEF NoChainTwice

LEMMA TwiceTail ==
  ASSUME NEW s \in Seq(Jobs), s # <<>>, NoChainTwice(s)
  PROVE  /\ NoChainTwice(Tail(s))
         /\ Chain(Entries(Tail(s))) =
              Chain(Entries(s)) \ (IF Head(s).kind = "skipped" THEN {} ELSE {Head(s).chain})
<1>0. /\ Head(s) = s[1] /\ Len(Tail(s)) = Len(s) - 1 /\ Len(s) \in Nat /\ Len(s) >= 1
      /\ \A i \in 1 .. Len(Tail(s)) : Tail(s)[i] = s[i + 1]
      /\ Entries(s) = {Head(s)} \cup Entries(Tail(s))
  BY EntriesTail, LenProperties
<1>1. NoChainTwice(Tail(s))
  <2> SUFFICES ASSUME NEW i \in 1 .. Len(Tail(s)), NEW k \in 1 .. Len(Tail(s)), i # k,
                      Tail(s)[i].chain = Tail(s)[k].chain
               PROVE  Tail(s)[i].kind = "skipped" \/ Tail(s)[k].kind = "skipped"
    BY DEF NoChainTwice
  <2>1. i + 1 \in 1 .. Len(s) /\ k + 1 \in 1 .. Len(s) /\ i + 1 # k + 1
    BY <1>0
  <2> QED
    BY <1>0, <2>1 DEF NoChainTwice
<1>2. ASSUME NEW j \in Entries(Tail(s)), j.kind # "skipped", Head(s).kind # "skipped"
      PROVE  j.chain # Head(s).chain
  <2>1. PICK i \in 1 .. Len(Tail(s)) : Tail(s)[i] = j
    BY DEF Entries
  <2>2. i + 1 \in 1 .. Len(s) /\ 1 \in 1 .. Len(s) /\ i + 1 # 1 /\ s[i + 1] = j
    BY <1>0, <2>1
  <2> QED
    BY <1>0, <1>2, <2>2 DEF NoChainTwice
<1>3. Chain(Entries(s)) = Chain({Head(s)}) \cup Chain(Entries(Tail(s)))
  BY <1>0, ChainUnion
<1>4. ASSUME Head(s).kind # "skipped" PROVE Head(s).chain \notin Chain(Entries(Tail(s)))
  BY <1>2, <1>4 DEF Chain
<1> QED
  BY <1>1, <1>3, <1>4, ChainOne

(* A timer that leaves the clock takes its chain with it.                  *)
LEMMA OneTimerLeaves ==
  ASSUME Types, Sorts, Once, NEW i \in 1 .. Len(timers), timers' = RemoveAt(timers, i)
  PROVE  /\ timers[i].job \in Timed /\ timers[i].job \in Jobs /\ timers[i].job.kind = "attempt"
         /\ timers[i].job.chain \in Chain(Timed)
         /\ Chain(Timed') = Chain(Timed) \ {timers[i].job.chain}
         /\ \A m, n \in 1 .. Len(timers') :
              timers'[m].job.chain = timers'[n].job.chain => m = n
<1> DEFINE j == timers[i].job
<1>0. /\ timers \in Seq(Timers) /\ Len(timers) \in Nat /\ j \in Timed /\ j \in Jobs
      /\ Len(timers') = Len(timers) - 1
      /\ \A k \in 1 .. Len(timers) - 1 : timers'[k] = IF k < i THEN timers[k] ELSE timers[k + 1]
  BY TimedType, EntriesRemove, LenProperties
<1>1. j.kind = "attempt"
  BY <1>0 DEF Sorts, ClockJobs
<1>2. Timed = Timed' \cup {j}
  BY TimerRemoved
<1>3. ASSUME NEW m \in 1 .. Len(timers'), NEW n \in 1 .. Len(timers'),
             timers'[m].job.chain = timers'[n].job.chain
      PROVE  m = n
  <2> DEFINE x(k) == IF k < i THEN k ELSE k + 1
  <2>1. x(m) \in 1 .. Len(timers) /\ x(n) \in 1 .. Len(timers)
        /\ timers'[m] = timers[x(m)] /\ timers'[n] = timers[x(n)]
    BY <1>0
  <2>2. x(m) = x(n)
    BY <1>3, <2>1 DEF Once
  <2> QED
    BY <1>0, <2>2
<1>4. ASSUME NEW k \in Timed' PROVE k.chain # j.chain
  <2>1. PICK m \in 1 .. Len(timers') : timers'[m].job = k
    BY DEF Timed, Entries
  <2> DEFINE x == IF m < i THEN m ELSE m + 1
  <2>2. x \in 1 .. Len(timers) /\ timers[x].job = k /\ x # i
    BY <1>0, <2>1
  <2> QED
    BY <2>2 DEF Once
<1>5. j.chain \notin Chain(Timed')
  BY <1>4 DEF Chain
<1>6. Chain(Timed) = Chain(Timed') \cup {j.chain}
  <2>1. Chain(Timed) = Chain(Timed') \cup Chain({j})
    BY <1>2, ChainUnion
  <2>2. Chain({j}) = {j.chain}
    BY <1>1, ChainOne
  <2> QED
    BY <2>1, <2>2
<1> QED
  BY <1>0, <1>1, <1>3, <1>5, <1>6

LEMMA OneTimerComes ==
  ASSUME Types, Once, NEW job \in Jobs, job.kind = "attempt", NEW ms \in Nat,
         Schedule(job, ms), job.chain \notin Chain(Timed), \A j \in Timed : j.kind = "attempt"
  PROVE  /\ Chain(Timed') = Chain(Timed) \cup {job.chain}
         /\ \A m, n \in 1 .. Len(timers') :
              timers'[m].job.chain = timers'[n].job.chain => m = n
<1>0. timers \in Seq(Timers) /\ Len(timers) \in Nat
  BY TimedType, LenProperties
<1>1. Chain(Timed') = Chain(Timed) \cup {job.chain}
  <2>1. Timed' = Timed \cup {job}
    BY TimerAdded
  <2>2. Chain(Timed') = Chain(Timed) \cup Chain({job})
    BY <2>1, ChainUnion
  <2>3. Chain({job}) = {job.chain}
    BY ChainOne
  <2> QED
    BY <2>2, <2>3
<1>2. /\ Len(timers') = Len(timers) + 1 /\ timers'[Len(timers) + 1].job = job
      /\ \A m \in 1 .. Len(timers) : timers'[m] = timers[m]
  BY <1>0 DEF Schedule
<1>3. \A m \in 1 .. Len(timers) : timers[m].job.chain # job.chain
  <2>1. \A m \in 1 .. Len(timers) : timers[m].job.chain \in Chain(Timed)
    BY TimedType DEF Chain
  <2> QED
    BY <2>1
<1> QED
  BY <1>0, <1>1, <1>2, <1>3 DEF Once

LEMMA GoneGrows ==
  ASSUME NEW jobs, NEW why,
         lost' = lost \cup {[chain |-> j.chain, why |-> why] : j \in jobs}
  PROVE  Gone' = Gone \cup {j.chain : j \in jobs}
<1>1. \A j \in jobs : [chain |-> j.chain, why |-> why] \in lost'
  OBVIOUS
<1>2. \A j \in jobs : j.chain \in Gone'
  <2> SUFFICES ASSUME NEW j \in jobs PROVE j.chain \in Gone'
    OBVIOUS
  <2>1. [chain |-> j.chain, why |-> why].chain = j.chain
    OBVIOUS
  <2> QED
    BY <1>1, <2>1 DEF Gone
<1>3. Gone \subseteq Gone'
  BY DEF Gone
<1>4. ASSUME NEW l \in lost' PROVE l.chain \in Gone \cup {j.chain : j \in jobs}
  <2>1. CASE l \in lost
    BY <2>1 DEF Gone
  <2>2. CASE l \notin lost
    <3>1. PICK j \in jobs : l = [chain |-> j.chain, why |-> why]
      BY <2>2
    <3> QED
      BY <3>1
  <2> QED
    BY <2>1, <2>2
<1> QED
  BY <1>2, <1>3, <1>4 DEF Gone

(* What a submission does to the places. *)
LEMMA SubmitPlaces ==
  ASSUME Types, Once, NEW jobs \in Seq(Jobs), NoChainTwice(jobs), SubmitAll(jobs),
         \A j \in Entries(jobs) : j.kind # "skipped",
         Chain(Entries(queue)) \cap Chain(Entries(jobs)) = {}
  PROVE  /\ NoChainTwice(queue')
         /\ stopped => /\ Chain(Entries(queue')) = Chain(Entries(queue))
                       /\ Gone' = Gone \cup Chain(Entries(jobs))
         /\ ~stopped => /\ Chain(Entries(queue')) = Chain(Entries(queue)) \cup Chain(Entries(jobs))
                        /\ Gone' = Gone
<1>0. queue \in Seq(Jobs)
  BY DEF Types, WorkerTypes
<1>1. CASE stopped
  <2>1. queue' = queue
        /\ lost' = lost \cup {[chain |-> j.chain, why |-> "refused"] : j \in Entries(jobs)}
    BY <1>1, Submitted
  <2>2. Chain(Entries(jobs)) = {j.chain : j \in Entries(jobs)}
    BY DEF Chain
  <2>3. Gone' = Gone \cup {j.chain : j \in Entries(jobs)}
    BY <2>1, GoneGrows
  <2> QED
    BY <1>1, <2>1, <2>2, <2>3 DEF Once
<1>2. CASE ~stopped
  <2>1. queue' = queue \o jobs /\ lost' = lost
        /\ Entries(queue') = Entries(queue) \cup Entries(jobs)
    BY <1>2, Submitted
  <2>2. NoChainTwice(queue \o jobs)
    BY <1>0, TwiceConcat DEF Once
  <2>3. Chain(Entries(queue')) = Chain(Entries(queue)) \cup Chain(Entries(jobs))
    BY <2>1, ChainUnion
  <2> QED
    BY <1>2, <2>1, <2>2, <2>3 DEF Gone
<1> QED
  BY <1>1, <1>2

LEMMA SubmitOne ==
  ASSUME Types, Once, NEW job \in Jobs, job.kind # "skipped", SubmitAll(<<job>>),
         job.chain \notin Chain(Entries(queue))
  PROVE  /\ NoChainTwice(queue')
         /\ stopped => /\ Chain(Entries(queue')) = Chain(Entries(queue))
                       /\ Gone' = Gone \cup {job.chain}
         /\ ~stopped => /\ Chain(Entries(queue')) = Chain(Entries(queue)) \cup {job.chain}
                        /\ Gone' = Gone
<1>1. <<job>> \in Seq(Jobs) /\ Entries(<<job>>) = {job}
  BY DEF Entries
<1>2. Chain(Entries(<<job>>)) = {job.chain}
  BY <1>1, ChainOne
<1> QED
  BY <1>1, <1>2, SubmitPlaces, TwiceOne

(* The chains being prepared are not known yet. *)
LEMMA Fresh ==
  ASSUME Types, Placed, fanout # {}
  PROVE  /\ \A chain \in chains : ~(chain.event = emitted /\ chain.sub = Foremost)
         /\ \A i \in Nine : Places[i] \subseteq chains
<1>1. Foremost \in fanout /\ Foremost \in Nat
  BY ForemostType, DeliveryAssumption
<1>2. ASSUME NEW chain \in chains, chain.event = emitted, chain.sub = Foremost PROVE FALSE
  BY <1>1, <1>2 DEF Placed, Prepared
<1> QED
  BY <1>2 DEF Placed, Parts

LEMMA PreparedNext ==
  ASSUME Types, Prepared, fanout # {}, NEW new, chains' = chains \cup new,
         \A chain \in new : chain.event = emitted /\ chain.sub = Foremost,
         emitted' = emitted, fanout' \subseteq fanout \ {Foremost}
  PROVE  Prepared'
<1>1. Foremost \in fanout /\ (\A t \in fanout : Foremost <= t) /\ fanout \subseteq Nat
      /\ emitted \in Nat
  BY ForemostType, DeliveryAssumption DEF Types, RequestTypes
<1>2. ASSUME NEW chain \in chains'
      PROVE  /\ chain.event <= emitted
             /\ chain.event = emitted => \A s \in fanout' : chain.sub < s
  <2>1. CASE chain \in chains
    BY <2>1 DEF Prepared
  <2>2. CASE chain \in new
    <3>1. chain.event = emitted /\ chain.sub = Foremost
      BY <2>2
    <3>2. ASSUME NEW s \in fanout' PROVE s \in Nat /\ s # Foremost /\ Foremost <= s
      <4>1. s \in fanout /\ s # Foremost
        BY <3>2
      <4> QED
        BY <1>1, <4>1
    <3>3. \A s \in fanout' : chain.sub < s
      BY <1>1, <3>1, <3>2
    <3> QED
      BY <1>1, <3>1, <3>3
  <2> QED
    BY <2>1, <2>2
<1> QED
  BY <1>2 DEF Prepared

(* The chains of the copies, each in one job. *)
LEMMA CopiesPlaces ==
  ASSUME Types, fanout # {}, NEW fault \in Faults
  PROVE  /\ NoChainTwice(Copies(fault))
         /\ Chain(Entries(Copies(fault))) = {j.chain : j \in Entries(Copies(fault))}
         /\ \A chain \in Chain(Entries(Copies(fault))) :
              chain.event = emitted /\ chain.sub = Foremost
         /\ fault # "duplicate" => Chain(Entries(Copies(fault))) = {First(fault).chain}
<1>1. /\ Copies(fault) \in Seq(Jobs) /\ Len(Copies(fault)) = NumberOfCopies(fault)
      /\ NumberOfCopies(fault) \in Nat
      /\ \A k \in 1 .. NumberOfCopies(fault) :
           /\ Copies(fault)[k].kind = "attempt"
           /\ Copies(fault)[k].chain = [event |-> emitted, sub |-> Foremost, copy |-> k - 1]
  BY CopiesType
<1>2. NoChainTwice(Copies(fault))
  <2> SUFFICES ASSUME NEW i \in 1 .. NumberOfCopies(fault), NEW k \in 1 .. NumberOfCopies(fault),
                      Copies(fault)[i].chain = Copies(fault)[k].chain
               PROVE  i = k
    BY <1>1 DEF NoChainTwice
  <2> DEFINE x(n) == [event |-> emitted, sub |-> Foremost, copy |-> n]
  <2>1. Copies(fault)[i].chain = x(i - 1) /\ Copies(fault)[k].chain = x(k - 1)
    BY <1>1
  <2>2. ASSUME NEW m, NEW n, x(m) = x(n) PROVE m = n
    BY <2>2
  <2> HIDE DEF x
  <2>3. i - 1 = k - 1
    BY <2>1, <2>2
  <2> QED
    BY <1>1, <2>3
<1>3. Chain(Entries(Copies(fault))) = {j.chain : j \in Entries(Copies(fault))}
  BY CopiesEntries DEF Chain
<1>4. \A chain \in Chain(Entries(Copies(fault))) : chain.event = emitted /\ chain.sub = Foremost
  BY <1>3, CopiesEntries
<1>5. ASSUME fault # "duplicate" PROVE Chain(Entries(Copies(fault))) = {First(fault).chain}
  <2>1. NumberOfCopies(fault) = 1
    BY <1>5 DEF NumberOfCopies
  <2>2. Copies(fault)[1].chain = First(fault).chain
    BY <1>1, <2>1, FirstType
  <2>3. Entries(Copies(fault)) = {Copies(fault)[1]}
    BY <1>1, <2>1 DEF Entries
  <2> QED
    BY <1>3, <2>2, <2>3
<1> QED
  BY <1>2, <1>3, <1>4, <1>5

LEMMA SlotPlace ==
  ASSUME Types, Sorts
  PROVE  /\ held = NoJob => Chain(InSlot) = {}
         /\ held # NoJob => held \in Jobs /\ Chain(InSlot) = {held.chain}
<1>1. ASSUME held # NoJob PROVE held \in Jobs /\ held.kind = "attempt"
  BY <1>1 DEF Types, RequestTypes, JobOrNone, Sorts
<1> QED
  BY <1>1, ChainOfJob, ChainOfNone DEF InSlot

LEMMA PlacedHold ==
  ASSUME Types, Sorts, Placed, fanout # {}, NEW fault \in Faults, Hold(fault),
         UNCHANGED <<inHand, popped, failures, caller, emitted>>, trail' = trail,
         fanout' \subseteq fanout \ {Foremost}
  PROVE  Placed'
<1> DEFINE f == First(fault)
           s == [f EXCEPT !.kind = "skipped"]
<1>0. queue \in Seq(Jobs) /\ Chain({}) = {} /\ f \in Jobs /\ f.kind = "attempt"
      /\ f.chain.event = emitted /\ f.chain.sub = Foremost
  BY FirstType, ChainOfNone DEF Types, WorkerTypes
<1>1. s \in Jobs /\ s.kind = "skipped"
  BY <1>0 DEF Jobs
<1>2. /\ held' = f /\ chains' = chains \cup {f.chain} /\ timers' = timers
      /\ queue' = queue \/ queue' = Append(queue, s)
      /\ held = NoJob => lost' = lost
      /\ held # NoJob => lost' = lost \cup {[chain |-> held.chain, why |-> "overwritten"]}
  BY DEF Hold, Lose
<1> HIDE DEF f, s
<1>3. NoChainTwice(queue') /\ Chain(Entries(queue')) = Chain(Entries(queue))
  <2>1. CASE queue' = queue
    BY <2>1 DEF Placed, Once
  <2>2. CASE queue' = Append(queue, s)
    <3>1. <<s>> \in Seq(Jobs) /\ Entries(<<s>>) = {s} /\ queue' = queue \o <<s>>
      BY <1>0, <1>1, <2>2 DEF Entries
    <3>2. Chain(Entries(<<s>>)) = {}
      BY <1>1, <3>1, ChainOne
    <3>3. NoChainTwice(queue')
      BY <1>0, <3>1, <3>2, TwiceOne, TwiceConcat DEF Placed, Once
    <3>4. Chain(Entries(queue')) = Chain(Entries(queue)) \cup Chain(Entries(<<s>>))
      <4>1. Entries(queue') = Entries(queue) \cup Entries(<<s>>)
        BY <1>0, <3>1, EntriesConcat
      <4> QED
        BY <4>1, ChainUnion
    <3> QED
      BY <3>2, <3>3, <3>4
  <2> QED
    BY <1>2, <2>1, <2>2
<1>4. Chain(InSlot') = {f.chain}
  BY <1>0, <1>2, ChainOfJob DEF InSlot
<1>5. Gone' = Gone \cup Chain(InSlot)
  <2>1. CASE held = NoJob
    BY <1>2, <2>1, SlotPlace DEF Gone
  <2>2. CASE held # NoJob
    <3>1. lost' = lost \cup {[chain |-> j.chain, why |-> "overwritten"] : j \in {held}}
      BY <1>2, <2>2
    <3>2. Gone' = Gone \cup {j.chain : j \in {held}}
      BY <3>1, GoneGrows
    <3> QED
      BY <2>2, <3>2, SlotPlace
  <2> QED
    BY <2>1, <2>2
<1>6. Timed' = Timed /\ Firing' = Firing /\ Ended' = Ended
  BY <1>2 DEF Timed, Firing, Ended
<1>7. Flows(Places, Places', 6, 9, Chain(InSlot), 6, {f.chain})
  BY <1>3, <1>4, <1>5, <1>6, PlacesAre DEF Flows, Nine
<1>8. f.chain \notin chains
  BY <1>0, Fresh
<1>9. Parts(Places', chains')
  <2>1. 6 \in Nine /\ 9 \in Nine /\ 6 # 9 /\ {f.chain} \cap chains = {} /\ Parts(Places, chains)
    BY <1>8 DEF Placed, Nine
  <2> QED
    BY <1>2, <1>7, <2>1, FlowKeeps
<1>10. Once'
  BY <1>2, <1>3 DEF Placed, Once
<1>11. Prepared'
  BY <1>0, <1>2, PreparedNext DEF Placed
<1> QED
  BY <1>9, <1>10, <1>11 DEF Placed

LEMMA PlacedDrop ==
  ASSUME Types, Sorts, Placed, fanout # {}, NEW fault \in Faults, Drop(fault),
         UNCHANGED <<inHand, popped, failures, caller, emitted>>, trail' = trail,
         fanout' \subseteq fanout \ {Foremost}
  PROVE  Placed'
<1> DEFINE f == First(fault)
           d == [f EXCEPT !.kind = "dropped"]
<1>0. queue \in Seq(Jobs) /\ Chain({}) = {} /\ f \in Jobs
      /\ f.chain.event = emitted /\ f.chain.sub = Foremost
  BY FirstType, ChainOfNone DEF Types, WorkerTypes
<1>1. d \in Jobs /\ d.kind = "dropped" /\ d.chain = f.chain
  BY <1>0 DEF Jobs
<1>2. /\ chains' = chains \cup {f.chain} /\ SubmitAll(<<d>>) /\ timers' = timers /\ held' = held
  BY DEF Drop
<1> HIDE DEF f, d
<1>3. f.chain \notin chains /\ f.chain \notin Chain(Entries(queue))
  BY <1>0, Fresh, PlacesAre DEF Nine
<1>4. /\ NoChainTwice(queue')
      /\ stopped => Chain(Entries(queue')) = Chain(Entries(queue)) /\ Gone' = Gone \cup {f.chain}
      /\ ~stopped => Chain(Entries(queue')) = Chain(Entries(queue)) \cup {f.chain} /\ Gone' = Gone
  BY <1>1, <1>2, <1>3, SubmitOne DEF Placed
<1>5. Timed' = Timed /\ Firing' = Firing /\ Ended' = Ended /\ InSlot' = InSlot
  BY <1>2 DEF Timed, Firing, Ended, InSlot
<1>6. \E e \in Nine : Adds(Places, Places', e, {f.chain})
  <2>1. CASE stopped
    <3>1. Adds(Places, Places', 9, {f.chain})
      BY <1>4, <1>5, <2>1, PlacesAre DEF Adds, Nine
    <3> QED
      BY <3>1 DEF Nine
  <2>2. CASE ~stopped
    <3>1. Adds(Places, Places', 1, {f.chain})
      BY <1>4, <1>5, <2>2, PlacesAre DEF Adds, Nine
    <3> QED
      BY <3>1 DEF Nine
  <2> QED
    BY <2>1, <2>2
<1>7. Parts(Places', chains')
  BY <1>2, <1>3, <1>6, AddKeeps DEF Placed
<1>8. Once'
  BY <1>2, <1>4 DEF Placed, Once
<1>9. Prepared'
  BY <1>0, <1>2, PreparedNext DEF Placed
<1> QED
  BY <1>7, <1>8, <1>9 DEF Placed

LEMMA PlacedSendAll ==
  ASSUME Types, Sorts, Placed, fanout # {}, NEW fault \in Faults, SendAll(fault),
         UNCHANGED <<inHand, popped, failures, caller, emitted>>, trail' = trail,
         fanout' \subseteq fanout \ {Foremost}
  PROVE  Placed'
<1> DEFINE new == Chain(Entries(Copies(fault)))
<1>0. /\ queue \in Seq(Jobs) /\ Chain({}) = {} /\ Copies(fault) \in Seq(Jobs)
      /\ Released \in Seq(Jobs) /\ held' = NoJob /\ chains' = chains \cup new
      /\ \A chain \in new : chain.event = emitted /\ chain.sub = Foremost
  BY CopiesType, CopiesPlaces, ReleasedType, ChainOfNone DEF Types, WorkerTypes, SendAll, ClearSlot
<1>1. new \cap chains = {} /\ new \cap Chain(Entries(queue)) = {} /\ new \cap Chain(InSlot) = {}
      /\ Chain(InSlot) \cap Chain(Entries(queue)) = {}
  <2>1. new \cap chains = {}
    BY <1>0, Fresh
  <2>2. Chain(Entries(queue)) \subseteq chains /\ Chain(InSlot) \subseteq chains
    BY Fresh, PlacesAre DEF Nine
  <2>3. Places[6] \cap Places[1] = {}
    BY DEF Placed, Parts, Nine
  <2> QED
    BY <2>1, <2>2, <2>3, PlacesAre
<1>2. /\ Chain(Entries(Released)) = Chain(InSlot) /\ NoChainTwice(Released)
      /\ \A j \in Entries(Released) : j.kind # "skipped"
  <2>1. CASE held = NoJob
    <3>1. Released = <<>> /\ Entries(Released) = {} /\ Chain(InSlot) = {}
      BY <2>1, SlotPlace, ReleasedEntries, ReleasedType
    <3>2. NoChainTwice(<<>>)
      BY DEF NoChainTwice
    <3> QED
      BY <1>0, <3>1, <3>2
  <2>2. CASE held # NoJob
    <3>1. /\ Entries(Released) = {Released[1]} /\ Released[1].chain = held.chain
          /\ Released[1].kind = "attempt" /\ Released = <<Released[1]>>
      BY <2>2, ReleasedEntries, ReleasedType DEF Sorts
    <3>2. Chain({Released[1]}) = {held.chain}
      BY <3>1, ChainOne
    <3> QED
      BY <2>2, <3>1, <3>2, SlotPlace, TwiceOne
  <2> QED
    BY <2>1, <2>2
<1>3. InSlot' = {} /\ Chain(InSlot') = {} /\ Firing' = Firing /\ Ended' = Ended
  BY <1>0 DEF InSlot, Firing, Ended
<1>4. Prepared'
  BY <1>0, PreparedNext DEF Placed
<1>5. CASE fault = "delay"
  <2>1. Schedule(First(fault), FaultDelay) /\ SubmitAll(Released)
    BY <1>5 DEF SendAll
  <2>2. /\ NoChainTwice(queue')
        /\ stopped => /\ Chain(Entries(queue')) = Chain(Entries(queue))
                      /\ Gone' = Gone \cup Chain(InSlot)
        /\ ~stopped => /\ Chain(Entries(queue')) = Chain(Entries(queue)) \cup Chain(InSlot)
                       /\ Gone' = Gone
    BY <1>0, <1>1, <1>2, <2>1, SubmitPlaces DEF Placed
  <2>3. new = {First(fault).chain} /\ First(fault) \in Jobs /\ First(fault).kind = "attempt"
    BY <1>5, CopiesPlaces, FirstType
  <2>4. First(fault).chain \notin Chain(Timed) /\ \A j \in Timed : j.kind = "attempt"
    <3>1. Chain(Timed) \subseteq chains
      BY Fresh, PlacesAre DEF Nine
    <3> QED
      BY <1>1, <2>3, <3>1 DEF Sorts, ClockJobs
  <2>5. /\ Chain(Timed') = Chain(Timed) \cup new
        /\ \A m, n \in 1 .. Len(timers') : timers'[m].job.chain = timers'[n].job.chain => m = n
    BY <2>1, <2>3, <2>4, OneTimerComes, DeliveryAssumption DEF Placed
  <2>6. \E b \in {1, 9} : Flows(Places, Places', 6, b, Chain(InSlot), 3, new)
    <3>1. CASE stopped
      <4>1. Flows(Places, Places', 6, 9, Chain(InSlot), 3, new)
        BY <1>3, <2>2, <2>5, <3>1, PlacesAre DEF Flows, Nine
      <4> QED
        BY <4>1
    <3>2. CASE ~stopped
      <4>1. Flows(Places, Places', 6, 1, Chain(InSlot), 3, new)
        BY <1>3, <2>2, <2>5, <3>2, PlacesAre DEF Flows, Nine
      <4> QED
        BY <4>1
    <3> QED
      BY <3>1, <3>2
  <2>7. Parts(Places', chains')
    <3>1. 6 \in Nine /\ 3 \in Nine /\ 1 \in Nine /\ 9 \in Nine /\ 6 # 1 /\ 6 # 9
          /\ Parts(Places, chains)
      BY DEF Placed, Nine
    <3>2. PICK b \in {1, 9} : Flows(Places, Places', 6, b, Chain(InSlot), 3, new)
      BY <2>6
    <3>3. b \in Nine /\ 6 # b
      BY <3>1
    <3> QED
      BY <1>0, <1>1, <3>1, <3>2, <3>3, FlowKeeps
  <2>8. Once'
    BY <2>2, <2>5 DEF Placed, Once
  <2> QED
    BY <1>4, <2>7, <2>8 DEF Placed
<1>6. CASE fault # "delay"
  <2> DEFINE jobs == Copies(fault) \o Released
  <2>1. SubmitAll(jobs) /\ timers' = timers
    BY <1>6 DEF SendAll
  <2>2. jobs \in Seq(Jobs) /\ Entries(jobs) = Entries(Copies(fault)) \cup Entries(Released)
        /\ NoChainTwice(jobs)
    BY <1>0, <1>1, <1>2, EntriesConcat, ConcatProperties, TwiceConcat, CopiesPlaces
  <2> HIDE DEF jobs
  <2>3. Chain(Entries(jobs)) = new \cup Chain(InSlot)
    <3>1. Chain(Entries(jobs)) = new \cup Chain(Entries(Released))
      BY <2>2, ChainUnion
    <3> QED
      BY <1>2, <3>1
  <2>4. \A j \in Entries(jobs) : j.kind # "skipped"
    BY <1>2, <2>2, CopiesEntries
  <2>5. /\ NoChainTwice(queue')
        /\ stopped => /\ Chain(Entries(queue')) = Chain(Entries(queue))
                      /\ Gone' = Gone \cup new \cup Chain(InSlot)
        /\ ~stopped => /\ Chain(Entries(queue')) =
                            Chain(Entries(queue)) \cup new \cup Chain(InSlot)
                       /\ Gone' = Gone
    <3>1. Chain(Entries(queue)) \cap Chain(Entries(jobs)) = {}
      BY <1>1, <2>3
    <3> QED
      BY <2>1, <2>2, <2>3, <2>4, <3>1, SubmitPlaces DEF Placed
  <2>6. Timed' = Timed
    BY <2>1 DEF Timed
  <2>7. \E b \in {1, 9} : Flows(Places, Places', 6, b, Chain(InSlot), b, new)
    <3>1. CASE stopped
      <4>1. Flows(Places, Places', 6, 9, Chain(InSlot), 9, new)
        BY <1>3, <2>5, <2>6, <3>1, PlacesAre DEF Flows, Nine
      <4> QED
        BY <4>1
    <3>2. CASE ~stopped
      <4>1. Flows(Places, Places', 6, 1, Chain(InSlot), 1, new)
        BY <1>3, <2>5, <2>6, <3>2, PlacesAre DEF Flows, Nine
      <4> QED
        BY <4>1
    <3> QED
      BY <3>1, <3>2
  <2>8. Parts(Places', chains')
    <3>1. 6 \in Nine /\ 1 \in Nine /\ 9 \in Nine /\ 6 # 1 /\ 6 # 9 /\ Parts(Places, chains)
      BY DEF Placed, Nine
    <3>2. PICK b \in {1, 9} : Flows(Places, Places', 6, b, Chain(InSlot), b, new)
      BY <2>7
    <3>3. b \in Nine /\ 6 # b
      BY <3>1
    <3> QED
      BY <1>0, <1>1, <3>1, <3>2, <3>3, FlowKeeps
  <2>9. Once'
    BY <2>1, <2>5 DEF Placed, Once
  <2> QED
    BY <1>4, <2>8, <2>9 DEF Placed
<1> QED
  BY <1>5, <1>6

LEMMA PlacedStill ==
  ASSUME Types, Placed, Still
  PROVE  Placed'
<1>1. \A i \in Nine : Places'[i] = Places[i]
  <2>1. Timed' = Timed /\ Firing' = Firing /\ Ended' = Ended /\ InSlot' = InSlot /\ Gone' = Gone
    BY FiringKept DEF Still, Timed, Ended, InSlot, Gone
  <2> QED
    BY <2>1, PlacesAre DEF Still, Nine
<1>2. Parts(Places', chains')
  BY <1>1, SameKeeps DEF Placed, Still
<1>3. Once'
  BY DEF Placed, Once, Still
<1>4. Prepared'
  <2>1. CASE UNCHANGED <<emitted, fanout>>
    BY <2>1 DEF Placed, Prepared, Still
  <2>2. CASE emitted' = emitted + 1
    <3>1. chains' = chains /\ emitted \in Nat
      BY DEF Still, Types, RequestTypes
    <3>2. ASSUME NEW chain \in chains PROVE chain.event <= emitted' /\ chain.event # emitted'
      <4>1. chain.event <= emitted /\ chain.event \in Nat
        BY DEF Placed, Prepared, Types, RequestTypes, Chains
      <4> QED
        BY <2>2, <3>1, <4>1
    <3> QED
      BY <3>1, <3>2 DEF Prepared
  <2> QED
    BY <2>1, <2>2 DEF Still
<1> QED
  BY <1>2, <1>3, <1>4 DEF Placed

(* A step that leaves the preparation of chains alone. *)
LEMMA PlacedMove ==
  ASSUME Placed, UNCHANGED <<chains, emitted, fanout>>, Once',
         NEW a \in Nine, NEW b \in Nine, a # b, NEW K, Moves(Places, Places', a, b, K)
  PROVE  Placed'
BY MoveKeeps DEF Placed, Prepared

LEMMA PlacedTakeJob ==
  ASSUME Types, Placed, TakeJob
  PROVE  Placed'
<1> DEFINE h == Head(queue)
           K == IF h.kind = "skipped" THEN {} ELSE {h.chain}
<1>0. queue \in Seq(Jobs) /\ queue # <<>> /\ inHand = NoJob /\ inHand' = h
      /\ queue' = Tail(queue) /\ UNCHANGED <<clock, request, past, log, failures, lost, caller>>
  BY DEF TakeJob, Types, WorkerTypes, records
<1>1. h \in Jobs /\ h \in Entries(queue)
  BY <1>0, EntriesTail
<1>2. K \subseteq Chain(Entries(queue))
  BY <1>1 DEF Chain
<1>3. NoChainTwice(queue') /\ Chain(Entries(queue')) = Chain(Entries(queue)) \ K
  BY <1>0, TwiceTail DEF Placed, Once
<1>4. Chain({inHand} \ {NoJob}) = {} /\ Chain({inHand'} \ {NoJob}) = K
  BY <1>0, <1>1, ChainOfJob, ChainOfNone
<1> HIDE DEF h, K
<1>5. Timed' = Timed /\ Firing' = Firing /\ Ended' = Ended /\ InSlot' = InSlot /\ Gone' = Gone
      /\ UNCHANGED <<popped, failures>>
  BY <1>0, TrailKept DEF Timed, Firing, Ended, InSlot, Gone, clock, request
<1>6. Moves(Places, Places', 1, 2, K)
  BY <1>2, <1>3, <1>4, <1>5, PlacesAre DEF Moves, Nine
<1>7. Once'
  BY <1>0, <1>3 DEF Placed, Once, clock
<1> QED
  BY <1>0, <1>6, <1>7, PlacedMove DEF Nine, request

(* The chain of the job in the worker's hand is nowhere else.              *)
LEMMA HandPlace ==
  ASSUME Types, wpc # "idle"
  PROVE  Chain({inHand} \ {NoJob}) = IF inHand.kind = "skipped" THEN {} ELSE {inHand.chain}
BY HandType, ChainOfJob

LEMMA PlacedEnds ==
  ASSUME Types, Placed, NEW status \in {"delivered", "exhausted", "skipped", "dropped"},
         Ends(status)
  PROVE  Placed'
<1> DEFINE K == IF status = "skipped" THEN {} ELSE {inHand.chain}
<1>0. wpc # "idle" /\ inHand' = NoJob /\ Record(status, 0) /\ past' = past
      /\ (inHand.kind = "skipped" <=> status = "skipped")
      /\ UNCHANGED <<queue, clock, request, failures, lost, caller>>
  BY DEF Ends, FinishJob
<1>1. Chain({inHand} \ {NoJob}) = K /\ Chain({inHand'} \ {NoJob}) = {}
  BY <1>0, HandPlace, ChainOfNone
<1>2. Ended' = Ended \cup K
  <2>1. PICK r \in Records : trail' = Append(trail, r) /\ r.chain = inHand.chain /\ r.status = status
    BY <1>0, TrailGrows DEF Statuses
  <2> QED
    BY <2>1, EndedGrows
<1> HIDE DEF K
<1>3. Timed' = Timed /\ Firing' = Firing /\ InSlot' = InSlot /\ Gone' = Gone
      /\ UNCHANGED <<queue, popped, failures>>
  BY <1>0 DEF Timed, Firing, InSlot, Gone, clock, request
<1>4. Moves(Places, Places', 2, 7, K)
  BY <1>1, <1>2, <1>3, PlacesAre DEF Moves, Nine
<1>5. Once'
  BY <1>0 DEF Placed, Once, clock
<1> QED
  BY <1>0, <1>4, <1>5, PlacedMove DEF Nine, request

LEMMA PlacedRecordFailed ==
  ASSUME Types, Placed, RecordFailed
  PROVE  Placed'
<1>0. wpc # "idle" /\ past' = past /\ schedule[inHand.retry + 1] \in Nat
      /\ Record("failed", schedule[inHand.retry + 1])
      /\ UNCHANGED <<queue, inHand, clock, request, failures, lost, caller>>
  BY HandType DEF RecordFailed, Types, AdminTypes
<1>1. Ended' = Ended
  <2>1. PICK r \in Records : trail' = Append(trail, r) /\ r.status = "failed"
    BY <1>0, TrailGrows DEF Statuses
  <2> QED
    BY <2>1, EndedGrows
<1>2. \A i \in Nine : Places'[i] = Places[i]
  <2>1. Timed' = Timed /\ Firing' = Firing /\ InSlot' = InSlot /\ Gone' = Gone
        /\ UNCHANGED <<queue, popped, failures, inHand>>
    BY <1>0 DEF Timed, Firing, InSlot, Gone, clock, request
  <2> QED
    BY <1>1, <2>1, PlacesAre DEF Nine
<1>3. Parts(Places', chains')
  BY <1>0, <1>2, SameKeeps DEF Placed, request
<1> QED
  BY <1>0, <1>3 DEF Placed, Once, Prepared, clock, request

LEMMA PlacedRaises ==
  ASSUME Types, Placed, Raises
  PROVE  Placed'
<1> DEFINE K == {inHand.chain}
<1>0. wpc # "idle" /\ inHand.kind = "attempt" /\ inHand' = NoJob /\ failures' = failures \cup K
      /\ UNCHANGED <<queue, clock, request, log, past, lost, caller>>
  BY DEF Raises, JobRaises, FinishJob
<1>1. Chain({inHand} \ {NoJob}) = K /\ Chain({inHand'} \ {NoJob}) = {}
  BY <1>0, HandPlace, ChainOfNone
<1> HIDE DEF K
<1>3. Timed' = Timed /\ Firing' = Firing /\ Ended' = Ended /\ InSlot' = InSlot /\ Gone' = Gone
      /\ UNCHANGED <<queue, popped>>
  BY <1>0, TrailKept DEF Timed, Firing, Ended, InSlot, Gone, clock, request
<1>4. Moves(Places, Places', 2, 8, K)
  BY <1>0, <1>1, <1>3, PlacesAre DEF Moves, Nine
<1>5. Once'
  BY <1>0 DEF Placed, Once, clock
<1> QED
  BY <1>0, <1>4, <1>5, PlacedMove DEF Nine, request

LEMMA PlacedScheduleRetry ==
  ASSUME Types, Sorts, Placed, ScheduleRetry
  PROVE  Placed'
<1> DEFINE K == {inHand.chain}
<1>0. wpc # "idle" /\ inHand.kind = "attempt" /\ inHand \in Jobs /\ inHand' = NoJob
      /\ delay \in Nat /\ Schedule(RetryOf, delay)
      /\ UNCHANGED <<queue, popped, request, log, past, failures, lost, caller>>
  BY HandType DEF ScheduleRetry, FinishJob, Types, WorkerTypes, records
<1>1. Chain({inHand} \ {NoJob}) = K /\ Chain({inHand'} \ {NoJob}) = {}
  BY <1>0, HandPlace, ChainOfNone
<1>2. RetryOf \in Jobs /\ RetryOf.kind = "attempt" /\ RetryOf.chain = inHand.chain
  BY <1>0, RetryOfType
<1>3. RetryOf.chain \notin Chain(Timed)
  <2>1. Places[2] \cap Places[3] = {}
    BY DEF Placed, Parts, Nine
  <2> QED
    BY <1>1, <1>2, <2>1, PlacesAre
<1>4. \A j \in Timed : j.kind = "attempt"
  BY DEF Sorts, ClockJobs
<1>5. /\ Chain(Timed') = Chain(Timed) \cup {RetryOf.chain}
      /\ \A m, n \in 1 .. Len(timers') : timers'[m].job.chain = timers'[n].job.chain => m = n
  BY <1>0, <1>2, <1>3, <1>4, OneTimerComes DEF Placed
<1>6. Chain(Timed') = Chain(Timed) \cup K
  BY <1>2, <1>5
<1> HIDE DEF K
<1>7. Firing' = Firing /\ Ended' = Ended /\ InSlot' = InSlot /\ Gone' = Gone
      /\ UNCHANGED <<queue, popped, failures>>
  BY <1>0, TrailKept DEF Firing, Ended, InSlot, Gone, request
<1>8. Moves(Places, Places', 2, 3, K)
  BY <1>1, <1>6, <1>7, PlacesAre DEF Moves, Nine
<1>9. Once'
  BY <1>0, <1>5 DEF Placed, Once
<1> QED
  BY <1>0, <1>8, <1>9, PlacedMove DEF Nine, request

LEMMA PlacedTimerPop ==
  ASSUME Types, Sorts, Placed, NEW i \in 1 .. Len(timers), TimerPop(i)
  PROVE  Placed'
<1> DEFINE j == timers[i].job
           K == {j.chain}
<1>0. /\ popped' = popped \cup {j} /\ timers' = RemoveAt(timers, i)
      /\ UNCHANGED <<queue, inHand, request, log, past, failures, lost, caller>>
  BY DEF TimerPop, worker, records
<1>1. /\ j \in Timed /\ j \in Jobs /\ j.kind = "attempt"
      /\ K \subseteq Chain(Timed) /\ Chain(Timed') = Chain(Timed) \ K
      /\ \A m, n \in 1 .. Len(timers') : timers'[m].job.chain = timers'[n].job.chain => m = n
  BY <1>0, OneTimerLeaves DEF Placed
<1>2. Chain(popped') = Chain(popped) \cup K
  <2>1. Chain(popped') = Chain(popped) \cup Chain({j})
    BY <1>0, ChainUnion
  <2>2. Chain({j}) = K
    BY <1>1, ChainOne
  <2> QED
    BY <2>1, <2>2
<1>3. \A k \in popped : k.chain # j.chain
  <2>1. Places[3] \cap Places[4] = {}
    BY DEF Placed, Parts, Nine
  <2>2. \A k \in popped : k.chain \in Chain(popped)
    BY DEF Chain, Sorts, ClockJobs
  <2> QED
    BY <1>1, <2>1, <2>2, PlacesAre
<1> HIDE DEF j, K
<1>4. Firing' = Firing /\ Ended' = Ended /\ InSlot' = InSlot /\ Gone' = Gone
      /\ UNCHANGED <<queue, inHand, failures>>
  BY <1>0, TrailKept DEF Firing, Ended, InSlot, Gone, request
<1>5. Moves(Places, Places', 3, 4, K)
  BY <1>1, <1>2, <1>4, PlacesAre DEF Moves, Nine
<1>6. Once'
  BY <1>0, <1>1, <1>3 DEF Placed, Once
<1> QED
  BY <1>0, <1>5, <1>6, PlacedMove DEF Nine, request

(* A callback submits its job: to the queue, or to nobody after stop().    *)
LEMMA PlacedSubmit ==
  ASSUME Types, Placed, NEW job \in Jobs, job.kind = "attempt", SubmitAll(<<job>>),
         NEW a \in {4, 5}, {job.chain} \subseteq Places[a], Places'[a] = Places[a] \ {job.chain},
         \A i \in {2, 3, 4, 5, 6, 7, 8} \ {a} : Places'[i] = Places[i],
         UNCHANGED <<chains, emitted, fanout>>,
         NoChainTwice(queue') => Once'
  PROVE  Placed'
<1>0. a \in Nine /\ 1 \in Nine /\ 9 \in Nine /\ a # 1 /\ a # 9
  BY DEF Nine
<1>1. job.chain \notin Chain(Entries(queue))
  <2>1. Places[1] \cap Places[a] = {}
    BY <1>0 DEF Placed, Parts
  <2> QED
    BY <2>1, PlacesAre
<1>2. /\ NoChainTwice(queue')
      /\ stopped => Chain(Entries(queue')) = Chain(Entries(queue)) /\ Gone' = Gone \cup {job.chain}
      /\ ~stopped => Chain(Entries(queue')) = Chain(Entries(queue)) \cup {job.chain} /\ Gone' = Gone
  BY <1>1, SubmitOne DEF Placed
<1>3. CASE stopped
  <2>1. Places'[1] = Places[1] /\ Places'[9] = Places[9] \cup {job.chain}
    BY <1>2, <1>3, PlacesAre
  <2>2. Moves(Places, Places', a, 9, {job.chain})
    BY <2>1 DEF Moves, Nine
  <2> QED
    BY <1>0, <1>2, <2>2, PlacedMove
<1>4. CASE ~stopped
  <2>1. Places'[1] = Places[1] \cup {job.chain} /\ Places'[9] = Places[9]
    BY <1>2, <1>4, PlacesAre
  <2>2. Moves(Places, Places', a, 1, {job.chain})
    BY <2>1 DEF Moves, Nine
  <2> QED
    BY <1>0, <1>2, <2>2, PlacedMove
<1> QED
  BY <1>3, <1>4

LEMMA PlacedTimerFire ==
  ASSUME Types, Sorts, Placed, NEW job \in popped, TimerFire(job)
  PROVE  Placed'
<1>0. /\ job \in Jobs /\ job.kind = "attempt" /\ popped' = popped \ {job} /\ SubmitAll(<<job>>)
      /\ UNCHANGED <<inHand, timers, request, log, past, failures, caller>>
  BY DEF TimerFire, worker, records, Types, ClockTypes, Sorts, ClockJobs
<1>1. {job.chain} \subseteq Chain(popped) /\ Chain(popped') = Chain(popped) \ {job.chain}
  <2>1. \A k \in popped : k.kind = "attempt"
    BY DEF Sorts, ClockJobs
  <2>2. \A k \in popped : k.chain = job.chain => k = job
    BY DEF Placed, Once
  <2> QED
    BY <1>0, <2>1, <2>2 DEF Chain
<1>2. Timed' = Timed /\ Firing' = Firing /\ Ended' = Ended /\ InSlot' = InSlot
      /\ UNCHANGED <<inHand, failures>>
  BY <1>0, TrailKept DEF Timed, Firing, Ended, InSlot, request
<1>3. \A i \in {2, 3, 4, 5, 6, 7, 8} \ {4} : Places'[i] = Places[i]
  BY <1>2, PlacesAre
<1>4. NoChainTwice(queue') => Once'
  BY <1>0 DEF Placed, Once
<1>5. {job.chain} \subseteq Places[4] /\ Places'[4] = Places[4] \ {job.chain}
  BY <1>1, PlacesAre
<1>6. UNCHANGED <<chains, emitted, fanout>>
  BY <1>0 DEF request
<1> QED
  BY <1>0, <1>3, <1>4, <1>5, <1>6, PlacedSubmit

(* The jobs in the hands of the advancing threads, one each.               *)
LEMMA HandOf ==
  ASSUME Types, Sorts, NEW c \in Callers, caller[c].hand # NoJob
  PROVE  /\ caller[c].hand \in Firing /\ caller[c].hand.kind = "attempt"
         /\ caller[c].hand.chain \in Chain(Firing)
BY DEF Firing, Sorts, ClockJobs, Chain

LEMMA PlacedFires ==
  ASSUME Types, Sorts, Placed, NEW c \in Callers, Fires(c)
  PROVE  Placed'
<1> DEFINE j == caller[c].hand
<1>0. /\ j \in Jobs /\ j # NoJob /\ SubmitAll(<<j>>) /\ caller'[c].hand = NoJob
      /\ \A d \in Callers \ {c} : caller'[d] = caller[d]
      /\ UNCHANGED <<inHand, timers, popped, request, log, past, failures>>
  BY JobType DEF Fires, Steps, worker, records
<1>1. j \in Firing /\ j.kind = "attempt" /\ j.chain \in Chain(Firing)
  BY <1>0, HandOf
<1>2. Firing' = {caller[d].hand : d \in Callers \ {c}} \ {NoJob}
      /\ Firing = {j} \cup Firing'
  BY <1>0 DEF Firing
<1>3. \A k \in Firing' : k.chain # j.chain
  BY <1>0, <1>2 DEF Placed, Once
<1>4. Chain(Firing') = Chain(Firing) \ {j.chain}
  BY <1>1, <1>2, <1>3 DEF Chain
<1> HIDE DEF j
<1>5. Timed' = Timed /\ Ended' = Ended /\ InSlot' = InSlot /\ UNCHANGED <<inHand, popped, failures>>
  BY <1>0, TrailKept DEF Timed, Ended, InSlot, request
<1>6. \A i \in {2, 3, 4, 5, 6, 7, 8} \ {5} : Places'[i] = Places[i]
  BY <1>5, PlacesAre
<1>7. NoChainTwice(queue') => Once'
  BY <1>0 DEF Placed, Once
<1>8. {j.chain} \subseteq Places[5] /\ Places'[5] = Places[5] \ {j.chain}
  BY <1>1, <1>4, PlacesAre
<1>9. UNCHANGED <<chains, emitted, fanout>>
  BY <1>0 DEF request
<1> QED
  BY <1>0, <1>1, <1>6, <1>7, <1>8, <1>9, PlacedSubmit

LEMMA PlacedScans ==
  ASSUME Types, Sorts, Placed, NEW c \in Callers, NEW i \in 1 .. Len(timers), Scans(c, i)
  PROVE  Placed'
<1> DEFINE j == timers[i].job
           K == {j.chain}
<1>0. /\ timers' = RemoveAt(timers, i) /\ caller[c].hand = NoJob /\ caller'[c].hand = j
      /\ \A d \in Callers \ {c} : caller'[d] = caller[d]
      /\ UNCHANGED <<queue, inHand, popped, request, log, past, failures, lost>>
  BY DEF Scans, Steps, worker, records
<1>1. /\ j \in Timed /\ j \in Jobs /\ j.kind = "attempt" /\ j # NoJob
      /\ K \subseteq Chain(Timed) /\ Chain(Timed') = Chain(Timed) \ K
      /\ \A m, n \in 1 .. Len(timers') : timers'[m].job.chain = timers'[n].job.chain => m = n
  BY <1>0, OneTimerLeaves, JobType DEF Placed
<1>2. Firing' = Firing \cup {j}
  BY <1>0, <1>1 DEF Firing
<1>3. Chain(Firing') = Chain(Firing) \cup K
  <2>1. Chain(Firing') = Chain(Firing) \cup Chain({j})
    BY <1>2, ChainUnion
  <2>2. Chain({j}) = K
    BY <1>1, ChainOne
  <2> QED
    BY <2>1, <2>2
<1>4. \A d \in Callers : caller[d].hand # NoJob => caller[d].hand.chain # j.chain
  <2>1. Places[3] \cap Places[5] = {}
    BY DEF Placed, Parts, Nine
  <2> QED
    BY <1>1, <2>1, HandOf, PlacesAre
<1> HIDE DEF j, K
<1>5. Ended' = Ended /\ InSlot' = InSlot /\ Gone' = Gone
      /\ UNCHANGED <<queue, inHand, popped, failures>>
  BY <1>0, TrailKept DEF Ended, InSlot, Gone, request
<1>6. Moves(Places, Places', 3, 5, K)
  BY <1>1, <1>3, <1>5, PlacesAre DEF Moves, Nine
<1>7. Once'
  BY <1>0, <1>1, <1>4 DEF Placed, Once
<1> QED
  BY <1>0, <1>6, <1>7, PlacedMove DEF Nine, request

LEMMA PlacedCancels ==
  ASSUME Types, Sorts, Placed, NEW c \in Callers, NEW i \in 1 .. Len(timers), Cancels(c, i)
  PROVE  Placed'
<1> DEFINE j == timers[i].job
           K == {j.chain}
<1>0. /\ timers' = RemoveAt(timers, i) /\ Lose({j}, "cleared")
      /\ UNCHANGED <<queue, inHand, popped, request, log, past, failures, caller>>
  BY DEF Cancels, worker, records
<1>1. /\ j \in Jobs
      /\ K \subseteq Chain(Timed) /\ Chain(Timed') = Chain(Timed) \ K
      /\ \A m, n \in 1 .. Len(timers') : timers'[m].job.chain = timers'[n].job.chain => m = n
  BY <1>0, OneTimerLeaves DEF Placed
<1>2. Gone' = Gone \cup K
  <2>1. lost' = lost \cup {[chain |-> k.chain, why |-> "cleared"] : k \in {j}}
    BY <1>0 DEF Lose
  <2>2. Gone' = Gone \cup {k.chain : k \in {j}}
    BY <2>1, GoneGrows
  <2> QED
    BY <2>2
<1> HIDE DEF j, K
<1>3. Firing' = Firing /\ Ended' = Ended /\ InSlot' = InSlot
      /\ UNCHANGED <<queue, inHand, popped, failures>>
  BY <1>0, TrailKept DEF Firing, Ended, InSlot, request
<1>4. Moves(Places, Places', 3, 9, K)
  BY <1>1, <1>2, <1>3, PlacesAre DEF Moves, Nine
<1>5. Once'
  BY <1>0, <1>1 DEF Placed, Once
<1> QED
  BY <1>0, <1>4, <1>5, PlacedMove DEF Nine, request

LEMMA PlacedInit == Init => Placed /\ Sorts
<1> SUFFICES ASSUME Init PROVE Placed /\ Sorts
  OBVIOUS
<1>0. /\ queue = <<>> /\ inHand = NoJob /\ timers = <<>> /\ popped = {} /\ held = NoJob
      /\ chains = {} /\ log = <<>> /\ past = <<>> /\ failures = {} /\ lost = {}
      /\ \A c \in Callers : caller[c].hand = NoJob
  BY DEF Init, AtRest, Thread
<1>1. Entries(queue) = {} /\ Timed = {} /\ Firing = {} /\ InSlot = {} /\ Ended = {} /\ Gone = {}
  <2>1. Entries(<<>>) = {} /\ trail = <<>>
    BY <1>0 DEF Entries, trail
  <2> QED
    BY <1>0, <2>1 DEF Timed, Firing, InSlot, Ended, Gone
<1>2. \A i \in Nine : Places[i] = {}
  <2>1. Chain({}) = {} /\ Chain({inHand} \ {NoJob}) = {}
    BY <1>0, ChainOfNone
  <2>2. /\ Chain(Entries(queue)) = {} /\ Chain(Timed) = {} /\ Chain(popped) = {}
        /\ Chain(Firing) = {} /\ Chain(InSlot) = {}
    BY <1>0, <1>1, <2>1
  <2> QED
    BY <1>0, <1>1, <2>1, <2>2, PlacesAre DEF Nine
<1>3. Parts(Places, chains)
  BY <1>0, <1>2 DEF Parts
<1>4. Once /\ Prepared /\ Sorts
  BY <1>0, <1>1 DEF Once, NoChainTwice, Prepared, Sorts, ClockJobs
<1> QED
  BY <1>3, <1>4 DEF Placed

LEMMA PlacedStep == Types /\ Hands /\ Sorts /\ Placed /\ [Next]_vars => Placed'
<1> SUFFICES ASSUME Types, Hands, Sorts, Placed, Kinds PROVE Placed'
  BY StepKinds
<1>1. ASSUME NEW fault \in Faults, QueueNext(fault) PROVE Placed'
  <2>1. fanout # {} /\ fanout' \subseteq fanout \ {Foremost} /\ trail' = trail
        /\ UNCHANGED <<inHand, popped, failures, caller, emitted>>
    BY <1>1, TrailKept DEF QueueNext, worker, records
  <2> QED
    BY <1>1, <2>1, PlacedHold, PlacedDrop, PlacedSendAll DEF QueueNext
<1> QED
  BY <1>1, PlacedStill, PlacedTakeJob, PlacedEnds, PlacedRecordFailed, PlacedRaises,
     PlacedScheduleRetry, PlacedTimerPop, PlacedTimerFire, PlacedFires, PlacedScans, PlacedCancels
     DEF Kinds

Inv == Types /\ Hands /\ Sorts /\ Placed

LEMMA InvHolds == Spec => []Inv
<1>1. Init => Inv
  BY TypesInit, PlacedInit DEF Inv
<1>2. Inv /\ [Next]_vars => Inv'
  BY TypesStep, SortsStep, PlacedStep DEF Inv
<1> QED
  BY <1>1, <1>2, PTL DEF Spec

(* The variables have their types in every state. *)
THEOREM TypesCorrect == Spec => []Types
<1>1. Inv => Types
  BY DEF Inv
<1> QED
  BY <1>1, InvHolds, PTL

(* Every delivery that was prepared is queued, in hand, on the clock, in a  *)
(* callback, in the reorder slot, or at one of its ends, and at one of     *)
(* these only: what dispatcher.py, retry.py and clock.py hand each other   *)
(* is never dropped on the way and never there twice.                      *)
THEOREM EveryChainAccounted == Spec => []Accounted
<1>1. Inv => Accounted
  <2> SUFFICES ASSUME Inv PROVE Accounted
    OBVIOUS
  <2>0. Len(Places) = 9 /\ 1 .. Len(Places) = Nine
    BY PlacesAre DEF Nine
  <2>1. chains = UNION Entries(Places)
    BY <2>0 DEF Inv, Placed, Parts, Entries
  <2>2. \A p, q \in 1 .. Len(Places) : p # q => Places[p] \cap Places[q] = {}
    BY <2>0 DEF Inv, Placed, Parts
  <2>3. NoChainTwice(queue)
        /\ \A c, d \in Callers : c # d /\ caller[c].hand = caller[d].hand => caller[c].hand = NoJob
    BY DEF Inv, Placed, Once
  <2>4. NoChainTwice([i \in 1 .. Len(timers) |-> timers[i].job])
    BY TimedType, LenProperties DEF Inv, Placed, Once, NoChainTwice
  <2> QED
    BY <2>1, <2>2, <2>3, <2>4 DEF Accounted
<1> QED
  BY <1>1, InvHolds, PTL

-----------------------------------------------------------------------------
(* The jobs that wait, for the worker, for their time or in the slot.      *)

Waiting == Entries(queue) \cup ClockJobs \cup InSlot

(* Those that need not wait for their time any more.                       *)
Ready == Entries(queue) \cup popped \cup Firing \cup InSlot

(* A step of another thread, which only moves what waits.                  *)
Moved ==
  /\ Waiting' \subseteq Waiting /\ trail' = trail
  /\ UNCHANGED <<inHand, wpc, delay, chains, failures, emitted, fanout, held>>

LEMMA SubmitWaiting ==
  ASSUME Types, NEW job \in Jobs, SubmitAll(<<job>>)
  PROVE  Entries(queue') \subseteq Entries(queue) \cup {job}
<1>1. <<job>> \in Seq(Jobs) /\ Entries(<<job>>) = {job}
  BY DEF Entries
<1> QED
  BY <1>1, Submitted

LEMMA MovedBy ==
  ASSUME Types, Kinds
  PROVE  \/ Moved
         \/ Still \/ TakeJob \/ RecordFailed \/ Raises \/ ScheduleRetry
         \/ \E fault \in Faults : QueueNext(fault)
         \/ \E status \in {"delivered", "exhausted", "skipped", "dropped"} : Ends(status)
<1>1. ASSUME NEW i \in 1 .. Len(timers), TimerPop(i) PROVE Moved
  <2>1. Timed = Timed' \cup {timers[i].job}
    BY <1>1, TimerRemoved DEF TimerPop
  <2> QED
    BY <1>1, <2>1, TrailKept DEF TimerPop, Moved, Waiting, ClockJobs, Firing, InSlot, worker,
       request, records
<1>2. ASSUME NEW job \in popped, TimerFire(job) PROVE Moved
  <2>1. job \in Jobs
    BY DEF Types, ClockTypes
  <2>2. Entries(queue') \subseteq Entries(queue) \cup {job}
    BY <1>2, <2>1, SubmitWaiting DEF TimerFire
  <2> QED
    BY <1>2, <2>2, TrailKept DEF TimerFire, Moved, Waiting, ClockJobs, Timed, Firing, InSlot,
       worker, request, records
<1>3. ASSUME NEW c \in Callers, Fires(c) PROVE Moved
  <2>1. caller[c].hand \in Jobs /\ caller[c].hand \in Firing
    BY <1>3, JobType DEF Fires, Firing
  <2>2. Entries(queue') \subseteq Entries(queue) \cup {caller[c].hand}
    BY <1>3, <2>1, SubmitWaiting DEF Fires
  <2>3. Firing' \subseteq Firing
    BY <1>3 DEF Fires, Steps, Firing
  <2> QED
    BY <1>3, <2>1, <2>2, <2>3, TrailKept DEF Fires, Moved, Waiting, ClockJobs, Timed, InSlot,
       worker, request, records
<1>4. ASSUME NEW c \in Callers, NEW i \in 1 .. Len(timers), Scans(c, i) PROVE Moved
  <2>1. Timed = Timed' \cup {timers[i].job}
    BY <1>4, TimerRemoved DEF Scans
  <2>2. Firing' \subseteq Firing \cup {timers[i].job}
    BY <1>4 DEF Scans, Steps, Firing
  <2> QED
    BY <1>4, <2>1, <2>2, TrailKept DEF Scans, Moved, Waiting, ClockJobs, InSlot, worker,
       request, records
<1>5. ASSUME NEW c \in Callers, NEW i \in 1 .. Len(timers), Cancels(c, i) PROVE Moved
  <2>1. Timed = Timed' \cup {timers[i].job}
    BY <1>5, TimerRemoved DEF Cancels
  <2> QED
    BY <1>5, <2>1, TrailKept DEF Cancels, Moved, Waiting, ClockJobs, Firing, InSlot, worker,
       request, records
<1> QED
  BY <1>1, <1>2, <1>3, <1>4, <1>5 DEF Kinds

(* What the fan-out adds: the mark of a hold, a delivery nobody has seen,  *)
(* or the delivery in the slot, as it was.                                 *)
Unseen(j) ==
  /\ j \in Jobs /\ j.chain \in chains'
  /\ j.kind = "skipped" \/ (j.retry = 0 /\ j.chain \notin chains)

FromSlot(j) ==
  /\ held # NoJob /\ j \in Jobs
  /\ j.chain = held.chain /\ j.retry = held.retry /\ j.kind = held.kind

LEMMA WaitingNext ==
  ASSUME Types, Sorts, Placed, NEW fault \in Faults, QueueNext(fault)
  PROVE  /\ \A j \in Waiting' : j \in Waiting \/ Unseen(j) \/ FromSlot(j)
         /\ \A j \in Ready' : j \in Ready \/ Unseen(j) \/ FromSlot(j)
         /\ \/ timers' = timers
            \/ \E t \in Timers : timers' = Append(timers, t) /\ Unseen(t.job)
         /\ chains \subseteq chains' /\ trail' = trail /\ UNCHANGED <<inHand, wpc, now, delay, popped>>
<1> DEFINE f == First(fault)
<1>0. /\ fanout # {} /\ queue \in Seq(Jobs) /\ f \in Jobs /\ f.retry = 0
      /\ f.chain.event = emitted /\ f.chain.sub = Foremost
      /\ UNCHANGED <<inHand, wpc, now, delay, popped>> /\ Firing' = Firing /\ trail' = trail
  BY FirstType, TrailKept DEF QueueNext, worker, records, Types, WorkerTypes, Firing
<1>1. f.chain \notin chains
  BY <1>0, Fresh
<1> HIDE DEF f
<1>2. CASE Hold(fault)
  <2> DEFINE s == [f EXCEPT !.kind = "skipped"]
  <2>1. s \in Jobs /\ s.kind = "skipped" /\ s.chain = f.chain
    BY <1>0 DEF Jobs
  <2>2. held' = f /\ timers' = timers /\ (queue' = queue \/ queue' = Append(queue, s))
        /\ chains' = chains \cup {f.chain}
    BY <1>2 DEF Hold, f
  <2> HIDE DEF s
  <2>3. Unseen(s) /\ Unseen(f)
    BY <1>0, <1>1, <2>1, <2>2 DEF Unseen
  <2>4. Entries(queue') \subseteq Entries(queue) \cup {s}
    BY <1>0, <2>2, EntriesAppend
  <2>5. InSlot' \subseteq {f}
    BY <2>2 DEF InSlot
  <2> QED
    BY <1>0, <2>2, <2>3, <2>4, <2>5 DEF Waiting, Ready, ClockJobs, Timed
<1>3. CASE Drop(fault)
  <2> DEFINE d == [f EXCEPT !.kind = "dropped"]
  <2>1. d \in Jobs /\ d.chain = f.chain /\ d.retry = 0
    BY <1>0 DEF Jobs
  <2>2. SubmitAll(<<d>>) /\ UNCHANGED <<held, timers>> /\ chains' = chains \cup {f.chain}
    BY <1>3 DEF Drop, f
  <2> HIDE DEF d
  <2>3. Unseen(d)
    BY <1>0, <1>1, <2>1, <2>2 DEF Unseen
  <2>4. Entries(queue') \subseteq Entries(queue) \cup {d}
    BY <2>1, <2>2, SubmitWaiting
  <2> QED
    BY <1>0, <2>2, <2>3, <2>4 DEF Waiting, Ready, ClockJobs, Timed, InSlot
<1>4. CASE SendAll(fault)
  <2>1. Copies(fault) \in Seq(Jobs) /\ Released \in Seq(Jobs)
        /\ Copies(fault) \o Released \in Seq(Jobs)
    BY <1>0, CopiesType, ReleasedType, ConcatProperties
  <2>2. chains' = chains \cup {j.chain : j \in Entries(Copies(fault))}
        /\ held' = NoJob
    BY <1>4 DEF SendAll, ClearSlot
  <2>3. \A j \in Entries(Copies(fault)) : Unseen(j)
    BY <1>0, <2>2, CopiesEntries, Fresh DEF Unseen
  <2>4. \A j \in Entries(Released) : FromSlot(j)
    BY ReleasedEntries DEF FromSlot
  <2>5. fault = "delay" => Unseen(f)
    BY <1>0, <1>1, <2>2, CopiesPlaces DEF f, Unseen
  <2>6. Entries(Copies(fault) \o Released) = Entries(Copies(fault)) \cup Entries(Released)
    BY <2>1, EntriesConcat
  <2>7. Entries(queue') \subseteq Entries(queue) \cup Entries(Copies(fault)) \cup Entries(Released)
    BY <1>4, <2>1, <2>6, Submitted DEF SendAll
  <2>8. InSlot' = {}
    BY <2>2 DEF InSlot
  <2>9. \/ timers' = timers
        \/ fault = "delay" /\ Schedule(f, FaultDelay)
    BY <1>4 DEF SendAll, f
  <2>10. Timed' = Timed \/ (fault = "delay" /\ Timed' = Timed \cup {f})
    BY <1>0, <2>9, TimerAdded, DeliveryAssumption DEF Timed
  <2>11. ASSUME fault = "delay", Schedule(f, FaultDelay)
         PROVE  \E t \in Timers : timers' = Append(timers, t) /\ Unseen(t.job)
    <3> DEFINE t == [due |-> now + FaultDelay, job |-> f]
    <3>1. t \in Timers /\ t.job = f /\ timers' = Append(timers, t)
      BY <1>0, <2>11, DeliveryAssumption DEF Timers, Schedule, Types, ClockTypes
    <3> HIDE DEF t
    <3> QED
      BY <2>5, <2>11, <3>1
  <2>12. \A j \in Waiting' : j \in Waiting \/ Unseen(j) \/ FromSlot(j)
    BY <1>0, <2>3, <2>4, <2>5, <2>7, <2>8, <2>10 DEF Waiting, ClockJobs
  <2>13. \A j \in Ready' : j \in Ready \/ Unseen(j) \/ FromSlot(j)
    BY <1>0, <2>3, <2>4, <2>7, <2>8 DEF Ready
  <2> QED
    BY <1>0, <2>2, <2>9, <2>11, <2>12, <2>13
<1> QED
  BY <1>2, <1>3, <1>4 DEF QueueNext

LEMMA WaitingTake ==
  ASSUME Types, TakeJob
  PROVE  /\ Waiting' \subseteq Waiting /\ inHand' \in Waiting /\ inHand' \in Jobs
         /\ inHand' = Head(queue)
         /\ trail' = trail /\ wpc' = "started"
         /\ UNCHANGED <<clock, request, failures, chains, now>>
<1>1. queue \in Seq(Jobs) /\ queue # <<>> /\ inHand' = Head(queue) /\ queue' = Tail(queue)
      /\ UNCHANGED <<clock, request, past, log, failures, caller>> /\ wpc' = "started"
  BY DEF TakeJob, Types, WorkerTypes, records
<1>2. Entries(queue) = {Head(queue)} \cup Entries(Tail(queue)) /\ Head(queue) \in Jobs
  BY <1>1, EntriesTail
<1> QED
  BY <1>1, <1>2, TrailKept DEF Waiting, ClockJobs, Timed, Firing, InSlot, clock, request

(* What the records of a delivery are, from its chain.                     *)

LEMMA TriedIs ==
  ASSUME Types, NEW chain
  PROVE  /\ IsFiniteSet(Tried(chain)) /\ Cardinality(Tried(chain)) \in Nat
         /\ Tried(chain) \subseteq 1 .. Len(trail) /\ Len(trail) \in Nat
<1>1. Len(trail) \in Nat
  BY TrailType, LenProperties
<1>2. IsFiniteSet(1 .. Len(trail))
  BY <1>1, FS_Interval
<1>3. Tried(chain) \subseteq 1 .. Len(trail)
  BY DEF Tried
<1> QED
  BY <1>1, <1>2, <1>3, FS_Subset, FS_CardinalityType

LEMMA TrailAppend ==
  ASSUME Types, NEW r \in Records, trail' = Append(trail, r)
  PROVE  /\ Len(trail') = Len(trail) + 1 /\ Len(trail) \in Nat
         /\ \A k \in 1 .. Len(trail) : trail'[k] = trail[k]
         /\ trail'[Len(trail) + 1] = r
BY TrailType, LenProperties

LEMMA TriedGrows ==
  ASSUME Types, NEW r \in Records, trail' = Append(trail, r), NEW chain
  PROVE  /\ Tried(chain)' = Tried(chain) \cup
              (IF r.chain = chain /\ r.status # "skipped" THEN {Len(trail) + 1} ELSE {})
         /\ r.chain = chain /\ r.status # "skipped" =>
              Cardinality(Tried(chain)') = Cardinality(Tried(chain)) + 1
<1>0. /\ Len(trail') = Len(trail) + 1 /\ Len(trail) \in Nat
      /\ \A k \in 1 .. Len(trail) : trail'[k] = trail[k]
      /\ trail'[Len(trail) + 1] = r
  BY TrailAppend
<1>1. Tried(chain)' = Tried(chain) \cup
        (IF r.chain = chain /\ r.status # "skipped" THEN {Len(trail) + 1} ELSE {})
  BY <1>0 DEF Tried
<1>2. ASSUME r.chain = chain, r.status # "skipped"
      PROVE  Cardinality(Tried(chain)') = Cardinality(Tried(chain)) + 1
  <2>1. Tried(chain)' = Tried(chain) \cup {Len(trail) + 1}
    BY <1>1, <1>2
  <2>2. Len(trail) + 1 \notin Tried(chain)
    BY <1>0 DEF Tried
  <2> QED
    BY <2>1, <2>2, TriedIs, FS_AddElement
<1> QED
  BY <1>1, <1>2

(* A delivery that still goes on has only failed so far.                   *)
LEMMA OnlyFailed ==
  ASSUME Types, NEW chain, chain \notin Ended
  PROVE  \A k \in Tried(chain) : trail[k].status = "failed"
<1> SUFFICES ASSUME NEW k \in Tried(chain) PROVE trail[k].status = "failed"
  OBVIOUS
<1>1. k \in 1 .. Len(trail) /\ trail[k].chain = chain /\ trail[k].status # "skipped"
  BY DEF Tried
<1>2. trail[k] \in Records /\ trail[k] \in Entries(trail)
  BY <1>1, TrailType DEF Entries
<1>3. trail[k].status \in Statuses
  BY <1>2 DEF Records
<1>4. trail[k].status \notin {"delivered", "exhausted", "dropped"}
  BY <1>1, <1>2 DEF Ended
<1> QED
  BY <1>1, <1>3, <1>4 DEF Statuses

(* The delivery the worker has in hand does not wait anywhere, and has not *)
(* ended.                                                                  *)
LEMMA HandAlone ==
  ASSUME Types, Placed, wpc # "idle", inHand.kind # "skipped"
  PROVE  /\ \A j \in Waiting : j.kind # "skipped" => j.chain # inHand.chain
         /\ inHand.chain \notin Ended /\ inHand.chain \in chains
<1>1. Chain({inHand} \ {NoJob}) = {inHand.chain}
  BY HandPlace
<1>2. \A i \in Nine \ {2} : inHand.chain \notin Places[i]
  <2>1. \A i \in Nine \ {2} : Places[2] \cap Places[i] = {}
    BY DEF Placed, Parts, Nine
  <2> QED
    BY <1>1, <2>1, PlacesAre
<1>3. /\ inHand.chain \notin Chain(Entries(queue)) /\ inHand.chain \notin Chain(Timed)
      /\ inHand.chain \notin Chain(popped) /\ inHand.chain \notin Chain(Firing)
      /\ inHand.chain \notin Chain(InSlot) /\ inHand.chain \notin Ended
  BY <1>2, PlacesAre DEF Nine
<1>4. inHand.chain \in chains
  <2>1. 2 \in Nine /\ inHand.chain \in Places[2]
    BY <1>1, PlacesAre DEF Nine
  <2> QED
    BY <2>1 DEF Placed, Parts
<1> QED
  BY <1>3, <1>4 DEF Waiting, ClockJobs, Chain

Counted ==
  /\ \A k \in 1 .. Len(trail) : trail[k].status # "skipped" => trail[k].chain \in chains
  /\ \A j \in Waiting : j.kind # "skipped" => Cardinality(Tried(j.chain)) = j.retry
  /\ wpc # "idle" /\ inHand.kind # "skipped" =>
       Cardinality(Tried(inHand.chain)) = inHand.retry + (IF wpc = "scheduling" THEN 1 ELSE 0)
  /\ AttemptsContiguous

LEMMA SameTrail ==
  ASSUME trail' = trail
  PROVE  /\ \A chain : Tried(chain)' = Tried(chain)
         /\ AttemptsContiguous => AttemptsContiguous'
BY DEF Tried, AttemptsContiguous, Earlier, SameDelivery

LEMMA Untried ==
  ASSUME Counted, NEW chain, chain \notin chains
  PROVE  Cardinality(Tried(chain)) = 0
<1>1. Tried(chain) = {}
  BY DEF Counted, Tried
<1> QED
  BY <1>1, FS_EmptySet

LEMMA ContiguousGrows ==
  ASSUME Types, AttemptsContiguous, NEW r \in Records, trail' = Append(trail, r),
         r.status # "skipped" =>
           r.attempt = Cardinality(Tried(r.chain)) + 1 /\ r.chain \notin Ended
  PROVE  AttemptsContiguous'
<1>0. /\ Len(trail') = Len(trail) + 1 /\ Len(trail) \in Nat
      /\ \A k \in 1 .. Len(trail) : trail'[k] = trail[k]
      /\ trail'[Len(trail) + 1] = r
  BY TrailAppend
<1>1. ASSUME NEW i \in 1 .. Len(trail) PROVE Earlier(i)' = Earlier(i)
  BY <1>0 DEF Earlier, SameDelivery
<1>2. ASSUME NEW n \in Nat, n = Len(trail) + 1 PROVE Earlier(n)' = Tried(r.chain)
  <2>1. Earlier(n)' = {k \in 1 .. n - 1 : r.chain = trail'[k].chain /\ trail'[k].status # "skipped"}
    BY <1>0, <1>2 DEF Earlier, SameDelivery
  <2>2. n - 1 = Len(trail)
    <3>1. Len(trail) \in Nat
      BY <1>0
    <3>2. ASSUME NEW m \in Nat, n = m + 1 PROVE n - 1 = m
      BY <3>2
    <3> QED
      BY <1>2, <3>1, <3>2
  <2> QED
    BY <1>0, <2>1, <2>2 DEF Tried
<1> SUFFICES ASSUME NEW i \in 1 .. Len(trail'), trail'[i].status # "skipped"
             PROVE  /\ trail'[i].attempt = Cardinality(Earlier(i)') + 1
                    /\ \A k \in Earlier(i)' : trail'[k].status = "failed"
  BY DEF AttemptsContiguous
<1>5. i \in 1 .. Len(trail) \/ i = Len(trail) + 1
  BY <1>0
<1>3. CASE i \in 1 .. Len(trail)
  <2>1. \A k \in Earlier(i) : k \in 1 .. Len(trail)
    BY <1>0, <1>3 DEF Earlier
  <2> QED
    BY <1>0, <1>1, <1>3, <2>1 DEF AttemptsContiguous
<1>4. CASE i = Len(trail) + 1
  <2>1. \A k \in Tried(r.chain) : k \in 1 .. Len(trail)
    BY DEF Tried
  <2>2. trail'[i] = r /\ Earlier(i)' = Tried(r.chain)
    <3>1. i \in Nat /\ trail'[i] = r
      BY <1>0, <1>4
    <3> QED
      BY <1>2, <1>4, <3>1
  <2>3. r.status # "skipped"
    BY <2>2
  <2>4. \A k \in Tried(r.chain) : trail[k].status = "failed"
    BY <2>3, OnlyFailed
  <2> QED
    BY <1>0, <2>1, <2>2, <2>3, <2>4
<1> QED
  BY <1>3, <1>4, <1>5

LEMMA CountedStep == Inv /\ Counted /\ [Next]_vars => Counted'
<1> SUFFICES ASSUME Types, Hands, Sorts, Placed, Counted, Kinds PROVE Counted'
  BY StepKinds DEF Inv
<1>1. CASE Still
  <2>1. Waiting' = Waiting
    BY <1>1, FiringKept DEF Still, Waiting, ClockJobs, Timed, InSlot
  <2> QED
    BY <1>1, <2>1, SameTrail DEF Still, Counted
<1>2. CASE Moved
  BY <1>2, SameTrail DEF Moved, Counted
<1>3. CASE TakeJob
  <2>1. /\ Waiting' \subseteq Waiting /\ inHand' \in Waiting /\ trail' = trail
        /\ wpc' = "started" /\ chains' = chains
    BY <1>3, WaitingTake
  <2>2. \A chain : Tried(chain)' = Tried(chain)
    BY <2>1, SameTrail
  <2>3. ASSUME inHand'.kind # "skipped"
        PROVE  Cardinality(Tried(inHand'.chain)) = inHand'.retry
    BY <2>1, <2>3 DEF Counted
  <2>4. ASSUME inHand'.kind # "skipped"
        PROVE  inHand'.retry + 0 = inHand'.retry
    BY <1>3, WaitingTake, JobType
  <2> QED
    BY <2>1, <2>2, <2>3, <2>4, SameTrail DEF Counted
<1>4. ASSUME NEW status \in {"delivered", "exhausted", "skipped", "dropped"}, Ends(status)
      PROVE  Counted'
  <2>1. /\ wpc # "idle" /\ wpc # "scheduling" /\ wpc' = "idle" /\ Record(status, 0)
        /\ past' = past /\ (inHand.kind = "skipped" <=> status = "skipped")
        /\ chains' = chains /\ Waiting' = Waiting
    BY <1>4 DEF Ends, FinishJob, Waiting, ClockJobs, Timed, Firing, InSlot, clock, request
  <2>2. PICK r \in Records : /\ trail' = Append(trail, r) /\ r.chain = inHand.chain
                             /\ r.status = status /\ r.attempt = inHand.retry + 1
    BY <2>1, TrailGrows DEF Statuses
  <2>3. AttemptsContiguous'
    <3>1. ASSUME status # "skipped"
          PROVE  r.attempt = Cardinality(Tried(r.chain)) + 1 /\ r.chain \notin Ended
      <4>1. Cardinality(Tried(inHand.chain)) = inHand.retry + 0 /\ inHand.retry \in Nat
        BY <2>1, <3>1, HandType DEF Counted
      <4> QED
        BY <2>1, <2>2, <3>1, <4>1, HandAlone
    <3> QED
      BY <2>2, <3>1, ContiguousGrows DEF Counted
  <2>4. \A j \in Waiting : j.kind # "skipped" => Tried(j.chain)' = Tried(j.chain)
    BY <2>1, <2>2, HandAlone, TriedGrows
  <2>5. \A k \in 1 .. Len(trail') : trail'[k].status # "skipped" => trail'[k].chain \in chains
    <3>1. status # "skipped" => r.chain \in chains
      BY <2>1, <2>2, HandAlone
    <3> QED
      BY <2>2, <3>1, TrailAppend DEF Counted
  <2> QED
    BY <2>1, <2>3, <2>4, <2>5 DEF Counted
<1>5. CASE RecordFailed
  <2>1. /\ wpc # "idle" /\ wpc # "scheduling" /\ wpc' = "scheduling" /\ past' = past
        /\ schedule[inHand.retry + 1] \in Nat /\ Record("failed", schedule[inHand.retry + 1])
        /\ chains' = chains /\ inHand' = inHand /\ Waiting' = Waiting
        /\ inHand.kind = "attempt" /\ inHand.retry \in Nat
    BY <1>5, HandType DEF RecordFailed, Types, WorkerTypes, AdminTypes, Waiting, ClockJobs, Timed,
       Firing, InSlot, clock, request
  <2>2. PICK r \in Records : /\ trail' = Append(trail, r) /\ r.chain = inHand.chain
                             /\ r.status = "failed" /\ r.attempt = inHand.retry + 1
    BY <2>1, TrailGrows DEF Statuses
  <2>3. AttemptsContiguous'
    BY <2>1, <2>2, HandAlone, ContiguousGrows DEF Counted
  <2>4. \A j \in Waiting : j.kind # "skipped" => Tried(j.chain)' = Tried(j.chain)
    BY <2>1, <2>2, HandAlone, TriedGrows
  <2>5. \A k \in 1 .. Len(trail') : trail'[k].status # "skipped" => trail'[k].chain \in chains
    <3>1. r.chain \in chains
      BY <2>1, <2>2, HandAlone
    <3> QED
      BY <2>2, <3>1, TrailAppend DEF Counted
  <2>6. Cardinality(Tried(r.chain)') = inHand.retry + 1
    <3>1. Cardinality(Tried(r.chain)') = Cardinality(Tried(r.chain)) + 1
      BY <2>2, TriedGrows
    <3>2. Cardinality(Tried(inHand.chain)) = inHand.retry + 0
      BY <2>1 DEF Counted
    <3> QED
      BY <2>1, <2>2, <3>1, <3>2
  <2> QED
    BY <2>1, <2>2, <2>3, <2>4, <2>5, <2>6 DEF Counted
<1>6. CASE Raises
  <2>1. Waiting' = Waiting /\ trail' = trail /\ chains' = chains /\ wpc' = "idle"
    BY <1>6, TrailKept DEF Raises, JobRaises, FinishJob, Waiting, ClockJobs, Timed, Firing, InSlot,
       clock, request
  <2> QED
    BY <2>1, SameTrail DEF Counted
<1>7. CASE ScheduleRetry
  <2>1. /\ wpc = "scheduling" /\ inHand \in Jobs /\ inHand.kind = "attempt" /\ wpc' = "idle"
        /\ Schedule(RetryOf, delay) /\ delay \in Nat
        /\ UNCHANGED <<queue, popped, request, caller, log, past>>
    BY <1>7, HandType DEF ScheduleRetry, FinishJob, Types, WorkerTypes, records
  <2>2. RetryOf \in Jobs /\ RetryOf.retry = inHand.retry + 1 /\ RetryOf.chain = inHand.chain
    BY <2>1, RetryOfType
  <2>3. Timed' = Timed \cup {RetryOf}
    BY <2>1, <2>2, TimerAdded
  <2>4. Waiting' \subseteq Waiting \cup {RetryOf} /\ trail' = trail /\ chains' = chains
    BY <2>1, <2>3, TrailKept DEF Waiting, ClockJobs, Firing, InSlot, request
  <2>5. Cardinality(Tried(RetryOf.chain)) = RetryOf.retry
    BY <2>1, <2>2 DEF Counted
  <2> QED
    BY <2>1, <2>4, <2>5, SameTrail DEF Counted
<1>8. ASSUME NEW fault \in Faults, QueueNext(fault) PROVE Counted'
  <2>1. /\ \A j \in Waiting' : j \in Waiting \/ Unseen(j) \/ FromSlot(j)
        /\ chains \subseteq chains' /\ trail' = trail /\ UNCHANGED <<inHand, wpc>>
    BY <1>8, WaitingNext
  <2>2. held # NoJob => held \in Waiting
    BY DEF Waiting, InSlot
  <2>3. ASSUME NEW j \in Waiting', j.kind # "skipped" PROVE Cardinality(Tried(j.chain)) = j.retry
    BY <2>1, <2>2, <2>3, Untried DEF Counted, Unseen, FromSlot
  <2> QED
    BY <2>1, <2>3, SameTrail DEF Counted
<1> QED
  BY <1>1, <1>2, <1>3, <1>4, <1>5, <1>6, <1>7, <1>8, MovedBy

LEMMA EmptyTrail == Init => trail = <<>> /\ Waiting = {} /\ wpc = "idle" /\ chains = {}
<1> SUFFICES ASSUME Init PROVE trail = <<>> /\ Waiting = {} /\ wpc = "idle" /\ chains = {}
  OBVIOUS
<1>0. /\ queue = <<>> /\ inHand = NoJob /\ timers = <<>> /\ popped = {} /\ held = NoJob
      /\ chains = {} /\ log = <<>> /\ past = <<>> /\ wpc = "idle"
      /\ \A c \in Callers : caller[c].hand = NoJob
  BY DEF Init, AtRest, Thread
<1>1. Entries(<<>>) = {} /\ trail = <<>>
  BY <1>0 DEF Entries, trail
<1> QED
  BY <1>0, <1>1 DEF Waiting, ClockJobs, Timed, Firing, InSlot

(* _record() writes the attempts of a delivery as 1, 2, 3 ..., across      *)
(* resets and stops, whatever the policy is patched to meanwhile.          *)
THEOREM TranscriptsContiguous == Spec => []AttemptsContiguous
<1>1. Init => Counted
  BY EmptyTrail DEF Counted, AttemptsContiguous
<1>2. Inv /\ Counted /\ [Next]_vars => Counted'
  BY CountedStep
<1>3. Counted => AttemptsContiguous
  BY DEF Counted
<1> QED
  BY <1>1, <1>2, <1>3, InvHolds, PTL DEF Spec

-----------------------------------------------------------------------------
(* A thread of Unit.stop() that has come to the timers has stopped the     *)
(* worker.                                                                 *)
Stoppers == \A c \in Callers : caller[c].pc \in {"joining", "clearing"} => stopped

LEMMA StoppersStep == Types /\ Hands /\ Stoppers /\ [Next]_vars => Stoppers'
<1> SUFFICES ASSUME Types, Hands, Stoppers, [Next]_vars PROVE Stoppers'
  OBVIOUS
<1>1. ASSUME UNCHANGED <<caller, stopped>> PROVE Stoppers'
  BY <1>1 DEF Stoppers
<1>2. ASSUME NEW c \in Callers, NEW pc, NEW hand, NEW told, NEW asked,
             Steps(c, pc, hand, told, asked), pc \in {"joining", "clearing"} => stopped',
             stopped => stopped'
      PROVE  Stoppers'
  BY <1>2 DEF Stoppers, Steps
<1>3. ASSUME NEW c \in Callers, Call(c) \/ Caller_Next(c) PROVE Stoppers'
  <2>1. ASSUME NEW route \in Routes, CallDrain(c, route) PROVE Stoppers'
    BY <1>2, <2>1, BeginSteps DEF CallDrain
  <2>2. ASSUME NEW route \in Routes, NEW ms \in 0 .. MaxTime, CallAdvance(c, route, ms)
        PROVE  Stoppers'
    BY <1>2, <2>2, BeginSteps DEF CallAdvance
  <2>3. CASE DrainQuiesce(c)
    BY <1>2, <2>3, GoSteps DEF DrainQuiesce
  <2>4. CASE DrainTimeout(c)
    BY <1>2, <2>4, GoSteps DEF DrainTimeout
  <2>5. CASE AdvanceSettle(c)
    BY <1>2, <2>5, GoSteps DEF AdvanceSettle, Rescan
  <2>6. CASE StopWorker(c)
    BY <1>2, <2>6, GoSteps DEF StopWorker
  <2>7. CASE DrainLook(c)
    <3>1. CASE timers = <<>>
      BY <1>2, <2>7, <3>1, DrainReturnsSteps DEF DrainLook
    <3>2. CASE timers # <<>>
      <4>1. stopped' = stopped
        BY <2>7 DEF DrainLook
      <4> QED
        BY <1>2, <2>7, <3>2, <4>1, LookSteps
    <3> QED
      BY <3>1, <3>2
  <2>8. CASE DrainSleep(c)
    BY <1>2, <2>8, NextPassSteps DEF DrainSleep
  <2>9. CASE DrainAdvance(c)
    <3>1. Steps(c, "settle", caller[c].hand, caller[c].told, caller[c].asked) /\ stopped' = stopped
      BY <2>9, OtherSteps DEF DrainAdvance
    <3> QED
      BY <1>2, <3>1
  <2>10. CASE ListTimers(c)
    BY <1>2, <2>10, OtherSteps DEF ListTimers, Stoppers
  <2>11. CASE StopReturns(c)
    <3>1. Steps(c, "unit_stopped", caller[c].hand, caller[c].told, caller[c].asked)
          /\ stopped' = stopped
      BY <2>11, OtherSteps DEF StopReturns
    <3> QED
      BY <1>2, <3>1
  <2>12. CASE Return(c)
    BY <1>2, <2>12, OtherSteps DEF Return
  <2>13. CASE AdvanceScan(c)
    <3>1. CASE DueJobs = {}
      BY <1>2, <2>13, <3>1, AdvanceReturnsSteps DEF AdvanceScan
    <3>2. CASE DueJobs # {}
      BY <1>2, <2>13, <3>2, AdvanceScanSteps DEF AdvanceScan
    <3> QED
      BY <3>1, <3>2
  <2>14. CASE AdvanceFire(c)
    <3>1. stopped' = stopped /\ \E pc \in {"gaveup", "settle"} :
            Steps(c, pc, NoJob, caller[c].told, caller[c].asked)
      BY <2>14, AdvanceFireSteps DEF AdvanceFire
    <3> QED
      BY <1>2, <3>1
  <2>15. CASE CancelTimer(c)
    BY <1>1, <2>15 DEF CancelTimer
  <2> QED
    BY <1>3, <2>1, <2>2, <2>3, <2>4, <2>5, <2>6, <2>7, <2>8, <2>9, <2>10, <2>11, <2>12, <2>13,
       <2>14, <2>15 DEF Call, Caller_Next
<1>4. CASE Request_Next
  BY <1>1, <1>4 DEF Request_Next, Emit, QueueNext
<1>5. CASE Worker_Next
  BY <1>1, <1>5 DEF Worker_Next, TakeJob, RecordTerminal, Send, SendRaises, Delivered, Exhausted,
     NotExhausted, RecordFailed, ScheduleGone, ScheduleRetry, JobRaises
<1>6. CASE Timer_Next \/ Admin_Next
  BY <1>1, <1>6 DEF Timer_Next, TimerPop, TimerFire, Admin_Next, Hydrate, SetRetryPolicy
<1>7. CASE UNCHANGED vars
  BY <1>1, <1>7 DEF vars
<1> QED
  BY <1>3, <1>4, <1>5, <1>6, <1>7 DEF Next

LEMMA NothingLostStep == Types /\ Hands /\ Stoppers /\ NothingLost /\ [Next]_vars => NothingLost'
<1> SUFFICES ASSUME Types, Hands, Stoppers, NothingLost, Kinds PROVE NothingLost'
  BY StepKinds
<1>1. ASSUME lost' = lost, stopped => stopped' PROVE NothingLost'
  BY <1>1 DEF NothingLost
<1>2. ASSUME NEW jobs, SubmitAll(jobs), stopped' = stopped PROVE NothingLost'
  <2>1. CASE stopped
    BY <1>2, <2>1 DEF NothingLost
  <2>2. CASE ~stopped
    BY <1>1, <1>2, <2>2 DEF SubmitAll
  <2> QED
    BY <2>1, <2>2
<1>3. ASSUME NEW fault \in Faults, QueueNext(fault) PROVE NothingLost'
  <2>1. stopped' = stopped
    BY <1>3 DEF QueueNext
  <2>2. CASE Hold(fault)
    <3>1. CASE held = NoJob
      BY <1>1, <2>1, <2>2, <3>1 DEF Hold
    <3>2. CASE held # NoJob
      <4>1. lost' = lost \cup {[chain |-> held.chain, why |-> "overwritten"]}
        BY <2>2, <3>2 DEF Hold, Lose
      <4> QED
        BY <2>1, <4>1 DEF NothingLost
    <3> QED
      BY <3>1, <3>2
  <2>3. CASE Drop(fault)
    BY <1>2, <2>1, <2>3 DEF Drop
  <2>4. CASE SendAll(fault)
    BY <1>2, <2>1, <2>4 DEF SendAll
  <2> QED
    BY <1>3, <2>2, <2>3, <2>4 DEF QueueNext
<1>4. CASE Still
  BY <1>1, <1>4 DEF Still
<1>5. CASE TakeJob \/ RecordFailed \/ Raises \/ ScheduleRetry
  BY <1>1, <1>5 DEF TakeJob, RecordFailed, Raises, JobRaises, ScheduleRetry
<1>6. ASSUME NEW status, Ends(status) PROVE NothingLost'
  BY <1>1, <1>6 DEF Ends
<1>7. ASSUME NEW i \in 1 .. Len(timers), TimerPop(i) PROVE NothingLost'
  BY <1>1, <1>7 DEF TimerPop
<1>8. ASSUME NEW job \in popped, TimerFire(job) PROVE NothingLost'
  BY <1>2, <1>8 DEF TimerFire
<1>9. ASSUME NEW c \in Callers, Fires(c) PROVE NothingLost'
  BY <1>2, <1>9 DEF Fires
<1>10. ASSUME NEW c \in Callers, NEW i \in 1 .. Len(timers), Scans(c, i) PROVE NothingLost'
  BY <1>1, <1>10 DEF Scans
<1>11. ASSUME NEW c \in Callers, NEW i \in 1 .. Len(timers), Cancels(c, i) PROVE NothingLost'
  <2>1. stopped /\ stopped' = stopped
    BY <1>11 DEF Cancels, Stoppers
  <2> QED
    BY <2>1 DEF NothingLost
<1> QED
  BY <1>3, <1>4, <1>5, <1>6, <1>7, <1>8, <1>9, <1>10, <1>11 DEF Kinds

(* Only stop() makes a delivery disappear: worker.submit() refuses and     *)
(* clear_all() cancels nothing before the worker is stopped.               *)
THEOREM RunningLosesNothing == Spec => []NothingLost
<1>1. Init => Stoppers /\ NothingLost
  BY DEF Init, AtRest, Thread, Stoppers, NothingLost
<1>2. Inv /\ Stoppers /\ NothingLost /\ [Next]_vars => Stoppers' /\ NothingLost'
  BY StoppersStep, NothingLostStep DEF Inv
<1> QED
  BY <1>1, <1>2, InvHolds, PTL DEF Spec

-----------------------------------------------------------------------------
(* On a virtual clock: every failed attempt's delay has passed at t.       *)
Ripe(chain, t) == \A k \in Tried(chain) : trail[k].at + trail[k].next <= t

Spaced ==
  /\ popped = {}
  /\ \A j \in Ready : j.kind # "skipped" => Ripe(j.chain, now)
  /\ \A i \in 1 .. Len(timers) : Ripe(timers[i].job.chain, timers[i].due)
  /\ wpc # "idle" /\ inHand.kind # "skipped" =>
       Ripe(inHand.chain, now + (IF wpc = "scheduling" THEN delay ELSE 0))
  /\ RetriesSpaced

LEMMA RipeLater ==
  ASSUME Types, NEW chain, NEW t \in Nat, NEW u \in Nat, t <= u, Ripe(chain, t)
  PROVE  Ripe(chain, u)
<1> SUFFICES ASSUME NEW k \in Tried(chain) PROVE trail[k].at + trail[k].next <= u
  BY DEF Ripe
<1>1. trail[k] \in Records
  BY TrailType DEF Tried
<1>2. trail[k].at \in Nat /\ trail[k].next \in Nat /\ trail[k].at + trail[k].next <= t
  BY <1>1 DEF Records, Ripe
<1> QED
  BY <1>2

LEMMA RipeKept ==
  ASSUME trail' = trail, NEW chain, NEW t
  PROVE  Ripe(chain, t) <=> \A k \in Tried(chain)' : trail'[k].at + trail'[k].next <= t
BY SameTrail DEF Ripe

LEMMA SpacedSame ==
  ASSUME trail' = trail
  PROVE  /\ RetriesSpaced => RetriesSpaced'
         /\ \A chain, t : Ripe(chain, t) => Ripe(chain, t)'
<1>1. RetriesSpaced => RetriesSpaced'
  BY DEF RetriesSpaced, Earlier, SameDelivery
<1>2. ASSUME NEW chain, NEW t, Ripe(chain, t) PROVE Ripe(chain, t)'
  BY <1>2, SameTrail DEF Ripe
<1> QED
  BY <1>1, <1>2

LEMMA UntriedRipe ==
  ASSUME Counted, NEW chain, chain \notin chains, NEW t
  PROVE  Ripe(chain, t)
BY DEF Counted, Ripe, Tried

(* A new record touches its own delivery only.                             *)
LEMMA RipeGrows ==
  ASSUME Types, NEW r \in Records, trail' = Append(trail, r), NEW chain, NEW t, Ripe(chain, t),
         r.chain # chain \/ r.status = "skipped" \/ r.at + r.next <= t
  PROVE  Ripe(chain, t)'
<1>1. /\ \A k \in 1 .. Len(trail) : trail'[k] = trail[k]
      /\ trail'[Len(trail) + 1] = r
      /\ Tried(chain)' = Tried(chain) \cup
           (IF r.chain = chain /\ r.status # "skipped" THEN {Len(trail) + 1} ELSE {})
      /\ Tried(chain) \subseteq 1 .. Len(trail)
  BY TrailAppend, TriedGrows, TriedIs
<1> SUFFICES ASSUME NEW k \in Tried(chain)' PROVE trail'[k].at + trail'[k].next <= t
  BY DEF Ripe
<1>2. CASE k \in Tried(chain)
  BY <1>1, <1>2 DEF Ripe
<1>3. CASE k \notin Tried(chain)
  BY <1>1, <1>3
<1> QED
  BY <1>2, <1>3

LEMMA SpacedGrows ==
  ASSUME Types, RetriesSpaced, NEW r \in Records, trail' = Append(trail, r),
         r.status # "skipped" => Ripe(r.chain, r.at)
  PROVE  RetriesSpaced'
<1>0. /\ Len(trail') = Len(trail) + 1 /\ Len(trail) \in Nat
      /\ \A k \in 1 .. Len(trail) : trail'[k] = trail[k]
      /\ trail'[Len(trail) + 1] = r
  BY TrailAppend
<1> SUFFICES ASSUME NEW i \in 1 .. Len(trail'), trail'[i].status # "skipped",
                    NEW k \in Earlier(i)'
             PROVE  trail'[i].at >= trail'[k].at + trail'[k].next
  BY DEF RetriesSpaced
<1>1. k \in 1 .. i - 1 /\ trail'[i].chain = trail'[k].chain /\ trail'[k].status # "skipped"
      /\ k \in 1 .. Len(trail) /\ i \in Nat
  BY <1>0 DEF Earlier, SameDelivery
<1>2. CASE i \in 1 .. Len(trail)
  <2>1. k \in Earlier(i)
    BY <1>0, <1>1, <1>2 DEF Earlier, SameDelivery
  <2> QED
    BY <1>0, <1>1, <1>2, <2>1 DEF RetriesSpaced
<1>3. CASE i = Len(trail) + 1
  <2>1. trail'[i] = r /\ trail'[k] = trail[k] /\ k \in Tried(r.chain)
    BY <1>0, <1>1, <1>3 DEF Tried
  <2>2. trail[k] \in Records /\ trail[k].at + trail[k].next <= r.at
    BY <1>1, <2>1, TrailType DEF Ripe
  <2>3. trail[k].at \in Nat /\ trail[k].next \in Nat /\ r.at \in Nat
    BY <2>2 DEF Records
  <2> QED
    BY <2>1, <2>2, <2>3
<1>4. i \in 1 .. Len(trail) \/ i = Len(trail) + 1
  BY <1>0
<1> QED
  BY <1>2, <1>3, <1>4

LEMMA SpacedQueueNext ==
  ASSUME Types, Sorts, Placed, Counted, Spaced, NEW fault \in Faults, QueueNext(fault)
  PROVE  Spaced'
<1>1. /\ \A j \in Ready' : j \in Ready \/ Unseen(j) \/ FromSlot(j)
      /\ timers' = timers \/ \E t \in Timers : timers' = Append(timers, t) /\ Unseen(t.job)
      /\ trail' = trail /\ UNCHANGED <<inHand, wpc, now, delay, popped>>
      /\ timers \in Seq(Timers)
  BY WaitingNext, TimedType
<1>2. held # NoJob => held \in Ready
  BY DEF Ready, InSlot
<1>3. ASSUME NEW j \in Ready', j.kind # "skipped" PROVE Ripe(j.chain, now)
  <2>1. CASE j \in Ready
    BY <1>3, <2>1 DEF Spaced
  <2>2. CASE Unseen(j)
    BY <1>3, <2>2, UntriedRipe DEF Unseen
  <2>3. CASE FromSlot(j)
    BY <1>2, <1>3, <2>3 DEF Spaced, FromSlot
  <2> QED
    BY <1>1, <2>1, <2>2, <2>3
<1>4. ASSUME NEW i \in 1 .. Len(timers') PROVE Ripe(timers'[i].job.chain, timers'[i].due)
  <2>1. CASE timers' = timers
    BY <2>1 DEF Spaced
  <2>2. ASSUME NEW t \in Timers, timers' = Append(timers, t), Unseen(t.job)
        PROVE  Ripe(timers'[i].job.chain, timers'[i].due)
    <3>1. (i \in 1 .. Len(timers) /\ timers'[i] = timers[i]) \/ timers'[i] = t
      BY <1>1, <2>2
    <3>2. ASSUME timers'[i] = t PROVE t.job.chain \notin chains
      <4>1. timers'[i].job \in Timed'
        BY DEF Timed, Entries
      <4>2. t.job.kind = "attempt"
        <5>1. Sorts'
          BY SortsQueueNext
        <5> QED
          BY <3>2, <4>1, <5>1 DEF Sorts, ClockJobs
      <4> QED
        BY <2>2, <4>2 DEF Unseen
    <3> QED
      BY <3>1, <3>2, UntriedRipe DEF Spaced
  <2> QED
    BY <1>1, <2>1, <2>2
<1>5. \A chain, t : Ripe(chain, t) => Ripe(chain, t)'
  BY <1>1, SpacedSame
<1>6. \A j \in Ready' : j.kind # "skipped" => Ripe(j.chain, now)'
  BY <1>1, <1>3, <1>5
<1> QED
  BY <1>1, <1>3, <1>4, <1>5, SpacedSame DEF Spaced

LEMMA SpacedStep == Virtual /\ Inv /\ Counted /\ Spaced /\ [Next]_vars => Spaced'
<1> SUFFICES ASSUME Virtual, Types, Hands, Sorts, Placed, Counted, Spaced, Kinds, Types'
             PROVE  Spaced'
  BY StepKinds, TypesStep DEF Inv
<1>0. /\ now \in Nat /\ delay \in Nat /\ now' \in Nat /\ timers \in Seq(Timers) /\ popped = {}
      /\ \A i \in 1 .. Len(timers) : timers[i].due \in Nat
  BY TimedType DEF Types, ClockTypes, WorkerTypes, Spaced
<1>1. CASE Still
  <2>1. now <= now' /\ trail' = trail /\ Ready' = Ready
        /\ UNCHANGED <<popped, timers, inHand, delay>>
        /\ (wpc' = "scheduling" <=> wpc = "scheduling") /\ (wpc' = "idle" <=> wpc = "idle")
    BY <1>0, <1>1, FiringKept DEF Still, Ready, InSlot
  <2>2. \A chain, t : Ripe(chain, t) => Ripe(chain, t)'
    BY <2>1, SpacedSame
  <2>3. ASSUME NEW j \in Ready, j.kind # "skipped" PROVE Ripe(j.chain, now')
    BY <1>0, <2>1, <2>3, RipeLater DEF Spaced
  <2>4. ASSUME wpc' # "idle", inHand.kind # "skipped"
        PROVE  Ripe(inHand.chain, now' + (IF wpc' = "scheduling" THEN delay ELSE 0))
    <3> DEFINE d == IF wpc = "scheduling" THEN delay ELSE 0
    <3>0. d \in Nat
      BY <1>0
    <3>2. Ripe(inHand.chain, now + d)
      BY <2>1, <2>4 DEF Spaced
    <3>3. (IF wpc' = "scheduling" THEN delay ELSE 0) = d
      BY <2>1
    <3> HIDE DEF d
    <3>1. now + d \in Nat /\ now' + d \in Nat /\ now + d <= now' + d
      <4>1. now \in Nat /\ now' \in Nat /\ now <= now'
        BY <1>0, <2>1
      <4>2. ASSUME NEW a \in Nat, NEW b \in Nat, NEW e \in Nat, a <= b
            PROVE  a + e \in Nat /\ b + e \in Nat /\ a + e <= b + e
        BY <4>2
      <4> QED
        BY <3>0, <4>1, <4>2
    <3>4. Ripe(inHand.chain, now' + d)
      BY <3>1, <3>2, RipeLater
    <3> QED
      BY <3>3, <3>4
  <2> QED
    BY <2>1, <2>2, <2>3, <2>4, SpacedSame DEF Spaced
<1>2. ASSUME trail' = trail, popped' = {}, now' = now,
             \A j \in Ready' : j.kind # "skipped" => Ripe(j.chain, now),
             \A i \in 1 .. Len(timers') : Ripe(timers'[i].job.chain, timers'[i].due),
             wpc' # "idle" /\ inHand'.kind # "skipped" =>
               Ripe(inHand'.chain, now + (IF wpc' = "scheduling" THEN delay' ELSE 0))
      PROVE  Spaced'
  <2>1. \A chain, t : Ripe(chain, t) => Ripe(chain, t)'
    BY <1>2, SpacedSame
  <2> QED
    BY <1>2, <2>1, SpacedSame DEF Spaced
<1>3. CASE TakeJob
  <2>1. /\ Ready' \subseteq Ready /\ inHand' \in Ready
        /\ UNCHANGED <<popped, timers, now>> /\ wpc' = "started" /\ trail' = trail
    <3>1. queue \in Seq(Jobs) /\ Entries(queue) = {Head(queue)} \cup Entries(Tail(queue))
      BY <1>3, EntriesTail DEF TakeJob, Types, WorkerTypes
    <3> QED
      BY <1>3, <3>1, TrailKept DEF TakeJob, Ready, Firing, InSlot, clock, request, records
  <2>2. inHand'.kind # "skipped" => Ripe(inHand'.chain, now)
    BY <2>1 DEF Spaced
  <2>3. now + 0 = now
    BY <1>0
  <2> QED
    BY <1>0, <1>2, <2>1, <2>2, <2>3 DEF Spaced
<1>4. ASSUME wpc # "idle", wpc # "scheduling", NEW r \in Records, trail' = Append(trail, r),
             r.chain = inHand.chain, r.status # "skipped" => inHand.kind # "skipped", r.at = now,
             UNCHANGED <<popped, timers, now>>, Ready' = Ready
      PROVE  /\ RetriesSpaced'
             /\ \A j \in Ready : j.kind # "skipped" => Ripe(j.chain, now)'
             /\ \A i \in 1 .. Len(timers) : Ripe(timers[i].job.chain, timers[i].due)'
             /\ inHand.kind # "skipped" => Ripe(inHand.chain, now)
  <2>1. inHand.kind # "skipped" => Ripe(inHand.chain, now)
    <3>1. now + 0 = now
      BY <1>0
    <3> QED
      BY <1>4, <3>1 DEF Spaced
  <2>2. RetriesSpaced'
    BY <1>4, <2>1, SpacedGrows DEF Spaced
  <2>3. ASSUME NEW j \in Ready, j.kind # "skipped" PROVE Ripe(j.chain, now)'
    <3>1. j \in Waiting
      BY DEF Ready, Waiting, ClockJobs
    <3>2. inHand.kind # "skipped" => j.chain # inHand.chain
      BY <1>4, <2>3, <3>1, HandAlone
    <3>3. Ripe(j.chain, now) /\ (r.chain # j.chain \/ r.status = "skipped")
      BY <1>4, <2>3, <3>2 DEF Spaced
    <3> DEFINE n == now
    <3> HIDE DEF n
    <3>4. ASSUME NEW t, t = now PROVE Ripe(j.chain, t)'
      BY <1>4, <3>3, <3>4, RipeGrows
    <3> QED
      BY <1>4, <3>4
  <2>4. ASSUME NEW i \in 1 .. Len(timers) PROVE Ripe(timers[i].job.chain, timers[i].due)'
    <3>1. timers[i].job \in Waiting /\ timers[i].job.kind = "attempt"
      BY TimedType DEF Waiting, ClockJobs, Sorts
    <3>2. inHand.kind # "skipped" => timers[i].job.chain # inHand.chain
      BY <1>4, <3>1, HandAlone
    <3>3. ASSUME NEW chain, NEW t, chain = timers[i].job.chain, t = timers[i].due
          PROVE  Ripe(chain, t)'
      <4>1. Ripe(chain, t) /\ (r.chain # chain \/ r.status = "skipped")
        BY <1>4, <3>2, <3>3 DEF Spaced
      <4> QED
        BY <1>4, <4>1, RipeGrows
    <3> QED
      BY <1>4, <3>3
  <2> QED
    BY <2>1, <2>2, <2>3, <2>4
<1>5. ASSUME NEW status \in {"delivered", "exhausted", "skipped", "dropped"}, Ends(status)
      PROVE  Spaced'
  <2>1. /\ wpc # "idle" /\ wpc # "scheduling" /\ wpc' = "idle" /\ Record(status, 0)
        /\ past' = past /\ (inHand.kind = "skipped" <=> status = "skipped")
        /\ UNCHANGED <<popped, timers, now>> /\ Ready' = Ready
    BY <1>5 DEF Ends, FinishJob, Ready, Firing, InSlot, clock, request
  <2>2. PICK r \in Records : /\ trail' = Append(trail, r) /\ r.chain = inHand.chain
                             /\ r.status = status /\ r.at = now
    BY <2>1, TrailGrows DEF Statuses
  <2> QED
    BY <1>4, <2>1, <2>2 DEF Spaced
<1>6. CASE RecordFailed
  <2>1. /\ wpc # "idle" /\ wpc # "scheduling" /\ wpc' = "scheduling" /\ past' = past
        /\ delay' = schedule[inHand.retry + 1] /\ delay' \in Nat
        /\ Record("failed", schedule[inHand.retry + 1])
        /\ UNCHANGED <<popped, timers, now, inHand>> /\ Ready' = Ready
        /\ inHand.kind = "attempt"
    BY <1>6, HandType DEF RecordFailed, Types, WorkerTypes, AdminTypes, Ready, Firing, InSlot,
       clock, request
  <2>2. PICK r \in Records : /\ trail' = Append(trail, r) /\ r.chain = inHand.chain
                             /\ r.status = "failed" /\ r.at = now /\ r.next = delay'
    BY <2>1, TrailGrows DEF Statuses
  <2>3. /\ RetriesSpaced'
        /\ \A j \in Ready : j.kind # "skipped" => Ripe(j.chain, now)'
        /\ \A i \in 1 .. Len(timers) : Ripe(timers[i].job.chain, timers[i].due)'
        /\ Ripe(inHand.chain, now)
    BY <1>4, <2>1, <2>2
  <2>4. ASSUME NEW chain, NEW t, chain = inHand.chain, t = now + delay'
        PROVE  Ripe(chain, t)'
    <3>1. now <= t /\ t \in Nat
      BY <1>0, <2>1, <2>4
    <3>2. Ripe(chain, t)
      BY <1>0, <2>3, <2>4, <3>1, RipeLater
    <3>3. r.at + r.next <= t
      BY <2>2, <2>4, <3>1
    <3> QED
      BY <2>2, <3>2, <3>3, RipeGrows
  <2> QED
    BY <1>0, <2>1, <2>3, <2>4 DEF Spaced
<1>7. CASE Raises
  <2>1. /\ Ready' = Ready /\ trail' = trail /\ wpc' = "idle"
        /\ UNCHANGED <<popped, timers, now>>
    BY <1>7, TrailKept DEF Raises, JobRaises, FinishJob, Ready, Firing, InSlot, clock, request
  <2> QED
    BY <1>0, <1>2, <2>1 DEF Spaced
<1>8. CASE ScheduleRetry
  <2>1. /\ wpc = "scheduling" /\ inHand \in Jobs /\ inHand.kind = "attempt" /\ wpc' = "idle"
        /\ Schedule(RetryOf, delay) /\ RetryOf.chain = inHand.chain
        /\ UNCHANGED <<queue, popped, now, request, caller, log, past>>
    BY <1>8, HandType, RetryOfType DEF ScheduleRetry, FinishJob, Types, WorkerTypes, records
  <2>2. Ready' = Ready /\ trail' = trail
    BY <2>1, TrailKept DEF Ready, Firing, InSlot, request
  <2>3. ASSUME NEW i \in 1 .. Len(timers') PROVE Ripe(timers'[i].job.chain, timers'[i].due)
    <3> DEFINE t == [due |-> now + delay, job |-> RetryOf]
    <3>1. timers' = Append(timers, t) /\ t.job = RetryOf /\ t.due = now + delay
      BY <2>1 DEF Schedule
    <3> HIDE DEF t
    <3>2. (i \in 1 .. Len(timers) /\ timers'[i] = timers[i]) \/ timers'[i] = t
      BY <1>0, <3>1
    <3>3. Ripe(RetryOf.chain, now + delay)
      BY <2>1 DEF Spaced
    <3> QED
      BY <3>1, <3>2, <3>3 DEF Spaced
  <2> QED
    BY <1>0, <1>2, <2>1, <2>2, <2>3 DEF Spaced
<1>9. ASSUME NEW i \in 1 .. Len(timers), timers' = RemoveAt(timers, i)
      PROVE  \A k \in 1 .. Len(timers') : Ripe(timers'[k].job.chain, timers'[k].due)
  <2>1. \A k \in 1 .. Len(timers') : \E m \in 1 .. Len(timers) : timers'[k] = timers[m]
    <3>1. /\ Len(timers') = Len(timers) - 1 /\ Len(timers) \in Nat
          /\ \A k \in 1 .. Len(timers) - 1 :
               timers'[k] = IF k < i THEN timers[k] ELSE timers[k + 1]
      BY <1>0, <1>9, EntriesRemove, LenProperties
    <3>2. ASSUME NEW k \in 1 .. Len(timers') PROVE \E m \in 1 .. Len(timers) : timers'[k] = timers[m]
      <4>1. k \in 1 .. Len(timers) /\ k + 1 \in 1 .. Len(timers)
        BY <3>1
      <4> QED
        BY <3>1, <4>1
    <3> QED
      BY <3>2
  <2> QED
    BY <2>1 DEF Spaced
<1>10. ASSUME NEW c \in Callers, Fires(c) PROVE Spaced'
  <2>1. caller[c].hand \in Jobs /\ caller[c].hand \in Firing
    BY <1>10, JobType DEF Fires, Firing
  <2>2. Entries(queue') \subseteq Entries(queue) \cup {caller[c].hand}
    BY <1>10, <2>1, SubmitWaiting DEF Fires
  <2>3. Firing' \subseteq Firing
    BY <1>10 DEF Fires, Steps, Firing
  <2>4. Ready' \subseteq Ready /\ trail' = trail
        /\ UNCHANGED <<popped, timers, now, inHand, wpc, delay>>
    BY <1>10, <2>1, <2>2, <2>3, TrailKept DEF Fires, Ready, InSlot, worker, request, records
  <2> QED
    BY <1>0, <1>2, <2>4 DEF Spaced
<1>11. ASSUME NEW c \in Callers, NEW i \in 1 .. Len(timers), Scans(c, i) PROVE Spaced'
  <2>1. Firing' \subseteq Firing \cup {timers[i].job}
    BY <1>11 DEF Scans, Steps, Firing
  <2>2. /\ Ready' \subseteq Ready \cup {timers[i].job} /\ trail' = trail
        /\ timers' = RemoveAt(timers, i) /\ timers[i].due <= now
        /\ UNCHANGED <<popped, now, inHand, wpc, delay>>
    BY <1>11, <2>1, TrailKept DEF Scans, Ready, InSlot, worker, request, records
  <2>3. Ripe(timers[i].job.chain, now)
    BY <1>0, <2>2, RipeLater DEF Spaced
  <2>4. \A j \in Ready' : j.kind # "skipped" => Ripe(j.chain, now)
    BY <2>2, <2>3 DEF Spaced
  <2>5. \A k \in 1 .. Len(timers') : Ripe(timers'[k].job.chain, timers'[k].due)
    BY <1>9, <2>2
  <2> QED
    BY <1>0, <1>2, <2>2, <2>4, <2>5 DEF Spaced
<1>12. ASSUME NEW c \in Callers, NEW i \in 1 .. Len(timers), Cancels(c, i) PROVE Spaced'
  <2>1. /\ Ready' = Ready /\ trail' = trail /\ timers' = RemoveAt(timers, i)
        /\ UNCHANGED <<popped, now, inHand, wpc, delay>>
    BY <1>12, TrailKept DEF Cancels, Ready, Firing, InSlot, worker, request, records
  <2>2. \A k \in 1 .. Len(timers') : Ripe(timers'[k].job.chain, timers'[k].due)
    BY <1>9, <2>1
  <2> QED
    BY <1>0, <1>2, <2>1, <2>2 DEF Spaced
<1>13. ASSUME NEW i \in 1 .. Len(timers), TimerPop(i) PROVE FALSE
  BY <1>13 DEF TimerPop
<1> QED
  BY <1>0, <1>1, <1>3, <1>5, <1>6, <1>7, <1>8, <1>10, <1>11, <1>12, <1>13, SpacedQueueNext DEF Kinds

(* On a virtual clock no attempt is recorded before the delay that the     *)
(* failed attempt before it wrote down as next_retry_in_ms has passed.     *)
THEOREM RetriesAreSpaced == ASSUME Virtual PROVE Spec => []RetriesSpaced
<1>1. Init => Counted
  BY EmptyTrail DEF Counted, AttemptsContiguous
<1>2. Init => Spaced
  BY EmptyTrail DEF Spaced, RetriesSpaced, Waiting, Ready, ClockJobs, Init
<1>3. Inv /\ Counted /\ [Next]_vars => Counted'
  BY CountedStep
<1>4. Inv /\ Counted /\ Spaced /\ [Next]_vars => Spaced'
  BY SpacedStep
<1>5. Spaced => RetriesSpaced
  BY DEF Spaced
<1> QED
  BY <1>1, <1>2, <1>3, <1>4, <1>5, InvHolds, PTL DEF Spec

-----------------------------------------------------------------------------
(* The order of the first attempts.                                        *)
Plain(x) == x.chaos \notin {"delay", "released", "retry"}

(* Still to be sent by the worker. *)
InWork == wpc \notin {"idle", "scheduling"} /\ Plain(inHand)

Known ==
  /\ \A k \in 1 .. Len(trail) : trail[k].chain \in chains
  /\ \A j \in Waiting : j.chain \in chains
  /\ wpc # "idle" => inHand.chain \in chains

Ordered ==
  /\ \A i, k \in 1 .. Len(trail) :
       i < k /\ Plain(trail[i]) /\ Plain(trail[k]) => Before(trail[i].chain, trail[k].chain)
  /\ \A i \in 1 .. Len(trail) :
       InWork /\ Plain(trail[i]) => Before(trail[i].chain, inHand.chain)
  /\ \A i \in 1 .. Len(trail), k \in 1 .. Len(queue) :
       Plain(trail[i]) /\ Plain(queue[k]) => Before(trail[i].chain, queue[k].chain)
  /\ \A k \in 1 .. Len(queue) :
       InWork /\ Plain(queue[k]) => Before(inHand.chain, queue[k].chain)
  /\ \A i, k \in 1 .. Len(queue) :
       i < k /\ Plain(queue[i]) /\ Plain(queue[k]) => Before(queue[i].chain, queue[k].chain)

LEMMA KnownStep == Inv /\ Known /\ [Next]_vars => Known'
<1> SUFFICES ASSUME Types, Hands, Sorts, Placed, Known, Kinds PROVE Known'
  BY StepKinds DEF Inv
<1>1. CASE Still
  <2>1. Waiting' = Waiting /\ trail' = trail
    BY <1>1, FiringKept DEF Still, Waiting, ClockJobs, Timed, InSlot
  <2> QED
    BY <1>1, <2>1 DEF Still, Known
<1>2. CASE Moved
  BY <1>2 DEF Moved, Known
<1>3. CASE TakeJob
  <2>1. /\ Waiting' \subseteq Waiting /\ inHand' \in Waiting /\ trail' = trail /\ chains' = chains
    BY <1>3, WaitingTake
  <2> QED
    BY <2>1 DEF Known
<1>4. ASSUME NEW status \in Statuses, NEW next \in Nat, Record(status, next), wpc # "idle",
             past' = past, chains' = chains, Waiting' = Waiting,
             wpc' = "idle" \/ inHand' = inHand
      PROVE  Known'
  <2>1. PICK r \in Records : trail' = Append(trail, r) /\ r.chain = inHand.chain
    BY <1>4, TrailGrows
  <2> QED
    BY <1>4, <2>1, TrailAppend DEF Known
<1>5. ASSUME NEW status \in {"delivered", "exhausted", "skipped", "dropped"}, Ends(status)
      PROVE  Known'
  BY <1>4, <1>5 DEF Ends, FinishJob, Statuses, Waiting, ClockJobs, Timed, Firing, InSlot, clock,
     request
<1>6. CASE RecordFailed
  <2>1. schedule[inHand.retry + 1] \in Nat /\ Waiting' = Waiting /\ chains' = chains
    BY <1>6, HandType DEF RecordFailed, Types, AdminTypes, Waiting, ClockJobs, Timed, Firing,
       InSlot, clock, request
  <2> QED
    BY <1>4, <1>6, <2>1 DEF RecordFailed, Statuses
<1>7. CASE Raises
  <2>1. Waiting' = Waiting /\ trail' = trail /\ chains' = chains /\ wpc' = "idle"
    BY <1>7, TrailKept DEF Raises, JobRaises, FinishJob, Waiting, ClockJobs, Timed, Firing, InSlot,
       clock, request
  <2> QED
    BY <2>1 DEF Known
<1>8. CASE ScheduleRetry
  <2>1. /\ wpc = "scheduling" /\ inHand \in Jobs /\ inHand.kind = "attempt" /\ wpc' = "idle"
        /\ Schedule(RetryOf, delay) /\ delay \in Nat
        /\ UNCHANGED <<queue, popped, request, caller, log, past>>
    BY <1>8, HandType DEF ScheduleRetry, FinishJob, Types, WorkerTypes, records
  <2>2. RetryOf \in Jobs /\ RetryOf.chain = inHand.chain
    BY <2>1, RetryOfType
  <2>3. Timed' = Timed \cup {RetryOf}
    BY <2>1, <2>2, TimerAdded
  <2>4. Waiting' \subseteq Waiting \cup {RetryOf} /\ trail' = trail /\ chains' = chains
    BY <2>1, <2>3, TrailKept DEF Waiting, ClockJobs, Firing, InSlot, request
  <2> QED
    BY <2>1, <2>2, <2>4 DEF Known
<1>9. ASSUME NEW fault \in Faults, QueueNext(fault) PROVE Known'
  <2>1. /\ \A j \in Waiting' : j \in Waiting \/ Unseen(j) \/ FromSlot(j)
        /\ chains \subseteq chains' /\ trail' = trail /\ UNCHANGED <<inHand, wpc>>
    BY <1>9, WaitingNext
  <2>2. held # NoJob => held \in Waiting
    BY DEF Waiting, InSlot
  <2> QED
    BY <2>1, <2>2 DEF Known, Unseen, FromSlot
<1> QED
  BY <1>1, <1>2, <1>3, <1>5, <1>6, <1>7, <1>8, <1>9, MovedBy

(* New jobs at the end of the queue.                                       *)
LEMMA OrderedSubmit ==
  ASSUME Types, Ordered, Known, NEW jobs \in Seq(Jobs),
         queue' = queue \/ queue' = queue \o jobs,
         UNCHANGED <<inHand, wpc>>, trail' = trail,
         \A i, k \in 1 .. Len(jobs) :
           i < k /\ Plain(jobs[i]) /\ Plain(jobs[k]) => Before(jobs[i].chain, jobs[k].chain),
         \A k \in 1 .. Len(jobs) :
           Plain(jobs[k]) => \A chain \in chains : Before(chain, jobs[k].chain)
  PROVE  Ordered'
<1>1. CASE queue' = queue
  BY <1>1 DEF Ordered, InWork
<1>2. CASE queue' = queue \o jobs
  <2>0. queue \in Seq(Jobs) /\ Len(queue) \in Nat /\ Len(jobs) \in Nat
    BY LenProperties DEF Types, WorkerTypes
  <2>1. /\ Len(queue') = Len(queue) + Len(jobs)
        /\ \A k \in 1 .. Len(queue') :
             \/ k \in 1 .. Len(queue) /\ queue'[k] = queue[k]
             \/ /\ k > Len(queue) /\ k - Len(queue) \in 1 .. Len(jobs)
                /\ queue'[k] = jobs[k - Len(queue)]
    BY <1>2, <2>0, ConcatProperties
  <2>2. \A k \in 1 .. Len(queue) : queue[k].chain \in chains
    BY DEF Known, Waiting, Entries
  <2>3. ASSUME NEW chain \in chains, NEW k \in 1 .. Len(queue'), ~(k \in 1 .. Len(queue)),
               Plain(queue'[k])
        PROVE  Before(chain, queue'[k].chain)
    BY <2>1, <2>3
  <2>4. ASSUME NEW i \in 1 .. Len(queue'), NEW k \in 1 .. Len(queue'), i < k, Plain(queue'[i]),
               Plain(queue'[k])
        PROVE  Before(queue'[i].chain, queue'[k].chain)
    <3>1. CASE k \in 1 .. Len(queue)
      <4>1. i \in 1 .. Len(queue)
        BY <2>0, <2>1, <2>4, <3>1
      <4> QED
        BY <2>0, <2>1, <2>4, <3>1, <4>1 DEF Ordered
    <3>2. CASE i \in 1 .. Len(queue) /\ ~(k \in 1 .. Len(queue))
      <4>1. queue'[i] = queue[i] /\ queue'[i].chain \in chains
        BY <2>0, <2>1, <2>2, <3>2
      <4> QED
        BY <2>3, <2>4, <3>2, <4>1
    <3>3. CASE ~(i \in 1 .. Len(queue)) /\ ~(k \in 1 .. Len(queue))
      <4>1. i - Len(queue) \in 1 .. Len(jobs) /\ k - Len(queue) \in 1 .. Len(jobs)
            /\ i - Len(queue) < k - Len(queue)
            /\ queue'[i] = jobs[i - Len(queue)] /\ queue'[k] = jobs[k - Len(queue)]
        BY <2>0, <2>1, <2>4, <3>3
      <4> QED
        BY <2>4, <4>1
    <3> QED
      BY <3>1, <3>2, <3>3
  <2>5. ASSUME NEW i \in 1 .. Len(trail), NEW k \in 1 .. Len(queue'), Plain(trail[i]),
               Plain(queue'[k])
        PROVE  Before(trail[i].chain, queue'[k].chain)
    <3>1. CASE k \in 1 .. Len(queue)
      BY <2>0, <2>1, <2>5, <3>1 DEF Ordered
    <3>2. CASE ~(k \in 1 .. Len(queue))
      BY <2>3, <2>5, <3>2 DEF Known
    <3> QED
      BY <3>1, <3>2
  <2>6. ASSUME NEW k \in 1 .. Len(queue'), InWork, Plain(queue'[k])
        PROVE  Before(inHand.chain, queue'[k].chain)
    <3>1. CASE k \in 1 .. Len(queue)
      BY <2>0, <2>1, <2>6, <3>1 DEF Ordered
    <3>2. CASE ~(k \in 1 .. Len(queue))
      BY <2>3, <2>6, <3>2 DEF Known, InWork
    <3> QED
      BY <3>1, <3>2
  <2> QED
    BY <2>4, <2>5, <2>6 DEF Ordered, InWork
<1> QED
  BY <1>1, <1>2

LEMMA NewGoesLast ==
  ASSUME Types, Placed, fanout # {}, NEW new, new.event = emitted, new.sub = Foremost,
         NEW chain \in chains
  PROVE  Before(chain, new)
<1>1. Foremost \in fanout
  BY ForemostType
<1>2. chain.event <= emitted /\ (chain.event = emitted => chain.sub < Foremost)
      /\ chain.event \in Nat /\ emitted \in Nat
  BY <1>1 DEF Placed, Prepared, Types, RequestTypes, Chains
<1> QED
  BY <1>2 DEF Before

LEMMA OrderedQueueNext ==
  ASSUME Types, Sorts, Placed, Known, Ordered, NEW fault \in Faults, QueueNext(fault)
  PROVE  Ordered'
<1> DEFINE f == First(fault)
           late(j) == Plain(j) => \A chain \in chains : Before(chain, j.chain)
<1>0. /\ fanout # {} /\ queue \in Seq(Jobs) /\ f \in Jobs
      /\ f.chain.event = emitted /\ f.chain.sub = Foremost
      /\ UNCHANGED <<inHand, wpc>> /\ trail' = trail
  BY FirstType, TrailKept DEF QueueNext, worker, records, Types, WorkerTypes
<1> HIDE DEF f
<1>1. ASSUME NEW j \in Jobs, j.chain = f.chain, queue' = queue \/ queue' = queue \o <<j>>
      PROVE  Ordered'
  <2>1. \A chain \in chains : Before(chain, j.chain)
    BY <1>0, <1>1, NewGoesLast
  <2>2. <<j>> \in Seq(Jobs) /\ Len(<<j>>) = 1 /\ <<j>>[1] = j
    OBVIOUS
  <2>3. ASSUME NEW k \in 1 .. Len(<<j>>) PROVE k = 1 /\ <<j>>[k] = j
    BY <2>2
  <2>4. ASSUME NEW i \in 1 .. Len(<<j>>), NEW k \in 1 .. Len(<<j>>) PROVE ~(i < k)
    BY <2>2
  <2> QED
    BY <1>0, <1>1, <2>1, <2>2, <2>3, <2>4, OrderedSubmit
<1>2. CASE Hold(fault)
  <2> DEFINE s == [f EXCEPT !.kind = "skipped"]
  <2>1. s \in Jobs /\ s.chain = f.chain
    BY <1>0 DEF Jobs
  <2>2. queue' = queue \/ queue' = Append(queue, s)
    BY <1>2 DEF Hold, f
  <2> HIDE DEF s
  <2>3. Append(queue, s) = queue \o <<s>>
    BY <1>0, <2>1
  <2> QED
    BY <1>1, <2>1, <2>2, <2>3
<1>3. CASE Drop(fault)
  <2> DEFINE d == [f EXCEPT !.kind = "dropped"]
  <2>1. d \in Jobs /\ d.chain = f.chain
    BY <1>0 DEF Jobs
  <2>2. SubmitAll(<<d>>)
    BY <1>3 DEF Drop, f
  <2> HIDE DEF d
  <2>3. queue' = queue \/ queue' = queue \o <<d>>
    BY <2>2 DEF SubmitAll
  <2> QED
    BY <1>1, <2>1, <2>3
<1>4. CASE SendAll(fault)
  <2>0. /\ Copies(fault) \in Seq(Jobs) /\ Released \in Seq(Jobs)
        /\ Len(Copies(fault)) \in Nat /\ Len(Released) \in Nat
    BY <1>0, CopiesType, ReleasedType, LenProperties
  <2>1. \A k \in 1 .. Len(Released) : ~Plain(Released[k])
    <3>1. \A k \in 1 .. Len(Released) : Released[k] \in Entries(Released)
      BY DEF Entries
    <3>2. \A j \in Entries(Released) : j.chaos = "released"
      BY ReleasedEntries
    <3> QED
      BY <3>1, <3>2 DEF Plain
  <2>2. CASE fault = "delay"
    <3>1. queue' = queue \/ queue' = queue \o Released
      BY <1>4, <2>2 DEF SendAll, SubmitAll
    <3> QED
      BY <1>0, <2>0, <2>1, <3>1, OrderedSubmit
  <2>3. CASE fault # "delay"
    <3> DEFINE jobs == Copies(fault) \o Released
    <3>1. queue' = queue \/ queue' = queue \o jobs
      BY <1>4, <2>3 DEF SendAll, SubmitAll
    <3>2. /\ jobs \in Seq(Jobs) /\ Len(jobs) = Len(Copies(fault)) + Len(Released)
          /\ \A k \in 1 .. Len(jobs) :
               \/ k \in 1 .. Len(Copies(fault)) /\ jobs[k] = Copies(fault)[k]
               \/ k - Len(Copies(fault)) \in 1 .. Len(Released)
                    /\ jobs[k] = Released[k - Len(Copies(fault))]
      BY <2>0, ConcatProperties
    <3> HIDE DEF jobs
    <3>3. \A k \in 1 .. Len(jobs) :
            Plain(jobs[k]) => k \in 1 .. Len(Copies(fault)) /\ jobs[k] = Copies(fault)[k]
      BY <2>1, <3>2
    <3>4. ASSUME NEW k \in 1 .. Len(Copies(fault))
          PROVE  Copies(fault)[k].chain = [event |-> emitted, sub |-> Foremost, copy |-> k - 1]
      BY <1>0, CopiesType
    <3>5. \A k \in 1 .. Len(jobs) :
            Plain(jobs[k]) => \A chain \in chains : Before(chain, jobs[k].chain)
      <4> SUFFICES ASSUME NEW k \in 1 .. Len(jobs), Plain(jobs[k]), NEW chain \in chains
                   PROVE  Before(chain, jobs[k].chain)
        OBVIOUS
      <4>0. jobs[k].chain = [event |-> emitted, sub |-> Foremost, copy |-> k - 1]
        BY <3>3, <3>4
      <4>1. jobs[k].chain.event = emitted /\ jobs[k].chain.sub = Foremost
        BY <4>0
      <4> QED
        BY <1>0, <4>1, NewGoesLast
    <3>6. \A i, k \in 1 .. Len(jobs) :
            i < k /\ Plain(jobs[i]) /\ Plain(jobs[k]) => Before(jobs[i].chain, jobs[k].chain)
      <4> SUFFICES ASSUME NEW i \in 1 .. Len(jobs), NEW k \in 1 .. Len(jobs), i < k,
                          Plain(jobs[i]), Plain(jobs[k])
                   PROVE  Before(jobs[i].chain, jobs[k].chain)
        OBVIOUS
      <4>1. /\ jobs[i].chain = [event |-> emitted, sub |-> Foremost, copy |-> i - 1]
            /\ jobs[k].chain = [event |-> emitted, sub |-> Foremost, copy |-> k - 1]
        BY <3>3, <3>4
      <4>2. i - 1 < k - 1
        BY <2>0, <3>2
      <4> QED
        BY <4>1, <4>2 DEF Before
    <3> QED
      BY <1>0, <3>1, <3>2, <3>5, <3>6, OrderedSubmit
  <2> QED
    BY <2>2, <2>3
<1> QED
  BY <1>2, <1>3, <1>4 DEF QueueNext

LEMMA OrderedStep == Inv /\ Known /\ Ordered /\ [Next]_vars => Ordered'
<1> SUFFICES ASSUME Types, Hands, Sorts, Placed, Known, Ordered, Kinds PROVE Ordered'
  BY StepKinds DEF Inv
<1>0. queue \in Seq(Jobs) /\ Len(queue) \in Nat /\ (wpc = "idle" <=> inHand = NoJob)
  BY LenProperties DEF Types, WorkerTypes
<1>1. ASSUME trail' = trail, queue' = queue, InWork' => InWork /\ inHand' = inHand
      PROVE  Ordered'
  BY <1>1 DEF Ordered
<1>2. CASE Still
  <2>1. InWork' => InWork
    BY <1>2 DEF Still, InWork
  <2> QED
    BY <1>1, <1>2, <2>1 DEF Still
<1>3. CASE TakeJob
  <2>1. /\ queue # <<>> /\ inHand' = Head(queue) /\ queue' = Tail(queue) /\ trail' = trail
    BY <1>3, TrailKept DEF TakeJob, records
  <2>2. /\ inHand' = queue[1] /\ Len(queue') = Len(queue) - 1 /\ Len(queue) >= 1
        /\ \A k \in 1 .. Len(queue') : queue'[k] = queue[k + 1] /\ k + 1 \in 1 .. Len(queue)
    BY <1>0, <2>1, EntriesTail
  <2>3. ASSUME NEW i \in 1 .. Len(queue'), NEW k \in 1 .. Len(queue'), i < k, Plain(queue'[i]),
               Plain(queue'[k])
        PROVE  Before(queue'[i].chain, queue'[k].chain)
    <3>1. i + 1 < k + 1
      BY <1>0, <2>2, <2>3
    <3> QED
      BY <2>2, <2>3, <3>1 DEF Ordered
  <2>4. ASSUME NEW k \in 1 .. Len(queue'), Plain(inHand'), Plain(queue'[k])
        PROVE  Before(inHand'.chain, queue'[k].chain)
    <3>1. 1 \in 1 .. Len(queue) /\ k + 1 \in 1 .. Len(queue) /\ 1 < k + 1
      BY <1>0, <2>2
    <3> QED
      BY <2>2, <2>4, <3>1 DEF Ordered
  <2>5. ASSUME NEW i \in 1 .. Len(trail), NEW k \in 1 .. Len(queue'), Plain(trail[i]),
               Plain(queue'[k])
        PROVE  Before(trail[i].chain, queue'[k].chain)
    BY <2>2, <2>5 DEF Ordered
  <2>6. ASSUME NEW i \in 1 .. Len(trail), Plain(trail[i]), Plain(inHand')
        PROVE  Before(trail[i].chain, inHand'.chain)
    <3>1. 1 \in 1 .. Len(queue)
      BY <1>0, <2>2
    <3> QED
      BY <2>2, <2>6, <3>1 DEF Ordered
  <2>7. \A i, k \in 1 .. Len(trail) :
          i < k /\ Plain(trail[i]) /\ Plain(trail[k]) => Before(trail[i].chain, trail[k].chain)
    BY DEF Ordered
  <2> QED
    BY <2>1, <2>3, <2>4, <2>5, <2>6, <2>7 DEF Ordered, InWork
<1>4. ASSUME wpc \notin {"idle", "scheduling"}, NEW r \in Records, trail' = Append(trail, r),
             r.chain = inHand.chain, r.chaos = inHand.chaos, queue' = queue, ~InWork'
      PROVE  Ordered'
  <2>1. /\ Len(trail') = Len(trail) + 1 /\ Len(trail) \in Nat
        /\ \A k \in 1 .. Len(trail) : trail'[k] = trail[k]
        /\ trail'[Len(trail) + 1] = r
    BY <1>4, TrailAppend
  <2>2. Plain(r) => InWork
    BY <1>4 DEF InWork, Plain
  <2>3. ASSUME NEW i \in 1 .. Len(trail'), NEW k \in 1 .. Len(queue), Plain(trail'[i]),
               Plain(queue[k])
        PROVE  Before(trail'[i].chain, queue[k].chain)
    <3>1. CASE i \in 1 .. Len(trail)
      BY <2>1, <2>3, <3>1 DEF Ordered
    <3>2. CASE i = Len(trail) + 1
      BY <1>4, <2>1, <2>2, <2>3, <3>2 DEF Ordered
    <3> QED
      BY <2>1, <3>1, <3>2
  <2>4. ASSUME NEW i \in 1 .. Len(trail'), NEW k \in 1 .. Len(trail'), i < k, Plain(trail'[i]),
               Plain(trail'[k])
        PROVE  Before(trail'[i].chain, trail'[k].chain)
    <3>0. i \in 1 .. Len(trail) /\ trail'[i] = trail[i]
      BY <2>1, <2>4
    <3>1. CASE k \in 1 .. Len(trail)
      BY <2>1, <2>4, <3>0, <3>1 DEF Ordered
    <3>2. CASE k = Len(trail) + 1
      BY <1>4, <2>1, <2>2, <2>4, <3>0, <3>2 DEF Ordered
    <3> QED
      BY <2>1, <3>1, <3>2
  <2> QED
    BY <1>4, <2>3, <2>4 DEF Ordered
<1>5. ASSUME NEW status \in {"delivered", "exhausted", "skipped", "dropped"}, Ends(status)
      PROVE  Ordered'
  <2>1. /\ wpc \notin {"idle", "scheduling"} /\ wpc' = "idle" /\ Record(status, 0) /\ past' = past
        /\ queue' = queue
    BY <1>5 DEF Ends, FinishJob
  <2>2. PICK r \in Records : /\ trail' = Append(trail, r) /\ r.chain = inHand.chain
                             /\ r.chaos = inHand.chaos
    BY <2>1, TrailGrows DEF Statuses
  <2> QED
    BY <1>4, <2>1, <2>2 DEF InWork
<1>6. CASE RecordFailed
  <2>1. /\ wpc \notin {"idle", "scheduling"} /\ wpc' = "scheduling" /\ past' = past
        /\ schedule[inHand.retry + 1] \in Nat /\ Record("failed", schedule[inHand.retry + 1])
        /\ queue' = queue
    BY <1>6, HandType DEF RecordFailed, Types, AdminTypes
  <2>2. PICK r \in Records : /\ trail' = Append(trail, r) /\ r.chain = inHand.chain
                             /\ r.chaos = inHand.chaos
    BY <2>1, TrailGrows DEF Statuses
  <2> QED
    BY <1>4, <2>1, <2>2 DEF InWork
<1>7. CASE Raises \/ ScheduleRetry
  BY <1>1, <1>7, TrailKept DEF Raises, JobRaises, ScheduleRetry, FinishJob, InWork, records
<1>8. ASSUME NEW job \in Jobs, job \in ClockJobs, SubmitAll(<<job>>), trail' = trail,
             UNCHANGED <<inHand, wpc>>
      PROVE  Ordered'
  <2>1. ~Plain(job)
    BY <1>8 DEF Sorts, Plain
  <2>2. queue' = queue \/ queue' = queue \o <<job>>
    BY <1>8 DEF SubmitAll
  <2>3. <<job>> \in Seq(Jobs) /\ Len(<<job>>) = 1 /\ <<job>>[1] = job
    OBVIOUS
  <2>4. \A k \in 1 .. Len(<<job>>) : ~Plain(<<job>>[k])
    BY <2>1, <2>3
  <2> QED
    BY <1>8, <2>2, <2>3, <2>4, OrderedSubmit
<1>9. ASSUME NEW job \in popped, TimerFire(job) PROVE Ordered'
  BY <1>8, <1>9, TrailKept DEF TimerFire, worker, records, ClockJobs, Types, ClockTypes
<1>10. ASSUME NEW c \in Callers, Fires(c) PROVE Ordered'
  <2>1. caller[c].hand \in ClockJobs
    BY <1>10, JobType DEF Fires, Firing, ClockJobs
  <2> QED
    BY <1>8, <1>10, <2>1, TrailKept DEF Fires, worker, records
<1>11. ASSUME NEW i \in 1 .. Len(timers), TimerPop(i) PROVE Ordered'
  BY <1>1, <1>11, TrailKept DEF TimerPop, worker, records, InWork
<1>12. ASSUME NEW c \in Callers, NEW i \in 1 .. Len(timers), Scans(c, i) \/ Cancels(c, i)
       PROVE  Ordered'
  BY <1>1, <1>12, TrailKept DEF Scans, Cancels, worker, records, InWork
<1> QED
  BY <1>2, <1>3, <1>5, <1>6, <1>7, <1>9, <1>10, <1>11, <1>12, OrderedQueueNext DEF Kinds

(* The lock around the fan-out and the FIFO worker keep first attempts     *)
(* that no fault moved in the order of events, subscribers and copies.     *)
THEOREM FirstAttemptsAreOrdered == Spec => []FirstAttemptsInOrder
<1>1. Init => Known /\ Ordered
  <2> SUFFICES ASSUME Init PROVE Known /\ Ordered
    OBVIOUS
  <2>1. trail = <<>> /\ queue = <<>> /\ Waiting = {} /\ wpc = "idle"
    BY EmptyTrail DEF Init
  <2> QED
    BY <2>1 DEF Known, Ordered
<1>2. Inv /\ Known /\ Ordered /\ [Next]_vars => Known' /\ Ordered'
  BY KnownStep, OrderedStep
<1>3. Ordered => FirstAttemptsInOrder
  BY DEF Ordered, FirstAttemptsInOrder, Plain
<1> QED
  BY <1>1, <1>2, <1>3, InvHolds, PTL DEF Spec

-----------------------------------------------------------------------------
(* Without webhook.delay: what lets a held delivery go comes before it.    *)
Overtaken(chain) ==
  \/ \E i \in 1 .. Len(trail) : /\ Before(chain, trail[i].chain)
                                /\ trail[i].status \notin {"skipped", "dropped"}
  \/ \E other \in failures : Before(chain, other)

(* The delivery in hand is yet to be recorded. *)
AtWork == wpc \notin {"idle", "scheduling"}

Seconds ==
  /\ HeldGoesSecond
  /\ AtWork /\ inHand.chaos = "released" => Overtaken(inHand.chain)
  /\ \A k \in 1 .. Len(queue) :
       queue[k].chaos = "released" =>
         \/ Overtaken(queue[k].chain)
         \/ AtWork /\ inHand.kind = "attempt" /\ Before(queue[k].chain, inHand.chain)
         \/ \E m \in 1 .. k - 1 : /\ queue[m].kind = "attempt"
                                  /\ Before(queue[k].chain, queue[m].chain)

LEMMA OvertakenGrows ==
  ASSUME Types, failures \subseteq failures',
         trail' = trail \/ \E r \in Records : trail' = Append(trail, r),
         NEW chain, Overtaken(chain)
  PROVE  Overtaken(chain)'
<1>1. Len(trail') >= Len(trail) /\ Len(trail) \in Nat /\ Len(trail') \in Nat
      /\ \A k \in 1 .. Len(trail) : trail'[k] = trail[k]
  BY TrailAppend, TrailType, LenProperties
<1>2. CASE \E other \in failures : Before(chain, other)
  BY <1>2 DEF Overtaken
<1>3. ASSUME NEW i \in 1 .. Len(trail), Before(chain, trail[i].chain),
             trail[i].status \notin {"skipped", "dropped"}
      PROVE  Overtaken(chain)'
  <2>1. i \in 1 .. Len(trail') /\ trail'[i] = trail[i]
    BY <1>1
  <2> QED
    BY <1>3, <2>1 DEF Overtaken
<1> QED
  BY <1>2, <1>3 DEF Overtaken

LEMMA SecondSame ==
  ASSUME Types, HeldGoesSecond, failures \subseteq failures', trail' = trail
  PROVE  HeldGoesSecond'
BY DEF HeldGoesSecond

LEMMA SecondGrows ==
  ASSUME Types, HeldGoesSecond, failures' = failures, NEW r \in Records,
         trail' = Append(trail, r), r.chaos = "released" => Overtaken(r.chain)
  PROVE  HeldGoesSecond'
<1>0. /\ Len(trail') = Len(trail) + 1 /\ Len(trail) \in Nat
      /\ \A k \in 1 .. Len(trail) : trail'[k] = trail[k]
      /\ trail'[Len(trail) + 1] = r
  BY TrailAppend
<1> SUFFICES ASSUME NEW k \in 1 .. Len(trail'), trail'[k].chaos = "released"
             PROVE  \/ \E i \in 1 .. k - 1 : /\ Before(trail'[k].chain, trail'[i].chain)
                                             /\ trail'[i].status \notin {"skipped", "dropped"}
                    \/ \E chain \in failures : Before(trail'[k].chain, chain)
  BY DEF HeldGoesSecond
<1>1. CASE k \in 1 .. Len(trail)
  <2>1. \A i \in 1 .. k - 1 : i \in 1 .. Len(trail)
    BY <1>0, <1>1
  <2> QED
    BY <1>0, <1>1, <2>1 DEF HeldGoesSecond
<1>2. CASE k = Len(trail) + 1
  <2>1. \A i \in 1 .. Len(trail) : i \in 1 .. k - 1
    BY <1>0, <1>2
  <2>2. trail'[k] = r
    BY <1>0, <1>2
  <2> QED
    BY <1>0, <2>1, <2>2 DEF Overtaken
<1>3. k \in 1 .. Len(trail) \/ k = Len(trail) + 1
  BY <1>0
<1> QED
  BY <1>1, <1>2, <1>3

(* The queue as it was, after a step of the worker. *)
LEMMA SecondsWorker ==
  ASSUME Types, Seconds, queue' = queue, failures \subseteq failures',
         trail' = trail \/ \E r \in Records : trail' = Append(trail, r),
         HeldGoesSecond', ~AtWork',
         AtWork /\ inHand.kind = "attempt" =>
           \A chain : Before(chain, inHand.chain) => Overtaken(chain)'
  PROVE  Seconds'
<1>1. ASSUME NEW k \in 1 .. Len(queue), queue[k].chaos = "released"
      PROVE  \/ Overtaken(queue[k].chain)'
             \/ \E m \in 1 .. k - 1 : /\ queue[m].kind = "attempt"
                                      /\ Before(queue[k].chain, queue[m].chain)
  <2>1. ASSUME NEW chain, Overtaken(chain) PROVE Overtaken(chain)'
    BY <2>1, OvertakenGrows
  <2>2. ASSUME NEW chain, chain = queue[k].chain, Overtaken(chain) PROVE Overtaken(queue[k].chain)'
    <3>1. Overtaken(chain)'
      BY <2>1, <2>2
    <3> QED
      BY <2>2, <3>1
  <2>3. ASSUME NEW chain, chain = queue[k].chain, AtWork, inHand.kind = "attempt",
               Before(chain, inHand.chain)
        PROVE  Overtaken(queue[k].chain)'
    <3>1. Overtaken(chain)'
      BY <2>3
    <3> QED
      BY <2>3, <3>1
  <2> QED
    BY <1>1, <2>2, <2>3 DEF Seconds
<1> QED
  BY <1>1 DEF Seconds

(* New jobs at the end of the queue. *)
LEMMA SecondsSubmit ==
  ASSUME Types, Seconds, NEW jobs \in Seq(Jobs), queue' = queue \/ queue' = queue \o jobs,
         UNCHANGED <<inHand, wpc, failures>>, trail' = trail,
         \A k \in 1 .. Len(jobs) :
           jobs[k].chaos = "released" =>
             \E m \in 1 .. k - 1 : /\ jobs[m].kind = "attempt"
                                   /\ Before(jobs[k].chain, jobs[m].chain)
  PROVE  Seconds'
<1>0. HeldGoesSecond' /\ \A chain : Overtaken(chain)' <=> Overtaken(chain)
  BY SecondSame DEF Seconds, Overtaken
<1>1. CASE queue' = queue
  BY <1>0, <1>1 DEF Seconds, AtWork
<1>2. CASE queue' = queue \o jobs
  <2>0. queue \in Seq(Jobs) /\ Len(queue) \in Nat /\ Len(jobs) \in Nat
    BY LenProperties DEF Types, WorkerTypes
  <2>1. /\ Len(queue') = Len(queue) + Len(jobs)
        /\ \A k \in 1 .. Len(queue) : queue'[k] = queue[k]
        /\ \A k \in 1 .. Len(jobs) : queue'[Len(queue) + k] = jobs[k]
    BY <1>2, <2>0, ConcatProperties
  <2>2. ASSUME NEW k \in 1 .. Len(queue'), queue'[k].chaos = "released"
        PROVE  \/ Overtaken(queue'[k].chain)
               \/ AtWork /\ inHand.kind = "attempt" /\ Before(queue'[k].chain, inHand.chain)
               \/ \E m \in 1 .. k - 1 : /\ queue'[m].kind = "attempt"
                                        /\ Before(queue'[k].chain, queue'[m].chain)
    <3>1. CASE k \in 1 .. Len(queue)
      <4>1. \A m \in 1 .. k - 1 : queue'[m] = queue[m]
        BY <2>0, <2>1, <3>1
      <4> QED
        BY <2>1, <2>2, <3>1, <4>1 DEF Seconds
    <3>2. CASE k \notin 1 .. Len(queue)
      <4> DEFINE n == k - Len(queue)
      <4>1. n \in 1 .. Len(jobs) /\ queue'[k] = jobs[n]
        <5>1. k - Len(queue) \in 1 .. Len(jobs) /\ Len(queue) + (k - Len(queue)) = k
          BY <2>0, <2>1, <3>2
        <5> QED
          BY <2>1, <5>1
      <4>2. PICK m \in 1 .. n - 1 : jobs[m].kind = "attempt" /\ Before(jobs[n].chain, jobs[m].chain)
        BY <2>2, <4>1
      <4>3. m \in 1 .. Len(jobs) /\ Len(queue) + m \in 1 .. k - 1
        BY <2>0, <4>1
      <4>4. queue'[Len(queue) + m] = jobs[m]
        BY <2>1, <4>3
      <4> QED
        BY <4>1, <4>2, <4>3, <4>4
    <3> QED
      BY <3>1, <3>2
  <2>3. \A k \in 1 .. Len(queue') :
          queue'[k].chaos = "released" =>
            \/ \E i \in 1 .. Len(trail') : /\ Before(queue'[k].chain, trail'[i].chain)
                                           /\ trail'[i].status \notin {"skipped", "dropped"}
            \/ \E other \in failures' : Before(queue'[k].chain, other)
            \/ AtWork /\ inHand.kind = "attempt" /\ Before(queue'[k].chain, inHand.chain)
            \/ \E m \in 1 .. k - 1 : /\ queue'[m].kind = "attempt"
                                     /\ Before(queue'[k].chain, queue'[m].chain)
    BY <2>2 DEF Overtaken
  <2>4. AtWork /\ inHand.chaos = "released" =>
          \/ \E i \in 1 .. Len(trail') : /\ Before(inHand.chain, trail'[i].chain)
                                         /\ trail'[i].status \notin {"skipped", "dropped"}
          \/ \E other \in failures' : Before(inHand.chain, other)
    BY DEF Seconds, Overtaken
  <2> QED
    BY <1>0, <2>3, <2>4 DEF Seconds, AtWork, Overtaken
<1> QED
  BY <1>1, <1>2

LEMMA SecondsQueueNext ==
  ASSUME "delay" \notin Faults, Types, Sorts, Placed, Known, Seconds,
         NEW fault \in Faults, QueueNext(fault)
  PROVE  Seconds'
<1> DEFINE f == First(fault)
<1>0. /\ fanout # {} /\ queue \in Seq(Jobs) /\ f \in Jobs /\ f.chaos = fault
      /\ fault \notin {"released", "delay"}
      /\ UNCHANGED <<inHand, wpc, failures>> /\ trail' = trail
  BY FirstType, TrailKept, DeliveryAssumption DEF QueueNext, worker, records, Types, WorkerTypes,
     AllFaults
<1> HIDE DEF f
<1>1. ASSUME NEW j \in Jobs, j.chaos = fault, queue' = queue \/ queue' = queue \o <<j>>
      PROVE  Seconds'
  <2>1. <<j>> \in Seq(Jobs) /\ Len(<<j>>) = 1 /\ <<j>>[1] = j
    OBVIOUS
  <2>2. \A k \in 1 .. Len(<<j>>) : <<j>>[k].chaos # "released"
    BY <1>0, <1>1, <2>1
  <2> QED
    BY <1>0, <1>1, <2>1, <2>2, SecondsSubmit
<1>2. CASE Hold(fault)
  <2> DEFINE s == [f EXCEPT !.kind = "skipped"]
  <2>1. s \in Jobs /\ s.chaos = fault
    BY <1>0 DEF Jobs
  <2>2. queue' = queue \/ queue' = Append(queue, s)
    BY <1>2 DEF Hold, f
  <2> HIDE DEF s
  <2>3. Append(queue, s) = queue \o <<s>>
    BY <1>0, <2>1
  <2> QED
    BY <1>1, <2>1, <2>2, <2>3
<1>3. CASE Drop(fault)
  <2> DEFINE d == [f EXCEPT !.kind = "dropped"]
  <2>1. d \in Jobs /\ d.chaos = fault
    BY <1>0 DEF Jobs
  <2>2. SubmitAll(<<d>>)
    BY <1>3 DEF Drop, f
  <2> HIDE DEF d
  <2>3. queue' = queue \/ queue' = queue \o <<d>>
    BY <2>2 DEF SubmitAll
  <2> QED
    BY <1>1, <2>1, <2>3
<1>4. CASE SendAll(fault)
  <2> DEFINE jobs == Copies(fault) \o Released
  <2>0. /\ Copies(fault) \in Seq(Jobs) /\ Released \in Seq(Jobs)
        /\ Len(Copies(fault)) \in Nat /\ Len(Released) \in Nat /\ Len(Copies(fault)) >= 1
    BY <1>0, CopiesType, ReleasedType, LenProperties
  <2>1. queue' = queue \/ queue' = queue \o jobs
    BY <1>0, <1>4 DEF SendAll, SubmitAll
  <2>2. /\ jobs \in Seq(Jobs) /\ Len(jobs) = Len(Copies(fault)) + Len(Released)
        /\ \A k \in 1 .. Len(jobs) :
             \/ k \in 1 .. Len(Copies(fault)) /\ jobs[k] = Copies(fault)[k]
             \/ k - Len(Copies(fault)) \in 1 .. Len(Released)
                  /\ jobs[k] = Released[k - Len(Copies(fault))]
    BY <2>0, ConcatProperties
  <2> HIDE DEF jobs
  <2>3. \A k \in 1 .. Len(Copies(fault)) : Copies(fault)[k] \in Entries(Copies(fault))
    BY DEF Entries
  <2>4. \A j \in Entries(Copies(fault)) :
          j.kind = "attempt" /\ j.chaos # "released" /\ j.chain.event = emitted /\ j.chain.sub = Foremost
    BY <1>0, CopiesEntries
  <2>5. jobs[1].kind = "attempt" /\ jobs[1].chain.event = emitted /\ jobs[1].chain.sub = Foremost
    <3>1. 1 \in 1 .. Len(Copies(fault)) /\ jobs[1] = Copies(fault)[1]
      BY <2>0, <2>2
    <3> QED
      BY <2>3, <2>4, <3>1
  <2>6. ASSUME NEW k \in 1 .. Len(jobs), jobs[k].chaos = "released"
        PROVE  \E m \in 1 .. k - 1 : /\ jobs[m].kind = "attempt"
                                     /\ Before(jobs[k].chain, jobs[m].chain)
    <3>1. k - Len(Copies(fault)) \in 1 .. Len(Released) /\ jobs[k] = Released[k - Len(Copies(fault))]
      BY <2>2, <2>3, <2>4, <2>6
    <3>2. jobs[k] \in Entries(Released)
      BY <3>1 DEF Entries
    <3>3. held # NoJob /\ jobs[k].chain = held.chain
      BY <3>2, ReleasedEntries
    <3>4. held.chain \in chains
      BY <3>3 DEF Known, Waiting, InSlot
    <3>5. Before(jobs[k].chain, jobs[1].chain)
      BY <1>0, <2>5, <3>3, <3>4, NewGoesLast
    <3>6. 1 \in 1 .. k - 1
      BY <2>0, <2>6, <3>1
    <3> QED
      BY <2>5, <3>5, <3>6
  <2> QED
    BY <1>0, <2>1, <2>2, <2>6, SecondsSubmit
<1> QED
  BY <1>2, <1>3, <1>4 DEF QueueNext

LEMMA SecondsStep ==
  ASSUME "delay" \notin Faults, Inv, Known, Seconds, [Next]_vars
  PROVE  Seconds'
<1> SUFFICES ASSUME Types, Hands, Sorts, Placed, Known, Seconds, Kinds PROVE Seconds'
  BY StepKinds DEF Inv
<1>0. queue \in Seq(Jobs) /\ Len(queue) \in Nat /\ (wpc = "idle" <=> inHand = NoJob)
  BY LenProperties DEF Types, WorkerTypes
<1>1. ASSUME trail' = trail, queue' = queue, inHand' = inHand, failures' = failures,
             AtWork' <=> AtWork
      PROVE  Seconds'
  <2>1. HeldGoesSecond' /\ \A chain : Overtaken(chain)' <=> Overtaken(chain)
    BY <1>1, SecondSame DEF Seconds, Overtaken
  <2> QED
    BY <1>1, <2>1 DEF Seconds, Overtaken
<1>2. CASE Still
  BY <1>1, <1>2 DEF Still, AtWork
<1>3. CASE TakeJob
  <2>1. /\ queue # <<>> /\ inHand' = Head(queue) /\ queue' = Tail(queue) /\ trail' = trail
        /\ wpc = "idle" /\ wpc' = "started" /\ failures' = failures
    BY <1>3, TrailKept DEF TakeJob, records
  <2>2. /\ inHand' = queue[1] /\ Len(queue') = Len(queue) - 1 /\ Len(queue) >= 1
        /\ \A k \in 1 .. Len(queue') : queue'[k] = queue[k + 1] /\ k + 1 \in 1 .. Len(queue)
    BY <1>0, <2>1, EntriesTail
  <2>3. HeldGoesSecond'
    BY <2>1, SecondSame DEF Seconds
  <2>4. ~AtWork /\ AtWork'
    BY <2>1 DEF AtWork
  <2>5. inHand'.chaos = "released" => Overtaken(inHand'.chain)
    <3>1. 1 \in 1 .. Len(queue) /\ \A m : m \notin 1 .. 1 - 1
      BY <1>0, <2>2
    <3> QED
      BY <2>2, <2>4, <3>1 DEF Seconds
  <2>6. ASSUME NEW k \in 1 .. Len(queue'), queue'[k].chaos = "released"
        PROVE  \/ Overtaken(queue'[k].chain)
               \/ inHand'.kind = "attempt" /\ Before(queue'[k].chain, inHand'.chain)
               \/ \E m \in 1 .. k - 1 : /\ queue'[m].kind = "attempt"
                                        /\ Before(queue'[k].chain, queue'[m].chain)
    <3>1. queue'[k] = queue[k + 1] /\ k + 1 \in 1 .. Len(queue)
      BY <2>2
    <3>2. \/ Overtaken(queue[k + 1].chain)
          \/ \E m \in 1 .. k : /\ queue[m].kind = "attempt"
                               /\ Before(queue[k + 1].chain, queue[m].chain)
      <4>1. (k + 1) - 1 = k
        BY <2>2
      <4> QED
        BY <2>4, <2>6, <3>1, <4>1 DEF Seconds
    <3>3. ASSUME NEW m \in 1 .. k, queue[m].kind = "attempt", Before(queue[k + 1].chain, queue[m].chain)
          PROVE  \/ inHand'.kind = "attempt" /\ Before(queue'[k].chain, inHand'.chain)
                 \/ \E n \in 1 .. k - 1 : /\ queue'[n].kind = "attempt"
                                          /\ Before(queue'[k].chain, queue'[n].chain)
      <4>1. CASE m = 1
        BY <2>2, <3>1, <3>3, <4>1
      <4>2. CASE m # 1
        <5>1. m - 1 \in 1 .. k - 1 /\ m - 1 \in 1 .. Len(queue') /\ (m - 1) + 1 = m
          BY <1>0, <2>2, <4>2
        <5>2. queue'[m - 1] = queue[m]
          BY <2>2, <5>1
        <5> QED
          BY <3>1, <3>3, <5>1, <5>2
      <4> QED
        BY <4>1, <4>2
    <3> QED
      BY <3>1, <3>2, <3>3
  <2>7. /\ \A k \in 1 .. Len(queue') :
             queue'[k].chaos = "released" =>
               \/ \E i \in 1 .. Len(trail') : /\ Before(queue'[k].chain, trail'[i].chain)
                                              /\ trail'[i].status \notin {"skipped", "dropped"}
               \/ \E other \in failures' : Before(queue'[k].chain, other)
               \/ inHand'.kind = "attempt" /\ Before(queue'[k].chain, inHand'.chain)
               \/ \E m \in 1 .. k - 1 : /\ queue'[m].kind = "attempt"
                                        /\ Before(queue'[k].chain, queue'[m].chain)
        /\ inHand'.chaos = "released" =>
             \/ \E i \in 1 .. Len(trail') : /\ Before(inHand'.chain, trail'[i].chain)
                                            /\ trail'[i].status \notin {"skipped", "dropped"}
             \/ \E other \in failures' : Before(inHand'.chain, other)
    BY <2>1, <2>5, <2>6 DEF Overtaken
  <2> QED
    BY <2>3, <2>4, <2>7 DEF Seconds, Overtaken
<1>4. ASSUME AtWork, NEW r \in Records, trail' = Append(trail, r), r.chain = inHand.chain,
             r.chaos = inHand.chaos, inHand.kind = "attempt" => r.status \notin {"skipped", "dropped"},
             queue' = queue, failures' = failures, ~AtWork'
      PROVE  Seconds'
  <2>1. HeldGoesSecond'
    BY <1>4, SecondGrows DEF Seconds
  <2>2. ASSUME inHand.kind = "attempt", NEW chain, Before(chain, inHand.chain)
        PROVE  Overtaken(chain)'
    <3>1. Len(trail') = Len(trail) + 1 /\ Len(trail) \in Nat /\ trail'[Len(trail) + 1] = r
      BY <1>4, TrailAppend
    <3>2. Len(trail) + 1 \in 1 .. Len(trail')
      BY <3>1
    <3> QED
      BY <1>4, <2>2, <3>1, <3>2 DEF Overtaken
  <2> QED
    BY <1>4, <2>1, <2>2, SecondsWorker
<1>5. ASSUME NEW status \in {"delivered", "exhausted", "skipped", "dropped"}, Ends(status)
      PROVE  Seconds'
  <2>1. /\ AtWork /\ ~AtWork' /\ wpc # "idle" /\ Record(status, 0) /\ past' = past
        /\ queue' = queue /\ failures' = failures
        /\ inHand.kind = "attempt" => status \notin {"skipped", "dropped"}
    BY <1>5 DEF Ends, FinishJob, AtWork
  <2>2. PICK r \in Records : /\ trail' = Append(trail, r) /\ r.chain = inHand.chain
                             /\ r.chaos = inHand.chaos /\ r.status = status
    BY <2>1, TrailGrows DEF Statuses
  <2> QED
    BY <1>4, <2>1, <2>2
<1>6. CASE RecordFailed
  <2>1. /\ AtWork /\ ~AtWork' /\ wpc # "idle" /\ past' = past
        /\ schedule[inHand.retry + 1] \in Nat /\ Record("failed", schedule[inHand.retry + 1])
        /\ queue' = queue /\ failures' = failures
    BY <1>6, HandType DEF RecordFailed, Types, AdminTypes, AtWork
  <2>2. PICK r \in Records : /\ trail' = Append(trail, r) /\ r.chain = inHand.chain
                             /\ r.chaos = inHand.chaos /\ r.status = "failed"
    BY <2>1, TrailGrows DEF Statuses
  <2> QED
    BY <1>4, <2>1, <2>2
<1>7. CASE Raises
  <2>1. /\ queue' = queue /\ trail' = trail /\ failures' = failures \cup {inHand.chain} /\ ~AtWork'
    BY <1>7, TrailKept DEF Raises, JobRaises, FinishJob, AtWork
  <2>2. HeldGoesSecond'
    BY <2>1, SecondSame DEF Seconds
  <2>3. \A chain : Before(chain, inHand.chain) => Overtaken(chain)'
    BY <2>1 DEF Overtaken
  <2> QED
    BY <2>1, <2>2, <2>3, SecondsWorker
<1>8. CASE ScheduleRetry
  <2>1. /\ queue' = queue /\ trail' = trail /\ failures' = failures /\ ~AtWork /\ ~AtWork'
    BY <1>8, TrailKept DEF ScheduleRetry, FinishJob, AtWork, records
  <2>2. HeldGoesSecond'
    BY <2>1, SecondSame DEF Seconds
  <2> QED
    BY <2>1, <2>2, SecondsWorker
<1>9. ASSUME NEW job \in Jobs, job \in ClockJobs, SubmitAll(<<job>>), trail' = trail,
             UNCHANGED <<inHand, wpc, failures>>
      PROVE  Seconds'
  <2>1. job.chaos # "released"
    BY <1>9 DEF Sorts
  <2>2. queue' = queue \/ queue' = queue \o <<job>>
    BY <1>9 DEF SubmitAll
  <2>3. <<job>> \in Seq(Jobs) /\ Len(<<job>>) = 1 /\ <<job>>[1] = job
    OBVIOUS
  <2>4. \A k \in 1 .. Len(<<job>>) : <<job>>[k].chaos # "released"
    BY <2>1, <2>3
  <2> QED
    BY <1>9, <2>2, <2>3, <2>4, SecondsSubmit
<1>10. ASSUME NEW job \in popped, TimerFire(job) PROVE Seconds'
  BY <1>9, <1>10, TrailKept DEF TimerFire, worker, records, ClockJobs, Types, ClockTypes
<1>11. ASSUME NEW c \in Callers, Fires(c) PROVE Seconds'
  <2>1. caller[c].hand \in ClockJobs
    BY <1>11, JobType DEF Fires, Firing, ClockJobs
  <2> QED
    BY <1>9, <1>11, <2>1, TrailKept DEF Fires, worker, records
<1>12. ASSUME NEW i \in 1 .. Len(timers), TimerPop(i) PROVE Seconds'
  BY <1>1, <1>12, TrailKept DEF TimerPop, worker, records, AtWork
<1>13. ASSUME NEW c \in Callers, NEW i \in 1 .. Len(timers), Scans(c, i) \/ Cancels(c, i)
       PROVE  Seconds'
  BY <1>1, <1>13, TrailKept DEF Scans, Cancels, worker, records, AtWork
<1> QED
  BY <1>2, <1>3, <1>5, <1>6, <1>7, <1>8, <1>10, <1>11, <1>12, <1>13, SecondsQueueNext DEF Kinds

(* Where nothing is delayed, a delivery released from the reorder slot is  *)
(* attempted after a later one was, as docs/reference/faults.md:16 says.   *)
THEOREM HeldAreSecond == ASSUME "delay" \notin Faults PROVE Spec => []HeldGoesSecond
<1>1. Init => Known /\ Seconds
  <2> SUFFICES ASSUME Init PROVE Known /\ Seconds
    OBVIOUS
  <2>1. trail = <<>> /\ queue = <<>> /\ Waiting = {} /\ wpc = "idle"
    BY EmptyTrail DEF Init
  <2> QED
    BY <2>1 DEF Known, Seconds, HeldGoesSecond, AtWork
<1>2. Inv /\ Known /\ Seconds /\ [Next]_vars => Known' /\ Seconds'
  BY KnownStep, SecondsStep
<1>3. Seconds => HeldGoesSecond
  BY DEF Seconds
<1> QED
  BY <1>1, <1>2, <1>3, InvHolds, PTL DEF Spec

-----------------------------------------------------------------------------
(* What a call settles, on a virtual clock and with one caller at a time.  *)
Inside == {"quiesce", "look", "asleep", "move", "settle", "scan", "fire"}

(* Over, or waiting for its time on the clock. *)
Settled == Ended \cup failures \cup Chain(Timed)

(* No longer of a call's concern. *)
Aside == Gone \cup Chain(InSlot)

Settling ==
  /\ popped = {}
  /\ \A c \in Callers :
       /\ caller[c].asked \subseteq chains
       /\ caller[c].pc \in Inside => caller[c].asked \cap Aside = {}
       /\ caller[c].pc \in {"look", "scan"} => caller[c].asked \subseteq Settled
  /\ DrainSettles /\ AdvanceCollapses

(* A step of another thread than a caller's only adds to what is over or   *)
(* waits for its time, and puts nothing aside that a call can have asked   *)
(* for.                                                                    *)
Grows ==
  /\ UNCHANGED <<caller, now, popped>>
  /\ Entries(timers) \subseteq Entries(timers')
  /\ chains \subseteq chains' /\ Ended \subseteq Ended' /\ failures \subseteq failures'
  /\ Aside' \cap chains \subseteq Aside

LEMMA GoneSubmit ==
  ASSUME Types, NEW jobs \in Seq(Jobs), SubmitAll(jobs)
  PROVE  Gone' \subseteq Gone \cup {j.chain : j \in Entries(jobs)}
BY Submitted DEF Gone

LEMMA GrowsQueueNext ==
  ASSUME Types, Sorts, Placed, NEW fault \in Faults, QueueNext(fault)
  PROVE  Grows
<1> DEFINE f == First(fault)
<1>0. /\ fanout # {} /\ f \in Jobs /\ UNCHANGED <<caller, now, popped, failures>> /\ trail' = trail
      /\ f.chain.event = emitted /\ f.chain.sub = Foremost /\ timers \in Seq(Timers)
  BY FirstType, TrailKept DEF QueueNext, worker, records, Types, ClockTypes
<1>1. f.chain \notin chains
  BY <1>0, Fresh
<1>2. chains \subseteq chains' /\ Ended' = Ended /\ Entries(timers) \subseteq Entries(timers')
  <2>1. timers' = timers \/ \E t \in Timers : timers' = Append(timers, t)
    BY WaitingNext
  <2> QED
    BY <1>0, <2>1, WaitingNext, EntriesAppend DEF Ended
<1> HIDE DEF f
<1>3. CASE Hold(fault)
  <2>1. held' = f /\ (lost' = lost \/ (held # NoJob /\ Lose({held}, "overwritten")))
    BY <1>3 DEF Hold, f
  <2>2. Chain(InSlot') \subseteq {f.chain}
    BY <2>1 DEF InSlot, Chain
  <2>3. Gone' \subseteq Gone \cup Chain(InSlot)
    <3>1. held # NoJob => held.chain \in Chain(InSlot)
      BY DEF Sorts, InSlot, Chain
    <3> QED
      BY <2>1, <3>1 DEF Gone, Lose
  <2> QED
    BY <1>0, <1>1, <1>2, <2>2, <2>3 DEF Grows, Aside
<1>4. CASE Drop(fault)
  <2> DEFINE d == [f EXCEPT !.kind = "dropped"]
  <2>1. d \in Jobs /\ d.chain = f.chain
    BY <1>0 DEF Jobs
  <2>2. SubmitAll(<<d>>) /\ held' = held
    BY <1>4 DEF Drop, f
  <2> HIDE DEF d
  <2>3. <<d>> \in Seq(Jobs) /\ Entries(<<d>>) = {d}
    BY <2>1 DEF Entries
  <2>4. Gone' \subseteq Gone \cup {f.chain}
    BY <2>1, <2>2, <2>3, GoneSubmit
  <2>5. Chain(InSlot') = Chain(InSlot)
    BY <2>2 DEF InSlot
  <2> QED
    BY <1>0, <1>1, <1>2, <2>4, <2>5 DEF Grows, Aside
<1>5. CASE SendAll(fault)
  <2>1. Copies(fault) \in Seq(Jobs) /\ Released \in Seq(Jobs)
        /\ Copies(fault) \o Released \in Seq(Jobs)
        /\ Entries(Copies(fault) \o Released) = Entries(Copies(fault)) \cup Entries(Released)
    BY <1>0, CopiesType, ReleasedType, ConcatProperties, EntriesConcat
  <2>2. InSlot' = {}
    BY <1>5 DEF SendAll, ClearSlot, InSlot
  <2>3. \A j \in Entries(Copies(fault)) : j.chain \notin chains
    BY <1>0, CopiesEntries, Fresh
  <2>4. \A j \in Entries(Released) : j.chain \in Chain(InSlot)
    <3>1. held # NoJob => held.chain \in Chain(InSlot)
      BY DEF Sorts, InSlot, Chain
    <3> QED
      BY <3>1, ReleasedEntries
  <2>5. Gone' \subseteq Gone \cup {j.chain : j \in Entries(Copies(fault)) \cup Entries(Released)}
    <3>1. CASE fault = "delay"
      BY <1>5, <2>1, <3>1, GoneSubmit DEF SendAll
    <3>2. CASE fault # "delay"
      BY <1>5, <2>1, <3>2, GoneSubmit DEF SendAll
    <3> QED
      BY <3>1, <3>2
  <2>6. Aside' \cap chains \subseteq Aside
    <3>1. Chain(InSlot') = {}
      BY <2>2, ChainOfNone
    <3> QED
      BY <2>3, <2>4, <2>5, <3>1 DEF Aside
  <2> QED
    BY <1>0, <1>2, <2>6 DEF Grows
<1> QED
  BY <1>3, <1>4, <1>5 DEF QueueNext

LEMMA OthersGrow ==
  ASSUME Virtual, Types, Hands, Sorts, Placed, popped = {},
         Request_Next \/ Worker_Next \/ Timer_Next \/ Admin_Next \/ UNCHANGED vars
  PROVE  Grows
<1>0. timers \in Seq(Timers)
  BY DEF Types, ClockTypes
<1>1. ASSUME trail' = trail \/ \E r \in Records : trail' = Append(trail, r)
      PROVE  Ended \subseteq Ended'
  BY <1>1, EndedGrows DEF Ended
<1>2. ASSUME UNCHANGED <<caller, now, popped, timers, chains, held, lost>>,
             failures \subseteq failures',
             trail' = trail \/ \E r \in Records : trail' = Append(trail, r)
      PROVE  Grows
  BY <1>1, <1>2 DEF Grows, Aside, Gone, InSlot
<1>3. ASSUME NEW matching \in SUBSET Subs, Emit(matching) PROVE Grows
  BY <1>2, <1>3, TrailKept DEF Emit, clock, records
<1>4. CASE Worker_Next
  <2>1. CASE TakeJob
    BY <1>2, <2>1, TrailKept DEF TakeJob, clock, request, records
  <2>2. ASSUME NEW a \in Answers, Send(a) PROVE Grows
    BY <1>2, <2>2, TrailKept DEF Send, clock, request, records
  <2>3. CASE NotExhausted
    BY <1>2, <2>3, TrailKept DEF NotExhausted, clock, request, records
  <2>4. ASSUME NEW status \in Statuses, NEW next \in Nat, wpc # "idle", Record(status, next),
               past' = past, UNCHANGED <<clock, request, failures, lost, caller>>
        PROVE  Grows
    <3>1. \E r \in Records : trail' = Append(trail, r)
      BY <2>4, TrailGrows
    <3> QED
      BY <1>2, <2>4, <3>1 DEF clock, request
  <2>5. CASE RecordTerminal
    <3>1. inHand.kind \in Statuses
      BY <2>5, HandType, JobType DEF RecordTerminal, Statuses
    <3> QED
      BY <2>4, <2>5, <3>1 DEF RecordTerminal
  <2>6. CASE Delivered \/ Exhausted
    BY <2>4, <2>6 DEF Delivered, Exhausted, Statuses
  <2>7. CASE RecordFailed
    <3>1. schedule[inHand.retry + 1] \in Nat
      BY <2>7, HandType DEF RecordFailed, Types, AdminTypes
    <3> QED
      BY <2>4, <2>7, <3>1 DEF RecordFailed, Statuses
  <2>8. CASE SendRaises \/ ScheduleGone
    BY <1>2, <2>8, TrailKept DEF SendRaises, ScheduleGone, JobRaises, clock, request
  <2>9. CASE ScheduleRetry
    <3>1. /\ UNCHANGED <<caller, now, popped, request, failures, lost, log, past>>
          /\ inHand \in Jobs /\ inHand.kind = "attempt" /\ Schedule(RetryOf, delay) /\ delay \in Nat
      BY <2>9, HandType DEF ScheduleRetry, records, Types, WorkerTypes
    <3>2. RetryOf \in Jobs
      BY <3>1, RetryOfType
    <3>3. Entries(timers) \subseteq Entries(timers')
      <4> DEFINE t == [due |-> now + delay, job |-> RetryOf]
      <4>1. t \in Timers /\ timers' = Append(timers, t)
        BY <3>1, <3>2 DEF Schedule, Timers, Types, ClockTypes
      <4> HIDE DEF t
      <4> QED
        BY <1>0, <4>1, EntriesAppend
    <3> QED
      BY <1>1, <3>1, <3>3, TrailKept DEF Grows, Aside, Gone, InSlot, request
  <2> QED
    BY <1>4, <2>1, <2>2, <2>3, <2>5, <2>6, <2>7, <2>8, <2>9 DEF Worker_Next
<1>5. CASE Timer_Next
  BY <1>5 DEF Timer_Next, TimerPop, TimerFire
<1>6. CASE Hydrate
  <2>1. trail' = trail
    BY <1>6, TrailSurvivesReset
  <2> QED
    BY <1>2, <1>6, <2>1 DEF Hydrate, clock, request
<1>7. ASSUME NEW s \in Schedules, SetRetryPolicy(s) PROVE Grows
  BY <1>2, <1>7, TrailKept DEF SetRetryPolicy, clock, request, records
<1>8. CASE UNCHANGED vars
  BY <1>2, <1>8, TrailKept DEF vars, clock, request, records
<1> QED
  BY <1>3, <1>4, <1>5, <1>6, <1>7, <1>8, GrowsQueueNext DEF Request_Next, Admin_Next

LEMMA SettlingGrows ==
  ASSUME Types, Settling, Grows
  PROVE  Settling'
<1>1. Chain(Timed) \subseteq Chain(Timed')
  BY DEF Grows, Timed, Chain
<1>2. Settled \subseteq Settled'
  BY <1>1 DEF Grows, Settled
<1>3. DrainSettles'
  BY DEF Settling, Grows, DrainSettles
<1>4. AdvanceCollapses'
  BY DEF Settling, Grows, AdvanceCollapses
<1> QED
  BY <1>2, <1>3, <1>4 DEF Settling, Grows

(* With nothing queued, running or in the caller's hand, what was asked    *)
(* for is over or on the clock.                                            *)
LEMMA IdleSettles ==
  ASSUME Types, Hands, Placed, Settling, NEW c \in Callers, \A d \in Callers : d = c,
         Idle, caller[c].pc \in Inside \ {"fire"}
  PROVE  caller[c].asked \subseteq Settled
<1> SUFFICES ASSUME NEW chain \in caller[c].asked PROVE chain \in Settled
  OBVIOUS
<1>1. chain \in chains /\ chain \notin Gone /\ chain \notin Chain(InSlot)
  BY DEF Settling, Aside
<1>2. PICK i \in Nine : chain \in Places[i]
  BY <1>1 DEF Placed, Parts
<1>3. Chain(Entries(queue)) = {}
  <2>1. Entries(queue) = {}
    BY DEF Idle, Entries
  <2> QED
    BY <2>1, ChainOfNone
<1>4. Chain({inHand} \ {NoJob}) = {}
  BY ChainOfNone DEF Idle, Types, WorkerTypes
<1>5. Chain(popped) = {} /\ Chain(Firing) = {}
  <2>1. caller[c].hand = NoJob
    BY DEF Hands
  <2>2. Firing = {}
    BY <2>1 DEF Firing
  <2> QED
    BY <2>2, ChainOfNone DEF Settling
<1> QED
  BY <1>1, <1>2, <1>3, <1>4, <1>5, PlacesAre DEF Nine, Settled

LEMMA SettlingSteps ==
  ASSUME Settling, NEW c \in Callers, \A d \in Callers : d = c, UNCHANGED shared,
         NEW pc, NEW hand, NEW told, NEW asked, Steps(c, pc, hand, told, asked),
         asked \subseteq chains,
         pc \in Inside => asked \cap Aside' = {},
         pc \in {"look", "scan"} => asked \subseteq Settled',
         told = "settled" => asked \subseteq Ended \cup failures,
         pc = "advanced" => \A chain \in asked :
                              \/ chain \in Ended \cup failures
                              \/ \E t \in Entries(timers') : t.job.chain = chain /\ t.due > now'
  PROVE  Settling'
<1>1. /\ popped' = popped /\ chains' = chains /\ Ended' = Ended /\ failures' = failures
  BY TrailKept DEF shared, request, records, Ended
<1>2. caller'[c].pc = pc /\ caller'[c].told = told /\ caller'[c].asked = asked
  BY DEF Steps
<1>3. DrainSettles'
  BY <1>1, <1>2 DEF DrainSettles
<1>4. AdvanceCollapses'
  BY <1>1, <1>2 DEF AdvanceCollapses
<1> QED
  BY <1>1, <1>2, <1>3, <1>4 DEF Settling

(* A step that loses nothing and asks for nothing else.                    *)
LEMMA SettlingSame ==
  ASSUME Settling, NEW c \in Callers, \A d \in Callers : d = c, UNCHANGED <<shared, lost>>,
         NEW pc, NEW hand, NEW told, Steps(c, pc, hand, told, caller[c].asked),
         pc \in Inside => caller[c].pc \in Inside,
         pc \in {"look", "scan"} => caller[c].asked \subseteq Settled /\ timers' = timers,
         told = "settled" => \/ caller[c].told = "settled"
                             \/ caller[c].asked \subseteq Ended \cup failures,
         pc = "advanced" => \A chain \in caller[c].asked :
                              \/ chain \in Ended \cup failures
                              \/ \E t \in Entries(timers') : t.job.chain = chain /\ t.due > now'
  PROVE  Settling'
<1>1. Aside' = Aside
  BY DEF shared, request, Aside, Gone, InSlot
<1>2. pc \in {"look", "scan"} => Settled' = Settled
  BY TrailKept DEF shared, records, Settled, Ended, Timed
<1>3. /\ caller[c].asked \subseteq chains
      /\ caller[c].pc \in Inside => caller[c].asked \cap Aside = {}
      /\ caller[c].told = "settled" => caller[c].asked \subseteq Ended \cup failures
  BY DEF Settling, DrainSettles
<1> DEFINE asked == caller[c].asked
<1>4. asked \subseteq chains /\ Steps(c, pc, hand, told, asked)
  BY <1>3
<1>5. pc \in Inside => asked \cap Aside' = {}
  BY <1>1, <1>3
<1>6. pc \in {"look", "scan"} => asked \subseteq Settled'
  BY <1>2
<1>7. told = "settled" => asked \subseteq Ended \cup failures
  BY <1>3
<1>8. pc = "advanced" => \A chain \in asked :
                              \/ chain \in Ended \cup failures
                              \/ \E t \in Entries(timers') : t.job.chain = chain /\ t.due > now'
  OBVIOUS
<1> HIDE DEF asked
<1> QED
  BY <1>4, <1>5, <1>6, <1>7, <1>8, SettlingSteps

(* A scan that finds nothing due: what waits, waits for a later moment.    *)
LEMMA NothingDue ==
  ASSUME Types, DueJobs = {}, NEW chain, chain \in Settled
  PROVE  chain \in Ended \cup failures \/ \E t \in Entries(timers) : t.job.chain = chain /\ t.due > now
<1> SUFFICES ASSUME chain \in Chain(Timed)
             PROVE  \E t \in Entries(timers) : t.job.chain = chain /\ t.due > now
  BY DEF Settled
<1>1. PICK i \in 1 .. Len(timers) : timers[i].job.chain = chain
  BY DEF Chain, Timed, Entries
<1>2. timers[i].due \in Nat /\ now \in Nat
  BY TimedType DEF Types, ClockTypes
<1>3. timers[i].due > now
  BY <1>2 DEF DueJobs
<1> QED
  BY <1>1, <1>3 DEF Entries

LEMMA SettlingCaller ==
  ASSUME Virtual, Types, Hands, Placed, Settling, NEW c \in Callers,
         \A d \in Callers : d = c, Call(c) \/ Caller_Next(c)
  PROVE  Settling'
<1> USE DEF Inside
<1>1. ASSUME NEW pc \in {"quiesce", "settle"}, NEW route, Begin(c, route, pc),
             UNCHANGED <<shared, timers, lost>>
      PROVE  Settling'
  <2>1. Steps(c, pc, NoJob, "nothing", Outstanding)
    BY <1>1, BeginSteps
  <2>2. Outstanding \subseteq chains /\ Outstanding \cap Aside = {}
    BY DEF Outstanding, Aside
  <2>3. Aside' = Aside
    BY <1>1 DEF shared, request, Aside, Gone, InSlot
  <2> QED
    BY <1>1, <2>1, <2>2, <2>3, SettlingSteps
<1>2. ASSUME NEW route \in Routes, CallDrain(c, route) PROVE Settling'
  BY <1>1, <1>2 DEF CallDrain
<1>3. ASSUME NEW route \in Routes, NEW ms \in 0 .. MaxTime, CallAdvance(c, route, ms) PROVE Settling'
  BY <1>1, <1>3 DEF CallAdvance
<1>4. CASE DrainQuiesce(c)
  <2>1. Steps(c, "look", caller[c].hand, caller[c].told, caller[c].asked)
        /\ caller[c].pc = "quiesce" /\ Idle /\ UNCHANGED <<shared, lost>> /\ timers' = timers
    BY <1>4, GoSteps DEF DrainQuiesce
  <2> QED
    BY <2>1, IdleSettles, SettlingSame
<1>5. CASE DrainTimeout(c)
  <2>1. Steps(c, "gaveup", caller[c].hand, caller[c].told, caller[c].asked)
        /\ UNCHANGED <<shared, lost>>
    BY <1>5, GoSteps DEF DrainTimeout
  <2> QED
    BY <2>1, SettlingSame
<1>6. CASE DrainLook(c)
  <2>0. caller[c].pc = "look" /\ UNCHANGED <<shared, lost>>
    BY <1>6 DEF DrainLook
  <2>1. CASE timers = <<>>
    <3>1. Steps(c, IF caller[c].route = "stop" THEN "stopping" ELSE "settled", caller[c].hand,
                "settled", caller[c].asked)
      BY <1>6, <2>1, DrainReturnsSteps DEF DrainLook
    <3>2. Chain(Timed) = {}
      <4>1. Timed = {}
        BY <2>1 DEF Timed, Entries
      <4> QED
        BY <4>1, ChainOfNone
    <3>3. caller[c].asked \subseteq Ended \cup failures
      BY <2>0, <3>2 DEF Settling, Settled
    <3> QED
      BY <2>0, <3>1, <3>3, SettlingSame
  <2>2. CASE timers # <<>>
    <3>1. Steps(c, "move", caller[c].hand, caller[c].told, caller[c].asked)
      BY <1>6, <2>2, LookSteps
    <3> QED
      BY <2>0, <3>1, SettlingSame
  <2> QED
    BY <2>1, <2>2
<1>7. ASSUME caller[c].pc \in Inside, NextPass(c), UNCHANGED <<shared, lost>>
      PROVE  Settling'
  <2>1. CASE Steps(c, "quiesce", caller[c].hand, caller[c].told, caller[c].asked)
    BY <1>7, <2>1, SettlingSame
  <2>2. CASE Steps(c, IF caller[c].route = "stop" THEN "stopping" ELSE "gaveup", caller[c].hand,
                   "gaveup", caller[c].asked)
    BY <1>7, <2>2, SettlingSame
  <2> QED
    BY <1>7, <2>1, <2>2, NextPassSteps
<1>8. CASE DrainSleep(c)
  BY <1>7, <1>8 DEF DrainSleep
<1>9. CASE DrainAdvance(c)
  <2>1. Steps(c, "settle", caller[c].hand, caller[c].told, caller[c].asked)
        /\ caller[c].pc = "move" /\ UNCHANGED <<shared, lost>>
    BY <1>9, OtherSteps DEF DrainAdvance
  <2> QED
    BY <2>1, SettlingSame
<1>10. CASE AdvanceSettle(c)
  <2>1. Steps(c, "scan", caller[c].hand, caller[c].told, caller[c].asked)
        /\ caller[c].pc = "settle" /\ Idle /\ UNCHANGED <<shared, lost>> /\ timers' = timers
    BY <1>10, GoSteps DEF AdvanceSettle, Rescan
  <2> QED
    BY <2>1, IdleSettles, SettlingSame
<1>11. CASE AdvanceScan(c)
  <2>0. caller[c].pc = "scan" /\ UNCHANGED <<shared, lost>> /\ now' = now
    BY <1>11 DEF AdvanceScan
  <2>1. CASE DueJobs = {}
    <3>0. AdvanceReturns(c) /\ timers' = timers
      BY <1>11, <2>1 DEF AdvanceScan
    <3>1. \A chain \in caller[c].asked :
            \/ chain \in Ended \cup failures
            \/ \E t \in Entries(timers') : t.job.chain = chain /\ t.due > now'
      <4>1. caller[c].asked \subseteq Settled
        BY <2>0 DEF Settling
      <4> QED
        BY <2>0, <2>1, <3>0, <4>1, NothingDue
    <3>2. CASE Steps(c, "advanced", caller[c].hand, caller[c].told, caller[c].asked)
      BY <2>0, <3>1, <3>2, SettlingSame
    <3>3. CASE Steps(c, "quiesce", caller[c].hand, caller[c].told, caller[c].asked)
      BY <2>0, <3>3, SettlingSame
    <3>4. CASE Steps(c, IF caller[c].route = "stop" THEN "stopping" ELSE "gaveup", caller[c].hand,
                     "gaveup", caller[c].asked)
      BY <2>0, <3>4, SettlingSame
    <3> QED
      BY <3>0, <3>2, <3>3, <3>4, AdvanceReturnsSteps
  <2>2. CASE DueJobs # {}
    BY <1>11, <2>0, <2>2, AdvanceScanSteps, SettlingSame
  <2> QED
    BY <2>1, <2>2
<1>12. CASE AdvanceFire(c)
  <2>0. /\ caller[c].pc = "fire" /\ UNCHANGED shared /\ SubmitAll(<<caller[c].hand>>)
        /\ Steps(c, IF stopped THEN "gaveup" ELSE "settle", NoJob, caller[c].told, caller[c].asked)
    BY <1>12, AdvanceFireSteps DEF AdvanceFire
  <2>1. CASE stopped
    <3>1. Steps(c, "gaveup", NoJob, caller[c].told, caller[c].asked)
      BY <2>0, <2>1
    <3>2. caller[c].asked \subseteq chains
          /\ (caller[c].told = "settled" => caller[c].asked \subseteq Ended \cup failures)
      BY DEF Settling, DrainSettles
    <3> QED
      BY <2>0, <3>1, <3>2, SettlingSteps
  <2>2. CASE ~stopped
    <3>1. lost' = lost
      BY <2>0, <2>2 DEF SubmitAll
    <3> QED
      BY <2>0, <2>2, <3>1, SettlingSame
  <2> QED
    BY <2>1, <2>2
<1>13. CASE StopWorker(c) \/ ListTimers(c) \/ StopReturns(c)
  <2>1. UNCHANGED <<shared, lost>>
    BY <1>13 DEF StopWorker, ListTimers, StopReturns
  <2>2. \E pc \in {"joining", "clearing", "unit_stopped"} :
          Steps(c, pc, caller[c].hand, caller[c].told, caller[c].asked)
    BY <1>13, GoSteps, OtherSteps DEF StopWorker
  <2> QED
    BY <2>1, <2>2, SettlingSame
<1>14. CASE CancelTimer(c)
  <2>1. caller[c].pc = "clearing" /\ UNCHANGED <<shared, caller>>
    BY <1>14 DEF CancelTimer
  <2>2. popped' = popped /\ chains' = chains /\ Ended' = Ended /\ failures' = failures
    BY <2>1, TrailKept DEF shared, request, records, Ended
  <2> QED
    BY <2>1, <2>2 DEF Settling, DrainSettles, AdvanceCollapses
<1>15. CASE Return(c)
  <2>1. Steps(c, "idle", NoJob, "nothing", {}) /\ UNCHANGED shared
    BY <1>15, OtherSteps DEF Return
  <2> QED
    BY <2>1, SettlingSteps
<1> QED
  BY <1>2, <1>3, <1>4, <1>5, <1>6, <1>8, <1>9, <1>10, <1>11, <1>12, <1>13, <1>14, <1>15
     DEF Call, Caller_Next

LEMMA SettlingHolds ==
  ASSUME Virtual, \A c, d \in Callers : c = d
  PROVE  Spec => []Settling
<1>1. Init => Settling
  <2> SUFFICES ASSUME Init PROVE Settling
    OBVIOUS
  <2>1. \A c \in Callers : caller[c].pc = "idle" /\ caller[c].asked = {} /\ caller[c].told = "nothing"
    BY DEF Init, AtRest, Thread
  <2> QED
    BY <2>1 DEF Init, Settling, Inside, DrainSettles, AdvanceCollapses
<1>2. Inv /\ Settling /\ [Next]_vars => Settling'
  <2> SUFFICES ASSUME Inv, Settling, [Next]_vars PROVE Settling'
    OBVIOUS
  <2>1. CASE Request_Next \/ Worker_Next \/ Timer_Next \/ Admin_Next \/ UNCHANGED vars
    <3>1. popped = {}
      BY DEF Settling
    <3> QED
      BY <2>1, <3>1, OthersGrow, SettlingGrows DEF Inv
  <2>2. ASSUME NEW c \in Callers, Call(c) \/ Caller_Next(c) PROVE Settling'
    BY <2>2, SettlingCaller DEF Inv
  <2> QED
    BY <2>1, <2>2 DEF Next
<1> QED
  BY <1>1, <1>2, InvHolds, PTL DEF Spec

(* A drain() that comes back because nothing is pending has settled what   *)
(* was outstanding when it was called, by one caller on a virtual clock:   *)
(* a second one may have a timer in its hand that no one else sees.        *)
THEOREM DrainsSettle == ASSUME Virtual, \A c, d \in Callers : c = d PROVE Spec => []DrainSettles
<1>1. Settling => DrainSettles
  BY DEF Settling
<1> QED
  BY <1>1, SettlingHolds, PTL

(* Clock.advance(settle=...) leaves nothing that is due: what was          *)
(* outstanding is over or waits for a later moment, again with one caller. *)
THEOREM AdvancesCollapse ==
  ASSUME Virtual, \A c, d \in Callers : c = d
  PROVE  Spec => []AdvanceCollapses
<1>1. Settling => AdvanceCollapses
  BY DEF Settling
<1> QED
  BY <1>1, SettlingHolds, PTL
-----------------------------------------------------------------------------
(* The retry policy as the consumer sees it: RetriedDelivery.              *)

LEMMA ViewSame ==
  ASSUME trail' = trail
  PROVE  Tries' = Tries /\ Transcript' = Transcript /\ Ended' = Ended
BY SameTrail DEF Tries, Transcript, Ended

LEMMA PolicySame ==
  ASSUME UNCHANGED <<now, schedule, stopped, chains, failures, lost>>, trail' = trail
  PROVE  UNCHANGED Policy!vars
BY ViewSame DEF Policy!vars, Gone

LEMMA TranscriptGrows ==
  ASSUME Types, NEW r \in Records, trail' = Append(trail, r)
  PROVE  Transcript' = Transcript \cup
           (IF r.status = "skipped" THEN {}
            ELSE {[of |-> r.chain, nth |-> r.attempt, status |-> r.status, at |-> r.at,
                   next |-> r.next]})
<1>1. Entries(trail') = Entries(trail) \cup {r}
  BY TrailType, EntriesAppend
<1> QED
  BY <1>1 DEF Transcript

LEMMA TriesGrow ==
  ASSUME Types, NEW r \in Records, trail' = Append(trail, r)
  PROVE  Tries' = IF r.status = "skipped" THEN Tries ELSE [Tries EXCEPT ![r.chain] = @ + 1]
<1>1. r.chain \in Chains
  BY DEF Records
<1>2. ASSUME NEW chain \in Chains
      PROVE  Cardinality(Tried(chain)') =
               IF r.chain = chain /\ r.status # "skipped" THEN Cardinality(Tried(chain)) + 1
               ELSE Cardinality(Tried(chain))
  <2>1. CASE r.chain = chain /\ r.status # "skipped"
    BY <2>1, TriedGrows
  <2>2. CASE ~(r.chain = chain /\ r.status # "skipped")
    <3>1. Tried(chain)' = Tried(chain)
      BY <2>2, TriedGrows
    <3> QED
      BY <2>2, <3>1
  <2> QED
    BY <2>1, <2>2
<1> QED
  BY <1>1, <1>2 DEF Tries

(* The delivery in the worker's hand has no end yet. *)
LEMMA OpenHand ==
  ASSUME Types, Placed, wpc # "idle", inHand.kind # "skipped"
  PROVE  inHand.chain \in Policy!Open /\ inHand.chain \in Chains
<1>1. Chain({inHand} \ {NoJob}) = {inHand.chain} /\ inHand.chain \in chains
  BY HandPlace, HandAlone
<1>2. \A i \in Nine \ {2} : inHand.chain \notin Places[i]
  <2>1. \A i \in Nine \ {2} : Places[2] \cap Places[i] = {}
    BY DEF Placed, Parts, Nine
  <2> QED
    BY <1>1, <2>1, PlacesAre
<1>3. inHand.chain \notin Ended /\ inHand.chain \notin failures /\ inHand.chain \notin Gone
  BY <1>2, PlacesAre DEF Nine
<1>4. inHand.chain \in Chains
  BY HandType, JobType DEF Types, WorkerTypes
<1> QED
  BY <1>1, <1>3, <1>4 DEF Policy!Open

LEMMA DueHand ==
  ASSUME Types, Virtual => Spaced, wpc \notin {"idle", "scheduling"}, inHand.kind # "skipped"
  PROVE  Policy!Due(inHand.chain)
<1> SUFFICES ASSUME Virtual, NEW a \in Transcript, a.of = inHand.chain PROVE a.at + a.next <= now
  BY DEF Policy!Due
<1>1. PICK r \in Entries(trail) :
        /\ r.status # "skipped"
        /\ a = [of |-> r.chain, nth |-> r.attempt, status |-> r.status, at |-> r.at,
                next |-> r.next]
  BY DEF Transcript
<1>2. PICK k \in 1 .. Len(trail) : r = trail[k]
  BY DEF Entries
<1>3. k \in Tried(inHand.chain)
  BY <1>1, <1>2 DEF Tried
<1>4. Ripe(inHand.chain, now)
  <2>1. now + 0 = now
    BY DEF Types, ClockTypes
  <2> QED
    BY <2>1 DEF Spaced
<1> QED
  BY <1>1, <1>2, <1>3, <1>4 DEF Ripe

LEMMA TriesOf ==
  ASSUME Types, Counted
  PROVE  /\ \A j \in Waiting : j \in Jobs /\ j.kind # "skipped" => Tries[j.chain] = j.retry
         /\ wpc \notin {"idle", "scheduling"} /\ inHand.kind # "skipped" =>
              Tries[inHand.chain] = inHand.retry
<1>1. ASSUME NEW j \in Waiting, j \in Jobs, j.kind # "skipped" PROVE Tries[j.chain] = j.retry
  BY <1>1, JobType DEF Counted, Tries
<1>2. ASSUME wpc \notin {"idle", "scheduling"}, inHand.kind # "skipped"
      PROVE  Tries[inHand.chain] = inHand.retry
  <2>1. inHand.chain \in Chains /\ inHand.retry \in Nat
    BY <1>2, HandType, JobType DEF Types, WorkerTypes
  <2>2. Cardinality(Tried(inHand.chain)) = inHand.retry + 0
    BY <1>2 DEF Counted
  <2> QED
    BY <2>1, <2>2 DEF Tries
<1> QED
  BY <1>1, <1>2

LEMMA AttemptOf ==
  ASSUME Inv, Counted, Virtual => Spaced, wpc \notin {"idle", "scheduling"},
         inHand.kind # "skipped", NEW r \in Records, trail' = Append(trail, r),
         r.chain = inHand.chain, r.status # "skipped", r.attempt = inHand.retry + 1, r.at = now,
         UNCHANGED <<now, schedule, stopped, chains, lost>>
  PROVE  Policy!Attempt(inHand.chain, r.status, r.next)
<1>1. inHand.chain \in Policy!Open /\ Policy!Due(inHand.chain)
      /\ Tries[inHand.chain] = inHand.retry
  BY OpenHand, DueHand, TriesOf DEF Inv
<1>2. Tries' = [Tries EXCEPT ![inHand.chain] = @ + 1]
  BY TriesGrow DEF Inv
<1>3. Transcript' = Transcript \cup
        {[of |-> inHand.chain, nth |-> Tries[inHand.chain] + 1, status |-> r.status, at |-> now,
          next |-> r.next]}
  BY <1>1, TranscriptGrows DEF Inv
<1>4. Gone' = Gone
  BY DEF Gone
<1> QED
  BY <1>1, <1>2, <1>3, <1>4 DEF Policy!Attempt, Policy!setting

LEMMA EndsPolicy ==
  ASSUME Inv, Counted, Virtual => Spaced,
         NEW status \in {"delivered", "exhausted", "skipped", "dropped"}, Ends(status)
  PROVE  \/ UNCHANGED Policy!vars
         \/ \E d \in Chains : Policy!Deliver(d) \/ Policy!Exhaust(d) \/ Policy!Drop(d)
<1>0. /\ wpc \notin {"idle", "scheduling"} /\ Record(status, 0) /\ past' = past
      /\ (inHand.kind = "skipped" <=> status = "skipped")
      /\ UNCHANGED <<now, schedule, stopped, chains, failures, lost>>
  BY DEF Ends, clock, admin, request
<1>1. PICK r \in Records : /\ trail' = Append(trail, r) /\ r.chain = inHand.chain
                           /\ r.status = status /\ r.attempt = inHand.retry + 1 /\ r.at = now
                           /\ r.next = 0
  BY <1>0, TrailGrows DEF Statuses, Inv
<1>2. CASE status = "skipped"
  <2>1. Ended' = Ended
    BY <1>1, <1>2, EndedGrows DEF Inv
  <2>2. Tries' = Tries /\ Transcript' = Transcript
    BY <1>1, <1>2, TriesGrow, TranscriptGrows DEF Inv
  <2> QED
    BY <1>0, <2>1, <2>2 DEF Policy!vars, Gone
<1>3. CASE status # "skipped"
  <2>1. Policy!Attempt(inHand.chain, status, 0)
    BY <1>0, <1>1, <1>3, AttemptOf
  <2>2. Ended' = Ended \cup {inHand.chain}
    BY <1>1, <1>3, EndedGrows DEF Inv
  <2>3. Policy!End(inHand.chain, status)
    BY <1>0, <2>1, <2>2 DEF Policy!End
  <2>4. Tries[inHand.chain] = inHand.retry /\ inHand.chain \in Chains
    BY <1>0, <1>3, TriesOf, OpenHand DEF Inv
  <2>5. CASE status = "delivered"
    BY <2>3, <2>4, <2>5 DEF Policy!Deliver
  <2>6. CASE status = "exhausted"
    BY <2>3, <2>4, <2>6 DEF Policy!Exhaust, Ends, ScheduleExhausted
  <2>7. CASE status = "dropped"
    <3>1. inHand.kind = "dropped" /\ inHand # NoJob
      BY <1>0, <2>7, HandType, JobType DEF Ends, Inv, Types, WorkerTypes
    <3>2. inHand.retry = 0
      BY <3>1 DEF Inv, Sorts
    <3> QED
      BY <2>3, <2>4, <2>7, <3>2 DEF Policy!Drop
  <2> QED
    BY <1>3, <2>5, <2>6, <2>7
<1> QED
  BY <1>2, <1>3

LEMMA FailsPolicy ==
  ASSUME Inv, Counted, Virtual => Spaced, RecordFailed
  PROVE  \E d \in Chains : Policy!Fail(d)
<1>0. /\ wpc \notin {"idle", "scheduling"} /\ inHand.kind = "attempt" /\ past' = past
      /\ inHand.retry < Len(schedule) /\ schedule[inHand.retry + 1] \in Nat
      /\ Record("failed", schedule[inHand.retry + 1])
      /\ UNCHANGED <<now, schedule, stopped, chains, failures, lost>>
  BY HandType DEF RecordFailed, Inv, Types, WorkerTypes, AdminTypes, clock, admin, request
<1>1. PICK r \in Records : /\ trail' = Append(trail, r) /\ r.chain = inHand.chain
                           /\ r.status = "failed" /\ r.attempt = inHand.retry + 1 /\ r.at = now
                           /\ r.next = schedule[inHand.retry + 1]
  BY <1>0, TrailGrows DEF Statuses, Inv
<1>2. Policy!Attempt(inHand.chain, "failed", schedule[inHand.retry + 1])
  BY <1>0, <1>1, AttemptOf
<1>3. Ended' = Ended
  BY <1>1, EndedGrows DEF Inv
<1>4. Tries[inHand.chain] = inHand.retry /\ inHand.chain \in Chains
  BY <1>0, TriesOf, OpenHand DEF Inv
<1> QED
  BY <1>0, <1>2, <1>3, <1>4 DEF Policy!Fail

LEMMA BreaksPolicy ==
  ASSUME Inv, Raises
  PROVE  \E d \in Chains : Policy!Break(d)
<1>0. /\ wpc # "idle" /\ inHand.kind = "attempt" /\ failures' = failures \cup {inHand.chain}
      /\ UNCHANGED <<now, schedule, stopped, chains, lost, log, past>>
  BY DEF Raises, JobRaises, clock, admin, request
<1>1. inHand.chain \in Policy!Open /\ inHand.chain \in Chains
  BY <1>0, OpenHand DEF Inv
<1>2. Tries' = Tries /\ Transcript' = Transcript /\ Ended' = Ended /\ Gone' = Gone
  BY <1>0, TrailKept, ViewSame DEF Gone
<1> QED
  BY <1>0, <1>1, <1>2 DEF Policy!Break, Policy!setting

(* What disappears was open before, or is new.                             *)
LEMMA LostWereOpen ==
  ASSUME Placed, Placed', lost \subseteq lost', trail' = trail, failures' = failures
  PROVE  Gone' = Gone \cup (Gone' \ Gone) /\ Gone' \ Gone \subseteq Policy!Open \cup (chains' \ chains)
<1>1. Gone \subseteq Gone'
  BY DEF Gone
<1>2. Gone' \subseteq chains' /\ Gone' \cap Ended' = {} /\ Gone' \cap failures' = {}
  <2>1. Parts(Places, chains)'
    BY DEF Placed
  <2>2. chains' = UNION {Places'[i] : i \in Nine}
        /\ \A i, k \in Nine : i # k => Places'[i] \cap Places'[k] = {}
    BY <2>1 DEF Parts
  <2> QED
    BY <2>2, PlacesAre DEF Nine
<1>3. Ended' = Ended
  BY ViewSame
<1> QED
  BY <1>1, <1>2, <1>3 DEF Policy!Open

LEMMA AbandonsPolicy ==
  ASSUME Placed, Placed', stopped, lost \subseteq lost',
         UNCHANGED <<now, schedule, stopped, chains, failures>>, trail' = trail
  PROVE  Policy!Abandon(Gone' \ Gone)
<1>1. Gone' = Gone \cup (Gone' \ Gone) /\ Gone' \ Gone \subseteq Policy!Open
  BY LostWereOpen
<1>2. Tries' = Tries /\ Transcript' = Transcript /\ Ended' = Ended
  BY ViewSame
<1> QED
  BY <1>1, <1>2 DEF Policy!Abandon, Policy!setting

LEMMA PreparesPolicy ==
  ASSUME Inv, Types', Placed', Counted, NEW fault \in Faults, QueueNext(fault)
  PROVE  \E new, dropped \in SUBSET Chains : Policy!Prepare(new, dropped)
<1> DEFINE new == chains' \ chains
           dropped == Gone' \ Gone
<1>0. /\ fanout # {} /\ First(fault) \in Jobs
      /\ First(fault).chain.event = emitted /\ First(fault).chain.sub = Foremost
      /\ UNCHANGED <<now, schedule, stopped, failures>> /\ trail' = trail /\ chains \subseteq chains'
  BY FirstType, WaitingNext, TrailKept DEF QueueNext, Inv, records, admin
<1>1. First(fault).chain \notin chains
  BY <1>0, Fresh DEF Inv
<1>2. First(fault).chain \in chains'
  <2>1. CASE Hold(fault)
    BY <2>1 DEF Hold
  <2>2. CASE Drop(fault)
    BY <2>2 DEF Drop
  <2>3. CASE SendAll(fault)
    <3>1. chains' = chains \cup {j.chain : j \in Entries(Copies(fault))}
      BY <2>3 DEF SendAll
    <3>2. /\ Len(Copies(fault)) = NumberOfCopies(fault) /\ 1 \in 1 .. NumberOfCopies(fault)
          /\ Copies(fault)[1].chain = [event |-> emitted, sub |-> Foremost, copy |-> 0]
      <4>1. 1 \in 1 .. NumberOfCopies(fault)
        BY DeliveryAssumption DEF NumberOfCopies
      <4>2. Copies(fault)[1].chain = [event |-> emitted, sub |-> Foremost, copy |-> 1 - 1]
            /\ Len(Copies(fault)) = NumberOfCopies(fault)
        BY <1>0, <4>1, CopiesType DEF Inv
      <4> QED
        BY <4>1, <4>2
    <3>3. Copies(fault)[1] \in Entries(Copies(fault))
      BY <3>2 DEF Entries
    <3>4. Copies(fault)[1].chain = First(fault).chain
      BY <1>0, <3>2, FirstType DEF Inv
    <3> QED
      BY <3>1, <3>3, <3>4
  <2> QED
    BY <2>1, <2>2, <2>3 DEF QueueNext
<1>3. new # {} /\ new \subseteq Chains \ chains /\ chains' = chains \cup new /\ dropped \subseteq Chains
  <2>1. chains' \subseteq Chains
    BY DEF Types, RequestTypes
  <2>2. Gone' \subseteq Chains
    BY DEF Types, RecordTypes, Losses, Gone
  <2> QED
    BY <1>0, <1>1, <1>2, <2>1, <2>2
<1>4. \/ lost' = lost
      \/ stopped /\ lost \subseteq lost'
      \/ held # NoJob /\ Lose({held}, "overwritten")
  <2>1. ASSUME NEW jobs, SubmitAll(jobs) PROVE lost' = lost \/ (stopped /\ lost \subseteq lost')
    BY <2>1 DEF SubmitAll, Lose
  <2>2. CASE Hold(fault)
    BY <2>2 DEF Hold
  <2>3. CASE Drop(fault)
    BY <2>1, <2>3 DEF Drop
  <2>4. CASE SendAll(fault)
    BY <2>1, <2>4 DEF SendAll
  <2> QED
    BY <2>2, <2>3, <2>4 DEF QueueNext
<1>5. lost \subseteq lost'
  BY <1>4 DEF Lose
<1>6. Gone' = Gone \cup dropped /\ dropped \subseteq Policy!Open \cup new
  BY <1>0, <1>5, LostWereOpen DEF Inv
<1>7. \/ dropped = {} \/ stopped
      \/ \E d \in Policy!Open : dropped = {d} /\ Tries[d] = 0
  <2>1. CASE lost' = lost
    BY <2>1 DEF Gone
  <2>2. ASSUME held # NoJob, Lose({held}, "overwritten"), dropped # {}
        PROVE  \E d \in Policy!Open : dropped = {d} /\ Tries[d] = 0
    <3>1. held \in Jobs /\ held.kind = "attempt" /\ held.retry = 0 /\ Chain(InSlot) = {held.chain}
      BY <2>2, SlotPlace DEF Inv, Sorts
    <3>2. Gone' = Gone \cup {held.chain}
      <4>1. lost' = lost \cup {[chain |-> j.chain, why |-> "overwritten"] : j \in {held}}
        BY <2>2 DEF Lose
      <4>2. Gone' = Gone \cup {j.chain : j \in {held}}
        BY <4>1, GoneGrows
      <4> QED
        BY <4>2
    <3>3. dropped = {held.chain}
      BY <2>2, <3>2
    <3>4. Tries[held.chain] = 0
      <4>1. held \in Waiting
        BY <2>2 DEF Waiting, InSlot
      <4> QED
        BY <3>1, <4>1, TriesOf DEF Inv
    <3>5. held.chain \in chains
      BY <3>1, PlacesAre DEF Inv, Placed, Parts, Nine
    <3> QED
      BY <1>6, <3>3, <3>4, <3>5
  <2> QED
    BY <1>4, <2>1, <2>2
<1>8. Tries' = Tries /\ Transcript' = Transcript /\ Ended' = Ended
  BY <1>0, ViewSame
<1> HIDE DEF new, dropped
<1>9. Policy!Prepare(new, dropped)
  BY <1>0, <1>3, <1>6, <1>7, <1>8 DEF Policy!Prepare, Policy!setting
<1> QED
  BY <1>3, <1>9

(* What the control plane and a stopping thread change beside the jobs.    *)
Setting ==
  \/ UNCHANGED <<schedule, stopped>>
  \/ schedule' \in Schedules /\ UNCHANGED <<now, stopped>>
  \/ stopped' = TRUE /\ UNCHANGED <<now, schedule>>

LEMMA SettingStep == [Next]_vars => Setting
<1> SUFFICES ASSUME [Next]_vars PROVE Setting
  OBVIOUS
<1>1. CASE UNCHANGED vars
  BY <1>1 DEF vars, admin, Setting
<1>2. CASE Request_Next
  BY <1>2 DEF Request_Next, Emit, QueueNext, admin, Setting
<1>3. CASE Worker_Next
  <2>1. CASE TakeJob \/ (\E a \in Answers : Send(a)) \/ NotExhausted \/ RecordFailed \/ ScheduleRetry
    BY <2>1 DEF TakeJob, Send, NotExhausted, RecordFailed, ScheduleRetry, admin, Setting
  <2>2. CASE RecordTerminal \/ Delivered \/ Exhausted \/ SendRaises \/ ScheduleGone
    BY <2>2 DEF RecordTerminal, Delivered, Exhausted, SendRaises, ScheduleGone, JobRaises, admin,
       Setting
  <2> QED
    BY <1>3, <2>1, <2>2 DEF Worker_Next
<1>4. CASE Timer_Next
  BY <1>4 DEF Timer_Next, TimerPop, TimerFire, admin, Setting
<1>5. CASE Admin_Next
  BY <1>5 DEF Admin_Next, Hydrate, SetRetryPolicy, clock, Setting
<1>6. ASSUME NEW c \in Callers, Call(c) \/ Caller_Next(c) PROVE Setting
  <2>1. CASE Call(c)
    BY <2>1 DEF Call, CallDrain, CallAdvance, shared, admin, Setting
  <2>2. CASE DrainQuiesce(c) \/ DrainTimeout(c) \/ DrainLook(c) \/ DrainSleep(c) \/ DrainAdvance(c)
             \/ AdvanceSettle(c) \/ AdvanceScan(c) \/ AdvanceFire(c)
    BY <2>2 DEF DrainQuiesce, DrainTimeout, DrainLook, DrainSleep, DrainAdvance, AdvanceSettle,
       Rescan, AdvanceScan, AdvanceFire, shared, admin, Setting
  <2>3. CASE StopWorker(c) \/ ListTimers(c) \/ CancelTimer(c) \/ StopReturns(c) \/ Return(c)
    BY <2>3 DEF StopWorker, ListTimers, CancelTimer, StopReturns, Return, shared, admin, Setting
  <2> QED
    BY <1>6, <2>1, <2>2, <2>3 DEF Caller_Next
<1> QED
  BY <1>1, <1>2, <1>3, <1>4, <1>5, <1>6 DEF Next

LEMMA PolicyStep ==
  ASSUME Inv, Inv', Counted, Virtual => Spaced, Stoppers, [Next]_vars
  PROVE  [Policy!Next]_(Policy!vars)
<1>0. Kinds /\ Setting /\ now \in Nat /\ now' \in Nat /\ Placed /\ Placed'
  BY StepKinds, SettingStep DEF Inv, Types, ClockTypes
<1>1. CASE Still
  <2>1. UNCHANGED <<chains, failures, lost>> /\ trail' = trail /\ now' >= now
    BY <1>1 DEF Still
  <2>2. UNCHANGED Policy!others
    BY <2>1, ViewSame DEF Policy!others, Gone
  <2>3. CASE UNCHANGED <<schedule, stopped>>
    <3>1. Policy!Elapse
      BY <1>0, <2>1, <2>2, <2>3 DEF Policy!Elapse
    <3> QED
      BY <3>1 DEF Policy!Next
  <2>4. CASE schedule' \in Schedules /\ UNCHANGED <<now, stopped>>
    <3>1. Policy!Patch
      BY <2>2, <2>4 DEF Policy!Patch
    <3> QED
      BY <3>1 DEF Policy!Next
  <2>5. CASE stopped' = TRUE /\ UNCHANGED <<now, schedule>>
    <3>1. Policy!Close
      BY <2>2, <2>5 DEF Policy!Close
    <3> QED
      BY <3>1 DEF Policy!Next
  <2> QED
    BY <1>0, <2>3, <2>4, <2>5 DEF Setting
<1>2. ASSUME NEW fault \in Faults, QueueNext(fault) PROVE Policy!Next
  BY <1>2, PreparesPolicy DEF Policy!Next, Inv
<1>3. CASE TakeJob \/ ScheduleRetry \/ \E i \in 1 .. Len(timers) : TimerPop(i)
  <2>1. UNCHANGED <<now, schedule, stopped, chains, failures, lost, log, past>>
    BY <1>3 DEF TakeJob, ScheduleRetry, TimerPop, clock, request, admin, records
  <2> QED
    BY <2>1, TrailKept, PolicySame
<1>4. ASSUME NEW c \in Callers, NEW i \in 1 .. Len(timers), Scans(c, i)
      PROVE  UNCHANGED Policy!vars
  <2>1. UNCHANGED <<now, schedule, stopped, chains, failures, lost, log, past>>
    BY <1>4 DEF Scans, request, admin, records
  <2> QED
    BY <2>1, TrailKept, PolicySame
<1>5. ASSUME NEW status \in {"delivered", "exhausted", "skipped", "dropped"}, Ends(status)
      PROVE  [Policy!Next]_(Policy!vars)
  <2>1. \/ UNCHANGED Policy!vars
        \/ \E d \in Chains : Policy!Deliver(d) \/ Policy!Exhaust(d) \/ Policy!Drop(d)
    BY <1>5, EndsPolicy
  <2> QED
    BY <2>1 DEF Policy!Next
<1>6. CASE RecordFailed
  BY <1>6, FailsPolicy DEF Policy!Next
<1>7. CASE Raises
  BY <1>7, BreaksPolicy DEF Policy!Next
<1>8. ASSUME stopped, lost \subseteq lost',
             UNCHANGED <<now, schedule, stopped, chains, failures, log, past>>
      PROVE  Policy!Next
  <2>1. Policy!Abandon(Gone' \ Gone)
    BY <1>0, <1>8, TrailKept, AbandonsPolicy
  <2>2. Gone' \ Gone \in SUBSET Chains
    BY DEF Inv, Types, RecordTypes, Losses, Gone
  <2> QED
    BY <2>1, <2>2 DEF Policy!Next
<1>9. ASSUME NEW jobs, SubmitAll(jobs),
             UNCHANGED <<now, schedule, stopped, chains, failures, log, past>>
      PROVE  [Policy!Next]_(Policy!vars)
  <2>1. CASE stopped
    <3>1. lost \subseteq lost'
      BY <1>9, <2>1 DEF SubmitAll, Lose
    <3> QED
      BY <1>8, <1>9, <2>1, <3>1
  <2>2. CASE ~stopped
    BY <1>9, <2>2, TrailKept, PolicySame DEF SubmitAll
  <2> QED
    BY <2>1, <2>2
<1>10. ASSUME NEW job \in popped, TimerFire(job) PROVE [Policy!Next]_(Policy!vars)
  <2>1. SubmitAll(<<job>>) /\ UNCHANGED <<now, schedule, stopped, chains, failures, log, past>>
    BY <1>10 DEF TimerFire, request, admin, records
  <2> QED
    BY <1>9, <2>1
<1>11. ASSUME NEW c \in Callers, Fires(c) PROVE [Policy!Next]_(Policy!vars)
  <2>1. /\ SubmitAll(<<caller[c].hand>>)
        /\ UNCHANGED <<now, schedule, stopped, chains, failures, log, past>>
    BY <1>11 DEF Fires, request, admin, records
  <2> QED
    BY <1>9, <2>1
<1>12. ASSUME NEW c \in Callers, NEW i \in 1 .. Len(timers), Cancels(c, i) PROVE Policy!Next
  <2>1. /\ stopped /\ lost \subseteq lost'
        /\ UNCHANGED <<now, schedule, stopped, chains, failures, log, past>>
    BY <1>12 DEF Cancels, Stoppers, Lose, request, admin, records
  <2> QED
    BY <1>8, <2>1
<1> QED
  BY <1>0, <1>1, <1>2, <1>3, <1>4, <1>5, <1>6, <1>7, <1>10, <1>11, <1>12 DEF Kinds

(* Whatever queues, threads, timers, faults, resets and stops are between  *)
(* the dispatcher and a consumer, it sees each delivery made as retry.py   *)
(* says: once prepared, tried attempt by attempt while the policy's delays *)
(* last, each after the delay the one before announced when the clock is   *)
(* virtual, and ended once; only stop() and a full reorder slot lose one.  *)
THEOREM DeliveriesFollowPolicy == Spec => FollowsPolicy
<1>1. Init => Counted /\ Stoppers
  BY EmptyTrail DEF Counted, AttemptsContiguous, Init, AtRest, Thread, Stoppers
<1>2. Init => Spaced
  BY EmptyTrail DEF Spaced, RetriesSpaced, Waiting, Ready, ClockJobs, Init
<1>3. Inv /\ Counted /\ Stoppers /\ [Next]_vars => Counted' /\ Stoppers'
  BY CountedStep, StoppersStep DEF Inv
<1>4. Inv /\ Counted /\ (Virtual => Spaced) /\ [Next]_vars => (Virtual => Spaced')
  BY SpacedStep
<1>5. Inv /\ Inv' /\ Counted /\ (Virtual => Spaced) /\ Stoppers /\ [Next]_vars
        => [Policy!Next]_(Policy!vars)
  BY PolicyStep
<1>6. Init => Policy!Init
  <2> SUFFICES ASSUME Init PROVE Policy!Init
    OBVIOUS
  <2>1. trail = <<>> /\ chains = {} /\ failures = {} /\ lost = {} /\ now = 0 /\ stopped = FALSE
        /\ schedule \in Schedules
    BY EmptyTrail DEF Init
  <2>2. Entries(trail) = {} /\ \A chain : Tried(chain) = {}
    BY <2>1 DEF Entries, Tried
  <2>3. Tries = [chain \in Chains |-> 0]
    BY <2>2, FS_EmptySet DEF Tries
  <2> QED
    BY <2>1, <2>2, <2>3 DEF Policy!Init, Transcript, Ended, Gone
<1>7. (Virtual => Spaced)' <=> (Virtual => Spaced')
  OBVIOUS
<1> QED
  BY <1>1, <1>2, <1>3, <1>4, <1>5, <1>6, <1>7, InvHolds, PTL DEF Spec, FollowsPolicy, Policy!Spec
=============================================================================
