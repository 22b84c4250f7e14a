--------------------------- MODULE DeliveryWorker ---------------------------
(***************************************************************************)
(* core/webhooks/worker.py: one thread, one FIFO queue and one condition   *)
(* variable.  Every `with self._cond` block of the code is one action; the *)
(* threads blocked in `_cond.wait()` are the set `waiting`, and notify_all *)
(* empties it, so a forgotten notification is a thread that never wakes.   *)
(***************************************************************************)
EXTENDS Naturals, Sequences

CONSTANTS
  Jobs,       \* the submissions; each is handed in at most once
  Callers,    \* the threads that use the worker: requests, timers, drains
  Worker,     \* the delivery thread itself
  NoJob       \* the delivery thread has no job in hand

ASSUME WorkerAssumption == Worker \notin Callers /\ NoJob \notin Jobs

VARIABLES
  queue,        \* _queue
  busy,         \* _busy
  stopped,      \* _stopped
  generation,   \* _generation
  failures,     \* _failures: the jobs that raised, oldest first
  job,          \* the local `job` of _run
  wpc,          \* where the delivery thread is; "none" is _thread = None
  cpc,          \* where each caller is
  waiting,      \* threads blocked in _cond.wait()
  accepted,     \* history: every job submitted, in order
  completed,    \* history: every job finished, in order
  asked,        \* history: how many jobs were accepted when c called quiesce
  vouched       \* history: how many were complete when c was told True

fields  == <<queue, busy, stopped, generation, failures, job>>
history == <<accepted, completed, asked, vouched>>
vars    == <<fields, wpc, cpc, waiting, history>>

Threads == Callers \cup {Worker}
InQuiesce == {"waiting", "timed"}
CallerStates == {"idle", "settled", "gaveup", "joining"} \cup InQuiesce
WorkerStates == {"none", "loop", "running", "raised", "finishing", "exited"}

Elements(s) == {s[i] : i \in 1 .. Len(s)}

SettledIgnoringBusy == queue = <<>>

(* the `while self._queue or self._busy` test of quiesce *)
Settled == queue = <<>> /\ ~busy

(* notify() instead: one condition serves the thread and the callers, so   *)
(* the one that is woken may be the wrong one.                             *)
NotifyOne ==
  \/ waiting = {} /\ waiting' = {}
  \/ \E t \in waiting : waiting' = waiting \ {t}

(* _cond.notify_all() *)
NotifyAll == waiting' = {}

(* `self._generation += 1`, on every submission and every completed job *)
Bump == generation' = generation + 1

-----------------------------------------------------------------------------
Init ==
  /\ queue = <<>> /\ busy = FALSE /\ stopped = FALSE
  /\ generation = 0 /\ failures = <<>> /\ job = NoJob
  /\ wpc = "none" /\ waiting = {}
  /\ cpc = [c \in Callers |-> "idle"]
  /\ accepted = <<>> /\ completed = <<>>
  /\ asked = [c \in Callers |-> 0] /\ vouched = [c \in Callers |-> 0]

(* The body of submit().  The first submission starts the thread. *)
Enqueue(c, j) ==
  /\ cpc[c] = "idle"
  /\ j \notin Elements(accepted)
  /\ queue' = Append(queue, j)
  /\ accepted' = Append(accepted, j)
  /\ Bump
  /\ wpc' = IF wpc = "none" THEN "loop" ELSE wpc
  /\ NotifyAll
  /\ UNCHANGED <<busy, stopped, failures, job, cpc, completed, asked, vouched>>

(* submit() raises once stop() was called, so the job is never accepted. *)
Submit(c, j) == ~stopped /\ Enqueue(c, j)

-----------------------------------------------------------------------------
(* quiesce().  Called from the delivery thread it raises at once, which    *)
(* ends the job that called it: that is one of the ways of JobRaises.      *)

(* One turn of the while loop of a caller that holds the condition. *)
TestSettled(c, blocked) ==
  IF Settled
    THEN /\ cpc' = [cpc EXCEPT ![c] = "settled"]
         /\ vouched' = [vouched EXCEPT ![c] = Len(completed)]
         /\ UNCHANGED waiting
    ELSE /\ cpc' = [cpc EXCEPT ![c] = blocked]
         /\ waiting' = waiting \cup {c}
         /\ UNCHANGED vouched

QuiesceCall(c, blocked) ==
  /\ cpc[c] = "idle"
  /\ asked' = [asked EXCEPT ![c] = Len(accepted)]
  /\ TestSettled(c, blocked)
  /\ UNCHANGED <<fields, wpc, accepted, completed>>

QuiesceWake(c) ==
  /\ cpc[c] \in InQuiesce /\ c \notin waiting
  /\ TestSettled(c, cpc[c])
  /\ UNCHANGED <<fields, wpc, accepted, completed, asked>>

(* `_cond.wait(remaining)` came back because the time is up, and the loop  *)
(* tests the queue once more before it answers False.                      *)
QuiesceTimeout(c) ==
  /\ cpc[c] = "timed"
  /\ waiting' = waiting \ {c}
  /\ cpc' = [cpc EXCEPT ![c] = IF Settled THEN "settled" ELSE "gaveup"]
  /\ vouched' = IF Settled THEN [vouched EXCEPT ![c] = Len(completed)]
                           ELSE vouched
  /\ UNCHANGED <<fields, wpc, accepted, completed, asked>>

(* The caller goes on; its verdict is no longer of interest. *)
Return(c) ==
  /\ cpc[c] \in {"settled", "gaveup"}
  /\ cpc' = [cpc EXCEPT ![c] = "idle"]
  /\ asked' = [asked EXCEPT ![c] = 0]
  /\ vouched' = [vouched EXCEPT ![c] = 0]
  /\ UNCHANGED <<fields, wpc, waiting, accepted, completed>>

-----------------------------------------------------------------------------
(* stop(): the second call changes nothing.  The join has a timeout, so it *)
(* may come back before the thread is gone.                                *)
Stop(c) ==
  /\ cpc[c] = "idle"
  /\ stopped' = TRUE
  /\ IF stopped THEN UNCHANGED waiting ELSE NotifyAll
  /\ cpc' = [cpc EXCEPT ![c] = IF wpc = "none" THEN "idle" ELSE "joining"]
  /\ UNCHANGED <<queue, busy, generation, failures, job, wpc, history>>

JoinReturn(c) ==
  /\ cpc[c] = "joining"
  /\ cpc' = [cpc EXCEPT ![c] = "idle"]
  /\ UNCHANGED <<fields, wpc, waiting, history>>

-----------------------------------------------------------------------------
(* _run(): the delivery thread.                                            *)

WorkerAwake == wpc = "loop" /\ Worker \notin waiting

WorkerWait ==
  /\ WorkerAwake /\ queue = <<>> /\ ~stopped
  /\ waiting' = waiting \cup {Worker}
  /\ UNCHANGED <<fields, wpc, cpc, history>>

(* Leaving on `stopped` alone would strand what is still queued. *)
ExitWhenStopped ==
  /\ WorkerAwake /\ stopped
  /\ wpc' = "exited"
  /\ NotifyAll
  /\ UNCHANGED <<fields, cpc, history>>

WorkerExit == queue = <<>> /\ ExitWhenStopped

(* pop() where the code has popleft() *)
TakeNewest ==
  /\ WorkerAwake /\ queue # <<>>
  /\ job' = queue[Len(queue)]
  /\ queue' = SubSeq(queue, 1, Len(queue) - 1)
  /\ busy' = TRUE
  /\ wpc' = "running"
  /\ UNCHANGED <<stopped, generation, failures, cpc, waiting, history>>

WorkerTake ==
  /\ WorkerAwake /\ queue # <<>>
  /\ job' = Head(queue)
  /\ queue' = Tail(queue)
  /\ busy' = TRUE
  /\ wpc' = "running"
  /\ UNCHANGED <<stopped, generation, failures, cpc, waiting, history>>

JobReturns ==
  /\ wpc = "running"
  /\ wpc' = "finishing"
  /\ UNCHANGED <<fields, cpc, waiting, history>>

JobRaises ==
  /\ wpc = "running"
  /\ wpc' = "raised"
  /\ UNCHANGED <<fields, cpc, waiting, history>>

RecordFailure ==
  /\ wpc = "raised"
  /\ failures' = Append(failures, job)
  /\ wpc' = "finishing"
  /\ UNCHANGED <<queue, busy, stopped, generation, job, cpc, waiting, history>>

(* The body of the finally clause, before its notification. *)
ClearBusy ==
  /\ wpc = "finishing"
  /\ busy' = FALSE
  /\ Bump
  /\ completed' = Append(completed, job)
  /\ job' = NoJob
  /\ wpc' = "loop"
  /\ UNCHANGED <<queue, stopped, failures, cpc, accepted, asked, vouched>>

FinishSilently == ClearBusy /\ UNCHANGED waiting

Finish == ClearBusy /\ NotifyAll

-----------------------------------------------------------------------------
Worker_Next ==
  \/ WorkerWait \/ WorkerExit \/ WorkerTake
  \/ JobReturns \/ JobRaises \/ RecordFailure \/ Finish

Caller_Next(c) ==
  \/ \E j \in Jobs : Submit(c, j)
  \/ \E blocked \in InQuiesce : QuiesceCall(c, blocked)
  \/ QuiesceWake(c) \/ QuiesceTimeout(c) \/ Return(c)
  \/ Stop(c) \/ JoinReturn(c)

Next == Worker_Next \/ \E c \in Callers : Caller_Next(c)

Spec == Init /\ [][Next]_vars

(* The delivery thread keeps running and its jobs end (a sink answers or   *)
(* times out); a caller that was notified gets the condition again.        *)
Fairness == WF_vars(Worker_Next) /\ \A c \in Callers : WF_vars(QuiesceWake(c))

FairSpec == Spec /\ Fairness
-----------------------------------------------------------------------------
(* Types of every variable. *)
TypeOK ==
  /\ queue \in Seq(Jobs) /\ busy \in BOOLEAN /\ stopped \in BOOLEAN
  /\ generation \in Nat /\ failures \in Seq(Jobs)
  /\ job \in Jobs \cup {NoJob}
  /\ wpc \in WorkerStates /\ cpc \in [Callers -> CallerStates]
  /\ waiting \in SUBSET Threads
  /\ accepted \in Seq(Jobs) /\ completed \in Seq(Jobs)
  /\ asked \in [Callers -> Nat] /\ vouched \in [Callers -> Nat]

InHand == IF busy THEN 1 ELSE 0

(* Nothing is lost, duplicated or overtaken: the jobs accepted are those   *)
(* completed, then the one in hand, then the queue, in that order, however *)
(* many threads submit (worker.py: "Deliveries are strictly ordered").     *)
Conserved ==
  /\ Len(accepted) = Len(completed) + InHand + Len(queue)
  /\ \A i \in 1 .. Len(completed) : completed[i] = accepted[i]
  /\ busy => job = accepted[Len(completed) + 1]
  /\ \A i \in 1 .. Len(queue) :
       queue[i] = accepted[Len(completed) + InHand + i]

(* No wake-up is lost: a thread blocked in _cond.wait() has nothing to do  *)
(* yet.  The one condition serves two predicates (work for the thread,     *)
(* idleness for the callers), so every change of either must notify.       *)
NoLostWakeup ==
  /\ Worker \in waiting => queue = <<>> /\ ~stopped
  /\ \A c \in Callers : c \in waiting => ~Settled

(* A quiesce that answers True covers every job submitted before it was    *)
(* called, whatever was submitted, finished or stopped meanwhile.          *)
QuiesceCovers ==
  \A c \in Callers : cpc[c] = "settled" => vouched[c] >= asked[c]

(* stop() discards nothing: a thread that has gone left no job behind.     *)
StopFinishesQueue ==
  wpc = "exited" => stopped /\ Len(completed) = Len(accepted)

(* The generation counts submissions and completions, one each, so equal   *)
(* samples really mean that the worker did not move (worker.py:113-121).   *)
GenerationCounts == generation = Len(accepted) + Len(completed)

Exec == INSTANCE SerialExecutor WITH ran <- completed, closed <- stopped

(* The worker behaves as the serial executor the dispatcher relies on.     *)
ImplementsExecutor == Exec!Spec

(* Every accepted job is eventually finished, also after stop() and after  *)
(* jobs that raised.                                                       *)
EveryJobFinishes ==
  \A j \in Jobs : (j \in Elements(accepted)) ~> (j \in Elements(completed))

=============================================================================
