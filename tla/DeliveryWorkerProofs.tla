------------------------ MODULE DeliveryWorkerProofs ------------------------
(***************************************************************************)
(* The safety properties of DeliveryWorker for any set of jobs and any set *)
(* of callers.  One inductive invariant carries all of them.               *)
(***************************************************************************)
EXTENDS DeliveryWorker, SequenceTheorems, TLAPS

(* What makes the properties inductive: the busy flag is up exactly while  *)
(* the thread has a job, the thread leaves only when nothing is left, and  *)
(* no caller asked about jobs that were not accepted yet.                  *)
Phases ==
  /\ busy <=> wpc \in {"running", "raised", "finishing"}
  /\ busy => job \in Jobs
  /\ wpc = "exited" => stopped /\ queue = <<>>
  /\ \A c \in Callers : asked[c] <= Len(accepted)

IInv == TypeOK /\ Phases /\ Conserved /\ NoLostWakeup /\ QuiesceCovers

(* The two ways one turn of the quiesce loop can go. *)
LEMMA TestSettledCases ==
  ASSUME TypeOK, NEW c \in Callers, NEW b \in InQuiesce, TestSettled(c, b)
  PROVE  /\ cpc' \in [Callers -> CallerStates]
         /\ waiting' \in SUBSET Threads
         /\ vouched' \in [Callers -> Nat]
         /\ waiting' \subseteq waiting \cup {c}
         /\ c \in waiting' \/ waiting' = waiting
         /\ waiting' = waiting \/ ~Settled
         /\ \A d \in Callers \ {c} : cpc'[d] = cpc[d] /\ vouched'[d] = vouched[d]
         /\ cpc'[c] = "settled" => Settled /\ vouched'[c] = Len(completed)
<1> USE DEF TypeOK, CallerStates, InQuiesce, Threads
<1>1. CASE Settled
  <2>1. /\ cpc' = [cpc EXCEPT ![c] = "settled"]
        /\ vouched' = [vouched EXCEPT ![c] = Len(completed)]
        /\ waiting' = waiting
    BY <1>1 DEF TestSettled
  <2>2. Len(completed) \in Nat
    BY LenProperties
  <2> QED
    BY <1>1, <2>1, <2>2
<1>2. CASE ~Settled
  BY <1>2 DEF TestSettled
<1> QED
  BY <1>1, <1>2

(* The queue, the failures and the histories stay sequences of jobs, and   *)
(* every thread stays at a place of the code.                              *)
LEMMA TypeStep == TypeOK /\ Phases /\ [Next]_vars => TypeOK'
<1> SUFFICES ASSUME TypeOK, Phases, [Next]_vars PROVE TypeOK'
  OBVIOUS
<1> USE DEF TypeOK, CallerStates, WorkerStates, InQuiesce, Threads, fields, history, NotifyAll, Bump
<1>1. ASSUME NEW c \in Callers, NEW j \in Jobs, Submit(c, j) PROVE TypeOK'
  BY <1>1 DEF Submit, Enqueue
<1>2. ASSUME NEW c \in Callers, NEW b \in InQuiesce, QuiesceCall(c, b) PROVE TypeOK'
  BY <1>2, TestSettledCases DEF QuiesceCall
<1>3. ASSUME NEW c \in Callers, QuiesceWake(c) PROVE TypeOK'
  BY <1>3, TestSettledCases DEF QuiesceWake
<1>4. ASSUME NEW c \in Callers, QuiesceTimeout(c) PROVE TypeOK'
  BY <1>4 DEF QuiesceTimeout
<1>5. ASSUME NEW c \in Callers, Return(c) PROVE TypeOK'
  BY <1>5 DEF Return
<1>6. ASSUME NEW c \in Callers, Stop(c) PROVE TypeOK'
  BY <1>6 DEF Stop
<1>7. ASSUME NEW c \in Callers, JoinReturn(c) PROVE TypeOK'
  BY <1>7 DEF JoinReturn
<1>8. CASE WorkerWait \/ WorkerExit \/ JobReturns \/ JobRaises
  BY <1>8 DEF WorkerWait, WorkerExit, ExitWhenStopped, JobReturns, JobRaises
<1>9. CASE WorkerTake
  BY <1>9, HeadTailProperties DEF WorkerTake
<1>10. CASE RecordFailure
  BY <1>10, AppendProperties DEF RecordFailure, Phases
<1>11. CASE Finish
  <2>1. job \in Jobs
    BY <1>11 DEF Finish, ClearBusy, Phases
  <2>2. completed' \in Seq(Jobs)
    BY <1>11, <2>1, AppendProperties DEF Finish, ClearBusy
  <2>3. generation' \in Nat
    BY <1>11 DEF Finish, ClearBusy
  <2> QED
    BY <1>11, <2>2, <2>3, Zenon DEF Finish, ClearBusy
<1>12. CASE UNCHANGED vars
  BY <1>12 DEF vars
<1> QED
  BY <1>1, <1>2, <1>3, <1>4, <1>5, <1>6, <1>7, <1>8, <1>9, <1>10, <1>11, <1>12
     DEF Next, Worker_Next, Caller_Next

(* The books stay balanced: only submit(), popleft() and the finally       *)
(* clause move a job, each from one place to the next.                     *)
LEMMA ConservedStep == TypeOK /\ Phases /\ Conserved /\ [Next]_vars => Conserved'
<1> SUFFICES ASSUME TypeOK, Phases, Conserved, [Next]_vars PROVE Conserved'
  OBVIOUS
<1> USE DEF fields, history
<1>0. /\ Len(queue) \in Nat /\ Len(accepted) \in Nat /\ Len(completed) \in Nat
      /\ InHand \in {0, 1}
  BY LenProperties DEF TypeOK, InHand
<1>a. Len(accepted) = Len(completed) + InHand + Len(queue)
  BY DEF Conserved
<1>1. ASSUME NEW c \in Callers, NEW j \in Jobs, Submit(c, j) PROVE Conserved'
  <2>1. /\ queue' = Append(queue, j) /\ accepted' = Append(accepted, j)
        /\ UNCHANGED <<busy, job, completed>>
    BY <1>1 DEF Submit, Enqueue
  <2>2. /\ Len(queue') = Len(queue) + 1 /\ Len(accepted') = Len(accepted) + 1
        /\ \A i \in 1 .. Len(queue) : queue'[i] = queue[i]
        /\ queue'[Len(queue) + 1] = j
        /\ \A i \in 1 .. Len(accepted) : accepted'[i] = accepted[i]
        /\ accepted'[Len(accepted) + 1] = j
    BY <2>1, AppendProperties DEF TypeOK
  <2>3. InHand' = InHand
    BY <2>1 DEF InHand
  <2>4. Len(accepted') = Len(completed') + InHand' + Len(queue')
    BY <1>0, <2>1, <2>2, <2>3 DEF Conserved
  <2>5. \A i \in 1 .. Len(completed') : completed'[i] = accepted'[i]
    BY <1>0, <2>1, <2>2 DEF Conserved
  <2>6. busy' => job' = accepted'[Len(completed') + 1]
    <3> SUFFICES ASSUME busy PROVE job = accepted'[Len(completed) + 1]
      BY <2>1
    <3>1. InHand = 1 /\ job = accepted[Len(completed) + 1]
      BY DEF InHand, Conserved
    <3> QED
      BY <1>0, <2>2, <3>1 DEF Conserved
  <2>7. \A i \in 1 .. Len(queue') : queue'[i] = accepted'[Len(completed') + InHand' + i]
    <3> SUFFICES ASSUME NEW i \in 1 .. Len(queue) + 1
                 PROVE  queue'[i] = accepted'[Len(completed) + InHand + i]
      BY <1>0, <2>1, <2>2, <2>3
    <3>1. CASE i = Len(queue) + 1
      <4>1. Len(completed) + InHand + i = Len(accepted) + 1
        BY <1>0, <1>a, <3>1
      <4> QED
        BY <2>2, <3>1, <4>1
    <3>2. CASE i \in 1 .. Len(queue)
      <4>1. Len(completed) + InHand + i \in 1 .. Len(accepted)
        BY <1>0, <3>2 DEF Conserved
      <4> QED
        BY <2>2, <3>2, <4>1 DEF Conserved
    <3> QED
      BY <1>0, <3>1, <3>2
  <2> QED
    BY <2>4, <2>5, <2>6, <2>7 DEF Conserved
<1>2. CASE WorkerTake
  <2>1. /\ job' = Head(queue) /\ queue' = Tail(queue) /\ busy' = TRUE
        /\ queue # <<>> /\ ~busy /\ UNCHANGED <<accepted, completed>>
    BY <1>2 DEF WorkerTake, WorkerAwake, Phases
  <2>2. /\ Len(queue) # 0 /\ Len(queue') = Len(queue) - 1
        /\ \A i \in 1 .. Len(queue') : queue'[i] = queue[i + 1]
    BY <2>1, EmptySeq, HeadTailProperties DEF TypeOK
  <2>3. job' = queue[1]
    BY <2>1
  <2>4. InHand = 0 /\ InHand' = 1
    BY <2>1 DEF InHand
  <2>5. Len(accepted') = Len(completed') + InHand' + Len(queue')
    <3>1. Len(accepted) = Len(completed) + InHand + Len(queue)
      BY DEF Conserved
    <3> QED
      BY <1>0, <2>1, <2>2, <2>4, <3>1 DEF TypeOK
  <2>6. job' = accepted'[Len(completed') + 1]
    BY <1>0, <2>1, <2>2, <2>3, <2>4 DEF Conserved
  <2>7. \A i \in 1 .. Len(queue') : queue'[i] = accepted'[Len(completed') + InHand' + i]
    BY <1>0, <2>1, <2>2, <2>4 DEF Conserved
  <2>8. \A i \in 1 .. Len(completed') : completed'[i] = accepted'[i]
    BY <2>1 DEF Conserved
  <2> QED
    BY <2>5, <2>6, <2>7, <2>8 DEF Conserved
<1>3. CASE Finish
  <2>1. /\ completed' = Append(completed, job) /\ busy /\ ~busy' /\ job \in Jobs
        /\ UNCHANGED <<accepted, queue>>
    BY <1>3 DEF Finish, ClearBusy, Phases
  <2>2. /\ Len(completed') = Len(completed) + 1
        /\ \A i \in 1 .. Len(completed) : completed'[i] = completed[i]
        /\ completed'[Len(completed) + 1] = job
    BY <2>1, AppendProperties DEF TypeOK
  <2>3. InHand = 1 /\ InHand' = 0
    BY <2>1 DEF InHand
  <2>4. job = accepted[Len(completed) + 1]
    BY <2>1 DEF Conserved
  <2>5. Len(accepted') = Len(completed') + InHand' + Len(queue')
    BY <1>0, <2>1, <2>2, <2>3 DEF Conserved
  <2>6. \A i \in 1 .. Len(completed') : completed'[i] = accepted'[i]
    BY <1>0, <2>1, <2>2, <2>4 DEF Conserved
  <2>7. \A i \in 1 .. Len(queue') : queue'[i] = accepted'[Len(completed') + InHand' + i]
    BY <1>0, <2>1, <2>2, <2>3 DEF Conserved
  <2> QED
    BY <2>1, <2>5, <2>6, <2>7 DEF Conserved
<1>4. CASE \/ WorkerWait \/ WorkerExit \/ JobReturns \/ JobRaises \/ RecordFailure
           \/ \E c \in Callers : \/ \E b \in InQuiesce : QuiesceCall(c, b)
                                 \/ QuiesceWake(c) \/ QuiesceTimeout(c)
                                 \/ Return(c) \/ Stop(c) \/ JoinReturn(c)
           \/ UNCHANGED vars
  <2>1. UNCHANGED <<queue, busy, job, accepted, completed>>
    BY <1>4 DEF WorkerWait, WorkerExit, ExitWhenStopped, JobReturns, JobRaises,
                RecordFailure, QuiesceCall, QuiesceWake, QuiesceTimeout, Return,
                Stop, JoinReturn, vars
  <2> QED
    BY <2>1 DEF Conserved, InHand
<1> QED
  BY <1>1, <1>2, <1>3, <1>4 DEF Next, Worker_Next, Caller_Next

(* Whatever empties the queue, raises the stop flag or clears busy         *)
(* notifies, and nobody goes to sleep on a condition that already holds.   *)
LEMMA WakeupStep ==
  TypeOK /\ Phases /\ NoLostWakeup /\ [Next]_vars => NoLostWakeup'
<1> SUFFICES ASSUME TypeOK, Phases, NoLostWakeup, [Next]_vars PROVE NoLostWakeup'
  OBVIOUS
<1> USE WorkerAssumption DEF NoLostWakeup, fields, history
<1>1. CASE \/ \E c \in Callers, j \in Jobs : Submit(c, j)
           \/ WorkerExit \/ Finish
  <2>1. waiting' = {}
    BY <1>1 DEF Submit, Enqueue, WorkerExit, ExitWhenStopped, Finish, NotifyAll
  <2> QED
    BY <2>1
<1>2. ASSUME NEW c \in Callers, NEW b \in InQuiesce, QuiesceCall(c, b)
      PROVE  NoLostWakeup'
  BY <1>2, TestSettledCases DEF QuiesceCall, Settled
<1>3. ASSUME NEW c \in Callers, QuiesceWake(c) PROVE NoLostWakeup'
  BY <1>3, TestSettledCases DEF QuiesceWake, Settled
<1>4. ASSUME NEW c \in Callers, QuiesceTimeout(c) PROVE NoLostWakeup'
  BY <1>4 DEF QuiesceTimeout, Settled
<1>5. ASSUME NEW c \in Callers, Stop(c) PROVE NoLostWakeup'
  <2>1. CASE stopped
    BY <1>5, <2>1 DEF Stop, Settled
  <2>2. CASE ~stopped
    BY <1>5, <2>2 DEF Stop, NotifyAll
  <2> QED
    BY <2>1, <2>2
<1>6. CASE WorkerWait
  <2>1. /\ waiting' = waiting \cup {Worker} /\ queue = <<>> /\ ~stopped
        /\ UNCHANGED <<queue, busy, stopped>>
    BY <1>6 DEF WorkerWait
  <2> QED
    BY <2>1 DEF Settled
<1>7. CASE WorkerTake
  <2>1. /\ Worker \notin waiting /\ waiting' = waiting /\ busy'
    BY <1>7 DEF WorkerTake, WorkerAwake
  <2> QED
    BY <2>1 DEF Settled
<1>8. CASE \/ JobReturns \/ JobRaises \/ RecordFailure
           \/ \E c \in Callers : Return(c) \/ JoinReturn(c)
           \/ UNCHANGED vars
  <2>1. UNCHANGED <<queue, busy, stopped, waiting>>
    BY <1>8 DEF JobReturns, JobRaises, RecordFailure, Return, JoinReturn, vars
  <2> QED
    BY <2>1 DEF Settled
<1> QED
  BY <1>1, <1>2, <1>3, <1>4, <1>5, <1>6, <1>7, <1>8
     DEF Next, Worker_Next, Caller_Next

(* An idle worker with an empty queue has finished everything accepted.    *)
LEMMA SettledMeansAllDone ==
  TypeOK /\ Conserved /\ Settled => Len(completed) = Len(accepted)
<1> SUFFICES ASSUME TypeOK, Conserved, Settled PROVE Len(completed) = Len(accepted)
  OBVIOUS
<1>1. InHand = 0 /\ Len(queue) = 0
  BY EmptySeq DEF Settled, InHand
<1>2. Len(completed) \in Nat /\ Len(accepted) = Len(completed) + InHand + Len(queue)
  BY LenProperties DEF TypeOK, Conserved
<1> QED
  BY <1>1, <1>2

(* The busy flag follows the thread; once the thread is gone nobody can    *)
(* fill the queue again, because stop() came first.                        *)
LEMMA PhasesStep == TypeOK /\ Phases /\ [Next]_vars => Phases'
<1> SUFFICES ASSUME TypeOK, Phases, [Next]_vars PROVE Phases'
  OBVIOUS
<1> USE DEF fields, history
<1>1. (busy <=> wpc \in {"running", "raised", "finishing"})'
  BY DEF Phases, Next, Worker_Next, Caller_Next, Submit, Enqueue, QuiesceCall,
         QuiesceWake, QuiesceTimeout, Return, Stop, JoinReturn, WorkerWait,
         WorkerExit, ExitWhenStopped, WorkerTake, WorkerAwake, JobReturns,
         JobRaises, RecordFailure, Finish, ClearBusy, vars
<1>2. (busy => job \in Jobs)'
  <2>1. CASE WorkerTake
    BY <2>1, HeadTailProperties DEF WorkerTake, TypeOK
  <2>2. CASE ~WorkerTake
    BY <2>2 DEF Phases, Next, Worker_Next, Caller_Next, Submit, Enqueue,
         QuiesceCall, QuiesceWake, QuiesceTimeout, Return, Stop, JoinReturn,
         WorkerWait, WorkerExit, ExitWhenStopped, JobReturns, JobRaises,
         RecordFailure, Finish, ClearBusy, vars
  <2> QED
    BY <2>1, <2>2
<1>3. (wpc = "exited" => stopped /\ queue = <<>>)'
  <2>1. ASSUME NEW c \in Callers, NEW j \in Jobs, Submit(c, j)
        PROVE  (wpc = "exited" => stopped /\ queue = <<>>)'
    BY <2>1 DEF Phases, Submit, Enqueue
  <2>2. CASE ~\E c \in Callers, j \in Jobs : Submit(c, j)
    BY <2>2 DEF Phases, Next, Worker_Next, Caller_Next, QuiesceCall,
         QuiesceWake, QuiesceTimeout, Return, Stop, JoinReturn, WorkerWait,
         WorkerExit, ExitWhenStopped, WorkerTake, WorkerAwake, JobReturns,
         JobRaises, RecordFailure, Finish, ClearBusy, vars
  <2> QED
    BY <2>1, <2>2
<1>4. (\A c \in Callers : asked[c] <= Len(accepted))'
  <2> SUFFICES ASSUME NEW d \in Callers PROVE asked'[d] <= Len(accepted')
    OBVIOUS
  <2>0. /\ Len(accepted) \in Nat /\ asked[d] <= Len(accepted) /\ asked[d] \in Nat
    BY LenProperties DEF TypeOK, Phases
  <2>1. ASSUME NEW c \in Callers, NEW j \in Jobs, Submit(c, j)
        PROVE  asked'[d] <= Len(accepted')
    <3>1. asked' = asked /\ Len(accepted') = Len(accepted) + 1
      BY <2>1, AppendProperties DEF Submit, Enqueue, TypeOK
    <3> QED
      BY <2>0, <3>1
  <2>2. ASSUME NEW c \in Callers, NEW b \in InQuiesce, QuiesceCall(c, b)
        PROVE  asked'[d] <= Len(accepted')
    <3>1. /\ accepted' = accepted
          /\ asked' = [asked EXCEPT ![c] = Len(accepted)]
      BY <2>2 DEF QuiesceCall
    <3> QED
      BY <2>0, <3>1 DEF TypeOK
  <2>3. ASSUME NEW c \in Callers, Return(c) PROVE asked'[d] <= Len(accepted')
    <3>1. accepted' = accepted /\ asked' = [asked EXCEPT ![c] = 0]
      BY <2>3 DEF Return
    <3> QED
      BY <2>0, <3>1 DEF TypeOK
  <2>4. CASE Worker_Next \/ UNCHANGED vars \/ \E c \in Callers : \/ QuiesceWake(c)
               \/ QuiesceTimeout(c) \/ Stop(c) \/ JoinReturn(c)
    <3>1. UNCHANGED <<asked, accepted>>
      BY <2>4 DEF Worker_Next, QuiesceWake, QuiesceTimeout, Stop, JoinReturn,
           WorkerWait, WorkerExit, ExitWhenStopped, WorkerTake, JobReturns,
           JobRaises, RecordFailure, Finish, ClearBusy, vars
    <3> QED
      BY <2>0, <3>1
  <2> QED
    BY <2>1, <2>2, <2>3, <2>4 DEF Next, Caller_Next
<1> QED
  BY <1>1, <1>2, <1>3, <1>4 DEF Phases

(* A verdict is given only when everything accepted is complete, and it    *)
(* keeps for as long as the caller holds it.                               *)
LEMMA CoversStep ==
  TypeOK /\ Phases /\ Conserved /\ QuiesceCovers /\ [Next]_vars => QuiesceCovers'
<1> SUFFICES ASSUME TypeOK, Phases, Conserved, QuiesceCovers, [Next]_vars,
                    NEW d \in Callers, cpc'[d] = "settled"
             PROVE  vouched'[d] >= asked'[d]
  BY DEF QuiesceCovers
<1> USE DEF fields, history
<1>0. /\ Len(accepted) \in Nat /\ asked[d] <= Len(accepted) /\ asked[d] \in Nat
      /\ vouched[d] \in Nat
      /\ cpc[d] = "settled" => vouched[d] >= asked[d]
  BY LenProperties DEF TypeOK, Phases, QuiesceCovers
<1>1. ASSUME NEW c \in Callers, NEW b \in InQuiesce, QuiesceCall(c, b)
      PROVE  vouched'[d] >= asked'[d]
  <2>1. /\ TestSettled(c, b) /\ asked' = [asked EXCEPT ![c] = Len(accepted)]
    BY <1>1 DEF QuiesceCall
  <2>2. CASE c = d
    BY <1>0, <2>1, <2>2, TestSettledCases, SettledMeansAllDone DEF TypeOK
  <2>3. CASE c # d
    BY <1>0, <2>1, <2>3, TestSettledCases DEF TypeOK
  <2> QED
    BY <2>2, <2>3
<1>2. ASSUME NEW c \in Callers, QuiesceWake(c) PROVE vouched'[d] >= asked'[d]
  <2>1. TestSettled(c, cpc[c]) /\ asked' = asked /\ cpc[c] \in InQuiesce
    BY <1>2 DEF QuiesceWake
  <2>2. CASE c = d
    BY <1>0, <2>1, <2>2, TestSettledCases, SettledMeansAllDone
  <2>3. CASE c # d
    BY <1>0, <2>1, <2>3, TestSettledCases
  <2> QED
    BY <2>2, <2>3
<1>3. ASSUME NEW c \in Callers, QuiesceTimeout(c) PROVE vouched'[d] >= asked'[d]
  <2>1. /\ asked' = asked
        /\ cpc' = [cpc EXCEPT ![c] = IF Settled THEN "settled" ELSE "gaveup"]
        /\ vouched' = IF Settled THEN [vouched EXCEPT ![c] = Len(completed)]
                                 ELSE vouched
    BY <1>3 DEF QuiesceTimeout
  <2>2. CASE c = d /\ Settled
    BY <1>0, <2>1, <2>2, SettledMeansAllDone DEF TypeOK
  <2>3. CASE c = d /\ ~Settled
    BY <2>1, <2>3 DEF TypeOK
  <2>4. CASE c # d
    BY <1>0, <2>1, <2>4 DEF TypeOK
  <2> QED
    BY <2>2, <2>3, <2>4
<1>4. ASSUME NEW c \in Callers, Return(c) PROVE vouched'[d] >= asked'[d]
  BY <1>0, <1>4 DEF Return, TypeOK
<1>5. CASE \/ Worker_Next \/ UNCHANGED vars
           \/ \E c \in Callers : \/ \E j \in Jobs : Submit(c, j)
                                 \/ Stop(c) \/ JoinReturn(c)
  <2>1. /\ UNCHANGED <<asked, vouched>>
        /\ cpc'[d] = "settled" => cpc[d] = "settled"
    BY <1>5 DEF Worker_Next, Submit, Enqueue, Stop, JoinReturn, WorkerWait,
         WorkerExit, ExitWhenStopped, WorkerTake, JobReturns, JobRaises,
         RecordFailure, Finish, ClearBusy, vars, TypeOK
  <2> QED
    BY <1>0, <2>1
<1> QED
  BY <1>1, <1>2, <1>3, <1>4, <1>5 DEF Next, Caller_Next

LEMMA InitEstablishes == Init => IInv
<1> SUFFICES ASSUME Init PROVE IInv
  OBVIOUS
<1>0. Len(queue) = 0 /\ Len(accepted) = 0 /\ Len(completed) = 0 /\ ~busy
  BY EmptySeq DEF Init
<1>1. TypeOK
  BY EmptySeq DEF Init, TypeOK, CallerStates, WorkerStates, InQuiesce, Threads
<1>2. Phases
  BY <1>0 DEF Init, Phases
<1>3. Conserved
  <2>1. InHand = 0
    BY <1>0 DEF InHand
  <2> QED
    BY <1>0, <2>1 DEF Conserved
<1>4. NoLostWakeup
  BY DEF Init, NoLostWakeup
<1>5. QuiesceCovers
  BY DEF Init, QuiesceCovers
<1> QED
  BY <1>1, <1>2, <1>3, <1>4, <1>5 DEF IInv

LEMMA StepPreserves == IInv /\ [Next]_vars => IInv'
BY TypeStep, PhasesStep, ConservedStep, WakeupStep, CoversStep DEF IInv

(* The inductive invariant holds of every behaviour.                       *)
THEOREM Invariance == Spec => []IInv
<1>1. Init => IInv
  BY InitEstablishes
<1>2. IInv /\ [Next]_vars => IInv'
  BY StepPreserves
<1> QED
  BY <1>1, <1>2, PTL DEF Spec

(* worker.py keeps every variable in its type.                             *)
THEOREM TypeCorrect == Spec => []TypeOK
<1>1. IInv => TypeOK
  BY DEF IInv
<1> QED
  BY <1>1, Invariance, PTL

(* FIFO and exactly-once, for any number of submitters: what was accepted  *)
(* is what was completed, what is in hand and what is queued, in order.    *)
THEOREM FifoExactlyOnce == Spec => []Conserved
<1>1. IInv => Conserved
  BY DEF IInv
<1> QED
  BY <1>1, Invariance, PTL

(* The notifications of worker.py suffice: nobody sleeps past its cue.     *)
THEOREM WakeupsSuffice == Spec => []NoLostWakeup
<1>1. IInv => NoLostWakeup
  BY DEF IInv
<1> QED
  BY <1>1, Invariance, PTL

(* quiesce() == True covers everything submitted before the call.          *)
THEOREM QuiesceIsSound == Spec => []QuiesceCovers
<1>1. IInv => QuiesceCovers
  BY DEF IInv
<1> QED
  BY <1>1, Invariance, PTL

(* When the thread has gone after stop(), no accepted job is left undone.  *)
THEOREM StopIsClean == Spec => []StopFinishesQueue
<1>1. IInv => StopFinishesQueue
  <2> SUFFICES ASSUME IInv, wpc = "exited"
               PROVE  stopped /\ Len(completed) = Len(accepted)
    BY DEF StopFinishesQueue
  <2>1. stopped /\ queue = <<>> /\ ~busy
    BY DEF IInv, Phases
  <2> QED
    BY <2>1, SettledMeansAllDone DEF IInv, Settled
<1> QED
  BY <1>1, Invariance, PTL

(* The generation moves by exactly one per submission and per completion.  *)
LEMMA GenerationStep ==
  TypeOK /\ Phases /\ GenerationCounts /\ [Next]_vars => GenerationCounts'
<1> SUFFICES ASSUME TypeOK, Phases, GenerationCounts, [Next]_vars
             PROVE  GenerationCounts'
  OBVIOUS
<1> USE DEF fields, history, GenerationCounts, Bump
<1>0. Len(accepted) \in Nat /\ Len(completed) \in Nat
  BY LenProperties DEF TypeOK
<1>1. ASSUME NEW c \in Callers, NEW j \in Jobs, Submit(c, j)
      PROVE  GenerationCounts'
  <2>1. /\ generation' = generation + 1 /\ completed' = completed
        /\ Len(accepted') = Len(accepted) + 1
    BY <1>1, AppendProperties DEF Submit, Enqueue, TypeOK
  <2> QED
    BY <1>0, <2>1
<1>2. CASE Finish
  <2>1. job \in Jobs
    BY <1>2 DEF Finish, ClearBusy, Phases
  <2>2. /\ generation' = generation + 1 /\ accepted' = accepted
        /\ Len(completed') = Len(completed) + 1
    BY <1>2, <2>1, AppendProperties DEF Finish, ClearBusy, TypeOK
  <2> QED
    BY <1>0, <2>2
<1>3. CASE \/ WorkerWait \/ WorkerExit \/ WorkerTake \/ JobReturns \/ JobRaises
           \/ RecordFailure \/ UNCHANGED vars
           \/ \E c \in Callers : \/ \E b \in InQuiesce : QuiesceCall(c, b)
                                 \/ QuiesceWake(c) \/ QuiesceTimeout(c)
                                 \/ Return(c) \/ Stop(c) \/ JoinReturn(c)
  <2>1. UNCHANGED <<generation, accepted, completed>>
    BY <1>3 DEF WorkerWait, WorkerExit, ExitWhenStopped, WorkerTake, JobReturns,
         JobRaises, RecordFailure, QuiesceCall, QuiesceWake, QuiesceTimeout,
         Return, Stop, JoinReturn, vars
  <2> QED
    BY <2>1
<1> QED
  BY <1>1, <1>2, <1>3 DEF Next, Worker_Next, Caller_Next

(* generation (worker.py:113-121) is the number of submissions and         *)
(* completions, so equal samples mean that the worker did not move.        *)
THEOREM GenerationIsExact == Spec => []GenerationCounts
<1>1. Init => GenerationCounts
  BY EmptySeq DEF Init, GenerationCounts
<1>2. IInv /\ GenerationCounts /\ [Next]_vars => GenerationCounts'
  BY GenerationStep DEF IInv
<1> QED
  BY <1>1, <1>2, Invariance, PTL DEF Spec

-----------------------------------------------------------------------------
(* One turn of the quiesce loop is either a verdict of the executor or     *)
(* nothing at all.                                                         *)
LEMMA TestSettledMaps ==
  ASSUME IInv, NEW c \in Callers, NEW b \in InQuiesce, TestSettled(c, b),
         UNCHANGED <<accepted, completed, stopped>>
  PROVE  Exec!Settle(c) \/ UNCHANGED Exec!vars
<1>1. CASE Settled
  <2>1. Len(completed) = Len(accepted)
    BY <1>1, SettledMeansAllDone DEF IInv
  <2>2. vouched' = [vouched EXCEPT ![c] = Len(completed)]
    BY <1>1 DEF TestSettled
  <2> QED
    BY <2>1, <2>2 DEF Exec!Settle
<1>2. CASE ~Settled
  BY <1>2 DEF TestSettled, Exec!vars
<1> QED
  BY <1>1, <1>2

LEMMA StepMaps == IInv /\ [Next]_vars => [Exec!Next]_(Exec!vars)
<1> SUFFICES ASSUME IInv, [Next]_vars PROVE Exec!Next \/ UNCHANGED Exec!vars
  OBVIOUS
<1> USE DEF fields, history
<1>1. ASSUME NEW c \in Callers, NEW j \in Jobs, Submit(c, j) PROVE Exec!Next
  <2>1. Exec!Accept(j)
    BY <1>1 DEF Submit, Enqueue, Exec!Accept
  <2> QED
    BY <2>1 DEF Exec!Next
<1>2. CASE Finish
  <2>1. /\ completed' = Append(completed, job) /\ busy
        /\ UNCHANGED <<accepted, stopped, vouched>>
    BY <1>2 DEF Finish, ClearBusy, IInv, Phases
  <2>2. job = accepted[Len(completed) + 1]
    BY <2>1 DEF IInv, Conserved
  <2>3. Len(completed) < Len(accepted)
    <3>1. /\ Len(accepted) = Len(completed) + InHand + Len(queue)
          /\ Len(completed) \in Nat /\ Len(queue) \in Nat
      BY LenProperties DEF IInv, Conserved, TypeOK
    <3>2. InHand = 1
      BY <2>1 DEF InHand
    <3> QED
      BY <3>1, <3>2
  <2>4. Exec!Run
    BY <2>1, <2>2, <2>3 DEF Exec!Run
  <2> QED
    BY <2>4 DEF Exec!Next
<1>3. ASSUME NEW c \in Callers, NEW b \in InQuiesce, QuiesceCall(c, b)
      PROVE  Exec!Next \/ UNCHANGED Exec!vars
  BY <1>3, TestSettledMaps DEF QuiesceCall, Exec!Next
<1>4. ASSUME NEW c \in Callers, QuiesceWake(c)
      PROVE  Exec!Next \/ UNCHANGED Exec!vars
  BY <1>4, TestSettledMaps DEF QuiesceWake, Exec!Next
<1>5. ASSUME NEW c \in Callers, QuiesceTimeout(c)
      PROVE  Exec!Next \/ UNCHANGED Exec!vars
  <2>1. CASE Settled
    <3>1. Len(completed) = Len(accepted)
      BY <2>1, SettledMeansAllDone DEF IInv
    <3>2. Exec!Settle(c)
      BY <1>5, <2>1, <3>1 DEF QuiesceTimeout, Exec!Settle
    <3> QED
      BY <3>2 DEF Exec!Next
  <2>2. CASE ~Settled
    BY <1>5, <2>2 DEF QuiesceTimeout, Exec!vars
  <2> QED
    BY <2>1, <2>2
<1>6. ASSUME NEW c \in Callers, Return(c) PROVE Exec!Next
  <2>1. Exec!Forget(c)
    BY <1>6 DEF Return, Exec!Forget
  <2> QED
    BY <2>1 DEF Exec!Next
<1>7. ASSUME NEW c \in Callers, Stop(c) PROVE Exec!Next
  BY <1>7 DEF Stop, Exec!Next, Exec!Close
<1>8. CASE \/ WorkerWait \/ WorkerExit \/ WorkerTake \/ JobReturns \/ JobRaises
           \/ RecordFailure \/ UNCHANGED vars \/ \E c \in Callers : JoinReturn(c)
  BY <1>8 DEF WorkerWait, WorkerExit, ExitWhenStopped, WorkerTake, JobReturns,
       JobRaises, RecordFailure, JoinReturn, vars, Exec!vars
<1> QED
  BY <1>1, <1>2, <1>3, <1>4, <1>5, <1>6, <1>7, <1>8
     DEF Next, Worker_Next, Caller_Next

(* The thread, its queue and its condition variable implement the serial   *)
(* executor: the detailed worker is a refinement of SerialExecutor.        *)
THEOREM WorkerIsSerialExecutor == Spec => ImplementsExecutor
<1>1. Init => Exec!Init
  BY DEF Init, Exec!Init
<1>2. IInv /\ [Next]_vars => [Exec!Next]_(Exec!vars)
  BY StepMaps
<1> QED
  BY <1>1, <1>2, Invariance, PTL DEF Spec, ImplementsExecutor, Exec!Spec
=============================================================================
