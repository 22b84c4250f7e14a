--------------------------- MODULE SerialExecutor ---------------------------
(***************************************************************************)
(* What the delivery worker promises the dispatcher, with no thread, lock  *)
(* or condition variable in it: jobs run one at a time in the order they   *)
(* were accepted, closing refuses new jobs and discards none, and whoever  *)
(* is told "settled" is told so only when every accepted job has run.      *)
(* DeliveryWorker implements this (its ImplementsExecutor).                *)
(***************************************************************************)
EXTENDS Naturals, Sequences

CONSTANTS
  Jobs,       \* every job anybody may hand in
  Callers     \* the threads that may ask whether the executor has settled

VARIABLES
  accepted,   \* the jobs handed in, in order
  ran,        \* the jobs that have finished, in order
  closed,     \* no further job is accepted
  vouched     \* vouched[c]: how many jobs had run when c was told "settled"

vars == <<accepted, ran, closed, vouched>>

Init ==
  /\ accepted = <<>>
  /\ ran = <<>>
  /\ closed = FALSE
  /\ vouched = [c \in Callers |-> 0]

Accept(j) ==
  /\ ~closed
  /\ accepted' = Append(accepted, j)
  /\ UNCHANGED <<ran, closed, vouched>>

Run ==
  /\ Len(ran) < Len(accepted)
  /\ ran' = Append(ran, accepted[Len(ran) + 1])
  /\ UNCHANGED <<accepted, closed, vouched>>

Close ==
  /\ closed' = TRUE
  /\ UNCHANGED <<accepted, ran, vouched>>

Settle(c) ==
  /\ Len(ran) = Len(accepted)
  /\ vouched' = [vouched EXCEPT ![c] = Len(ran)]
  /\ UNCHANGED <<accepted, ran, closed>>

Forget(c) ==
  /\ vouched' = [vouched EXCEPT ![c] = 0]
  /\ UNCHANGED <<accepted, ran, closed>>

Next ==
  \/ \E j \in Jobs : Accept(j)
  \/ Run
  \/ Close
  \/ \E c \in Callers : Settle(c) \/ Forget(c)

Spec == Init /\ [][Next]_vars
=============================================================================
