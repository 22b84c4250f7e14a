-------------------------- MODULE RetriedDelivery --------------------------
(***************************************************************************)
(* What the webhook path promises a consumer, with no queue, timer, thread *)
(* or reorder slot in it: each delivery is prepared once, is tried one     *)
(* attempt after the other, each as the retry policy says, and has one     *)
(* end.  WebhookDelivery implements this (its FollowsPolicy).              *)
(***************************************************************************)
EXTENDS Naturals, Sequences, FiniteSets

CONSTANTS
  Deliveries,  \* every (event, subscriber, copy)
  Schedules,   \* the delays a policy may name, retry by retry
  Timed        \* the time that passes between two attempts is told

VARIABLES
  now,         \* the time
  schedule,    \* the policy's delays; after the last one it gives up
  closed,      \* the unit is stopped
  prepared,    \* the deliveries there are
  tries,       \* tries[d]: the attempts at d so far
  transcript,  \* what was recorded about each attempt
  ended,       \* the deliveries that came to an end
  lost         \* those given up without a record

vars == <<now, schedule, closed, prepared, tries, transcript, ended, lost>>
setting == <<now, schedule, closed>>

Init ==
  /\ now = 0 /\ schedule \in Schedules /\ closed = FALSE
  /\ prepared = {} /\ tries = [d \in Deliveries |-> 0] /\ transcript = {}
  /\ ended = {} /\ lost = {}

Open == prepared \ (ended \cup lost)

(* Deliveries for one event and subscriber.  One that nobody has tried yet *)
(* may have to make room, and a stopped unit gives up what it likes.       *)
Prepare(new, dropped) ==
  /\ new # {} /\ new \subseteq Deliveries \ prepared
  /\ dropped \subseteq Open \cup new
  /\ \/ dropped = {} \/ closed
     \/ \E d \in Open : dropped = {d} /\ tries[d] = 0
  /\ prepared' = prepared \cup new /\ lost' = lost \cup dropped
  /\ UNCHANGED <<setting, tries, transcript, ended>>

Abandon(dropped) ==
  /\ closed /\ dropped \subseteq Open
  /\ lost' = lost \cup dropped
  /\ UNCHANGED <<setting, prepared, tries, transcript, ended>>

(* The delay of the failed attempt before has passed. *)
Due(d) == Timed => \A a \in transcript : a.of = d => a.at + a.next <= now

Attempt(d, status, next) ==
  /\ d \in Open /\ Due(d)
  /\ tries' = [tries EXCEPT ![d] = @ + 1]
  /\ transcript' = transcript \cup
       {[of |-> d, nth |-> tries[d] + 1, status |-> status, at |-> now, next |-> next]}
  /\ UNCHANGED <<setting, prepared, lost>>

Fail(d) ==
  /\ tries[d] < Len(schedule)
  /\ Attempt(d, "failed", schedule[tries[d] + 1])
  /\ UNCHANGED ended

End(d, status) == Attempt(d, status, 0) /\ ended' = ended \cup {d}

Deliver(d) == End(d, "delivered")
Exhaust(d) == tries[d] >= Len(schedule) /\ End(d, "exhausted")
Drop(d) == tries[d] = 0 /\ End(d, "dropped")

(* An attempt that raises is the end, and nothing is recorded of it.       *)
Break(d) ==
  /\ d \in Open
  /\ ended' = ended \cup {d}
  /\ UNCHANGED <<setting, prepared, tries, transcript, lost>>

others == <<prepared, tries, transcript, ended, lost>>

Elapse ==
  /\ now' \in Nat /\ now' >= now
  /\ UNCHANGED <<schedule, closed, others>>

Patch ==
  /\ schedule' \in Schedules
  /\ UNCHANGED <<now, closed, others>>

Close ==
  /\ closed' = TRUE
  /\ UNCHANGED <<now, schedule, others>>

Next ==
  \/ \E new, dropped \in SUBSET Deliveries : Prepare(new, dropped)
  \/ \E dropped \in SUBSET Deliveries : Abandon(dropped)
  \/ \E d \in Deliveries : Fail(d) \/ Deliver(d) \/ Exhaust(d) \/ Drop(d) \/ Break(d)
  \/ Elapse \/ Patch \/ Close

Spec == Init /\ [][Next]_vars
=============================================================================
