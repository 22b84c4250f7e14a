---------------------------- MODULE EventOutbox ----------------------------
(***************************************************************************)
(* What the store and its dispatcher promise together, without threads,    *)
(* locks or listeners: a change, its entry in the journal and the events   *)
(* it calls for are one step, the events go out one by one in order, and   *)
(* the journal does not move before the last of them is out.  Store        *)
(* implements this (its FollowsOutbox).                                    *)
(***************************************************************************)
EXTENDS Naturals, Sequences

CONSTANTS
  Keys,         \* what the journal tells about
  Subscribers,  \* the keys of those who get the events
  Seed,         \* the keys there are from the start
  MaxEvents     \* how many events one change may call for

VARIABLES
  journal,  \* what became of which key, [key, to]
  saved,    \* the journals somebody may come back to
  due,      \* the events called for so far, each with who gets it
  sent      \* those that went out, [event, to]

vars == <<journal, saved, due, sent>>

Init ==
  /\ journal = [i \in DOMAIN Seed |-> [key |-> Seed[i], to |-> 1]]
  /\ saved = {} /\ due = <<>> /\ sent = {}

(* The version the last entry about k tells, 0 for none. *)
About(log, k) == {i \in DOMAIN log : log[i].key = k}
Version(log, k) ==
  IF About(log, k) = {} THEN 0
  ELSE log[CHOOSE i \in About(log, k) : \A j \in About(log, k) : j <= i].to

Following(log) == {s \in Subscribers : Version(log, s) > 0}

Event(n) == [event |-> n, to |-> due[n]]
AllOut == \A n \in DOMAIN due : Event(n) \in sent

(* Each waits for AllOut.  A subscription calls for no event. *)
Change(k, version) ==
  /\ journal' = Append(journal, [key |-> k, to |-> version])
  /\ \E events \in 0..MaxEvents :
       /\ events > 0 => k \notin Subscribers
       /\ due' = due \o [i \in 1..events |-> Following(journal)]
  /\ AllOut /\ UNCHANGED <<saved, sent>>

Create(k) == Version(journal, k) = 0 /\ Change(k, 1)
Update(k) == Version(journal, k) > 0 /\ Change(k, Version(journal, k) + 1)
Delete(k) == Version(journal, k) > 0 /\ Change(k, 0)

SendNext(n) ==
  /\ Event(n) \notin sent /\ \A m \in 1..n - 1 : Event(m) \in sent
  /\ sent' = sent \cup {Event(n)}
  /\ UNCHANGED <<journal, saved, due>>

Save ==
  /\ saved' = {journal}
  /\ AllOut /\ UNCHANGED <<journal, due, sent>>

Restore ==
  /\ journal' \in saved
  /\ AllOut /\ UNCHANGED <<saved, due, sent>>

Clear ==
  /\ journal' = <<>>
  /\ AllOut /\ UNCHANGED <<saved, due, sent>>

Next ==
  \/ \E k \in Keys : Create(k) \/ Update(k) \/ Delete(k)
  \/ \E n \in DOMAIN due : SendNext(n)
  \/ Save \/ Restore \/ Clear

Spec == Init /\ [][Next]_vars
=============================================================================
