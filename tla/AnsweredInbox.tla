--------------------------- MODULE AnsweredInbox ---------------------------
(***************************************************************************)
(* What a partner may rely on who drops documents in `in` and collects     *)
(* from `out`, whatever polls the directories and whenever it is killed:   *)
(* the first document that waits is handled, answered and moved aside, in  *)
(* this order, by the unit that then runs; one that breaks its reader is   *)
(* never answered, and nothing behind it is.  FileDrop implements this     *)
(* (its FollowsInbox).                                                     *)
(***************************************************************************)
EXTENDS Naturals, Sequences

CONSTANTS
  Documents,      \* in the order they are dropped
  Malformed,      \* those that are not a request
  Poisoned,       \* those that stay, and everything behind them
  Refusal, None   \* the answer to those; no answer

VARIABLES
  dropped,        \* the documents dropped so far
  in, processed,  \* those that wait, those that are done
  out,            \* document -> its answer
  life,           \* which unit runs
  history         \* what the units handled

vars == <<dropped, in, processed, out, life, history>>

Init ==
  /\ dropped = {} /\ in = {} /\ processed = {}
  /\ out = [d \in Documents |-> None]
  /\ life = 0 /\ history = <<>>

Drop(d) ==
  /\ d \notin dropped /\ \A e \in Documents \ dropped : d <= e
  /\ dropped' = dropped \cup {d} /\ in' = in \cup {d}
  /\ UNCHANGED <<processed, out, life, history>>

First(d) == d \in in /\ \A e \in in : d <= e

(* What this unit says to d. *)
Said(d) ==
  IF d \in Malformed THEN {Refusal}
  ELSE {n \in DOMAIN history : history[n] = [life |-> life, document |-> d]}

Handle(d) ==
  /\ First(d) /\ d \notin Malformed \cup Poisoned /\ Said(d) = {}
  /\ history' = Append(history, [life |-> life, document |-> d])
  /\ UNCHANGED <<dropped, in, processed, out, life>>

Answer(d) ==
  /\ First(d)
  /\ \E answer \in Said(d) : out' = [out EXCEPT ![d] = answer]
  /\ UNCHANGED <<dropped, in, processed, life, history>>

MoveAside(d) ==
  /\ First(d) /\ out[d] \in Said(d)
  /\ in' = in \ {d} /\ processed' = processed \cup {d}
  /\ UNCHANGED <<dropped, out, life, history>>

Restart ==
  /\ life' = life + 1
  /\ UNCHANGED <<dropped, in, processed, out, history>>

Next ==
  \/ \E d \in Documents : Drop(d) \/ Handle(d) \/ Answer(d) \/ MoveAside(d)
  \/ Restart

Spec == Init /\ [][Next]_vars
=============================================================================
