------------------------------ MODULE FileDrop ------------------------------
(***************************************************************************)
(* The file-drop binding of a unit (core/transport/filedrop.py): request   *)
(* documents in `in`, answers in `out`, handled requests in `processed`.   *)
(* The owner of the binding polls by itself or starts and stops a thread   *)
(* that polls; a partner drops the documents of a batch in name order; the *)
(* process may be killed between any two file operations, and comes back   *)
(* with a new unit over the same three directories.                        *)
(***************************************************************************)
EXTENDS Integers, Sequences, FiniteSets, SequencesExt

CONSTANTS
  Documents,           \* the documents, as integers in name order
  Malformed,           \* those that are not a request
  Poisoned,            \* those whose headers or query dict() refuses: "x", 7
  Threads,             \* the threads that start() may create
  Owner,               \* the thread that owns the binding and may poll itself
  JoinExpires,         \* whether a request may outlast the timeout of stop()
  MaxCrashes,          \* bound on the crashes
  Refusal, None        \* the answer to a malformed document; no answer

ASSUME FileDropAssumption ==
  /\ Documents \subseteq Nat
  /\ Malformed \subseteq Documents /\ Poisoned \subseteq Documents \ Malformed
  /\ Owner \notin Threads /\ MaxCrashes \in Nat /\ JoinExpires \in BOOLEAN
  /\ None \notin Threads \cup Nat /\ Refusal # None

VARIABLES
  dropped,             \* the documents the partner has dropped so far
  in, processed,       \* the documents in these directories
  out,                 \* document -> its published answer, or None
  life,                \* which unit this is: the crashes so far
  history,             \* what the units were asked to handle, in order
  pc, batch, reply,    \* per poller: its step, the rest of its pass, the answer in hand
  stopped,             \* the event _stop
  thread,              \* the handle _thread, or None
  joining              \* the thread stop() waits for, or None

vars == <<dropped, in, processed, out, life, history, pc, batch, reply, stopped, thread, joining>>
files == <<in, processed, out>>
control == <<stopped, thread, joining>>

Pollers == Threads \cup {Owner}

Init ==
  /\ dropped = {} /\ in = {} /\ processed = {}
  /\ out = [d \in Documents |-> None]
  /\ life = 0 /\ history = <<>>
  /\ pc = [p \in Pollers |-> "off"]
  /\ batch = [p \in Pollers |-> <<>>]
  /\ reply = [p \in Pollers |-> None]
  /\ stopped = FALSE /\ thread = None /\ joining = None

-----------------------------------------------------------------------------
(* A pass over the documents: poll, _process, _answer.                     *)

Become(p, step) == pc' = [pc EXCEPT ![p] = step]

\* Directory order instead of name order.
DirectoryOrder(S) == Reverse(SetToSortSeq(S, <))
NameOrder(S) ==
  CHOOSE s \in [1..Cardinality(S) -> S] :
    /\ \A d \in S : \E i \in DOMAIN s : s[i] = d
    /\ \A i, j \in DOMAIN s : i < j => s[i] < s[j]

\* poll: every request document waiting right now, in name order.
List(p) ==
  /\ pc[p] = "list"
  /\ batch' = [batch EXCEPT ![p] = NameOrder(in)]
  /\ Become(p, "next")
  /\ UNCHANGED <<dropped, files, life, history, reply, control>>

\* An exception nobody catches: it ends the pass, and the thread that polls.
\* The handle of the thread stays, so that start() does nothing.
Die(p) == batch' = [batch EXCEPT ![p] = <<>>] /\ Become(p, "off")

\* _process reads the document; one that is gone is unreadable as well.
Read(p) ==
  /\ pc[p] = "next" /\ batch[p] # <<>>
  /\ Head(batch[p]) \notin in \cap Poisoned
  /\ LET d == Head(batch[p]) IN
       IF d \in in \ Malformed
       THEN Become(p, "handle") /\ UNCHANGED reply
       ELSE Become(p, "publish") /\ reply' = [reply EXCEPT ![p] = Refusal]
  /\ UNCHANGED <<dropped, files, life, history, batch, control>>

\* dict() of headers or a query it cannot read raises outside the try.
ReadPoisoned(p) ==
  /\ pc[p] = "next" /\ batch[p] # <<>>
  /\ Head(batch[p]) \in in \cap Poisoned
  /\ Die(p)
  /\ UNCHANGED <<dropped, files, life, history, reply, control>>

Handle(p) ==
  /\ pc[p] = "handle"
  /\ history' = Append(history, [life |-> life, document |-> Head(batch[p])])
  /\ reply' = [reply EXCEPT ![p] = Len(history')]
  /\ Become(p, "publish")
  /\ UNCHANGED <<dropped, files, life, batch, control>>

\* The request moved aside before it is answered.
MoveFirst(p) ==
  /\ pc[p] = "publish"
  /\ in' = in \ {Head(batch[p])} /\ processed' = processed \cup {Head(batch[p])}
  /\ Become(p, "move")
  /\ UNCHANGED <<dropped, out, life, history, batch, reply, control>>

\* The staged answer is renamed into `out`, over whatever has that name.
Publish(p) ==
  /\ pc[p] = "publish"
  /\ out' = [out EXCEPT ![Head(batch[p])] = reply[p]]
  /\ Become(p, "move")
  /\ UNCHANGED <<dropped, in, processed, life, history, batch, reply, control>>

\* The request is moved aside; if it is gone the pass dies.
Move(p) ==
  /\ pc[p] = "move"
  /\ LET d == Head(batch[p]) IN
       IF d \in in
       THEN /\ in' = in \ {d} /\ processed' = processed \cup {d}
            /\ batch' = [batch EXCEPT ![p] = Tail(@)]
            /\ Become(p, "next")
       ELSE Die(p) /\ UNCHANGED <<in, processed>>
  /\ reply' = [reply EXCEPT ![p] = None]
  /\ UNCHANGED <<dropped, out, life, history, control>>

\* A thread that polls once.
EndPassOff(p) ==
  /\ pc[p] = "next" /\ batch[p] = <<>>
  /\ Become(p, "off")
  /\ UNCHANGED <<dropped, files, life, history, batch, reply, control>>

\* The end of a pass: a loop thread waits on the event and looks at it again.
EndPass(p) ==
  /\ pc[p] = "next" /\ batch[p] = <<>>
  /\ Become(p, IF p = Owner THEN "off" ELSE "top")
  /\ UNCHANGED <<dropped, files, life, history, batch, reply, control>>

\* _loop looks at the event between two passes only.
LoopTop(p) ==
  /\ pc[p] = "top"
  /\ Become(p, IF stopped THEN "off" ELSE "list")
  /\ UNCHANGED <<dropped, files, life, history, batch, reply, control>>

Step(p) ==
  \/ List(p) \/ Read(p) \/ ReadPoisoned(p) \/ Handle(p) \/ Publish(p) \/ Move(p)
  \/ EndPass(p) \/ LoopTop(p)

-----------------------------------------------------------------------------
(* The owner: "Poll it, or let a thread poll it".                          *)

Free == joining = None /\ pc[Owner] = "off"

PollNow ==
  /\ Free /\ thread = None
  /\ Become(Owner, "list")
  /\ UNCHANGED <<dropped, files, life, history, batch, reply, control>>

\* start: a second call does nothing; the event is shared by all threads.
Start(t) ==
  /\ Free /\ thread = None /\ pc[t] = "off"
  /\ stopped' = FALSE /\ thread' = t
  /\ Become(t, "top")
  /\ UNCHANGED <<dropped, files, life, history, batch, reply, joining>>

\* The thread signalled and forgotten, without the join.
StopAtOnce ==
  /\ Free
  /\ stopped' = TRUE /\ thread' = None
  /\ UNCHANGED <<dropped, files, life, history, pc, batch, reply, joining>>

\* stop: signals, forgets the handle, and joins what it was.
Stop ==
  /\ Free
  /\ stopped' = TRUE /\ thread' = None /\ joining' = thread
  /\ UNCHANGED <<dropped, files, life, history, pc, batch, reply>>

\* join(timeout) answers nothing, so stop cannot tell which of the two it was.
Joined ==
  /\ joining # None
  /\ pc[joining] = "off" \/ (JoinExpires /\ pc[joining] = "handle")
  /\ joining' = None
  /\ UNCHANGED <<dropped, files, life, history, pc, batch, reply, stopped, thread>>

-----------------------------------------------------------------------------
(* The partner and the power.                                              *)

Drop(d) ==
  /\ d \notin dropped /\ \A e \in Documents \ dropped : d <= e
  /\ dropped' = dropped \cup {d} /\ in' = in \cup {d}
  /\ UNCHANGED <<processed, out, life, history, pc, batch, reply, control>>

\* The directories stay, with the renames done so far; the unit does not.
Crash ==
  /\ life < MaxCrashes
  /\ life' = life + 1
  /\ pc' = [p \in Pollers |-> "off"]
  /\ batch' = [p \in Pollers |-> <<>>]
  /\ reply' = [p \in Pollers |-> None]
  /\ stopped' = FALSE /\ thread' = None /\ joining' = None
  /\ UNCHANGED <<dropped, files, history>>

Next ==
  \/ \E p \in Pollers : Step(p)
  \/ PollNow \/ (\E t \in Threads : Start(t)) \/ Stop \/ Joined
  \/ \E d \in Documents : Drop(d)
  \/ Crash

\* A thread that runs is scheduled; nobody has to start, stop or drop.
Fairness == (\A p \in Pollers : WF_vars(Step(p))) /\ WF_vars(Joined)

Spec == Init /\ [][Next]_vars /\ Fairness

-----------------------------------------------------------------------------

\* Every variable keeps its type.
TypeOK ==
  /\ dropped \subseteq Documents /\ in \subseteq dropped /\ processed \subseteq dropped
  /\ out \in [Documents -> 1..Len(history) \cup {None, Refusal}]
  /\ life \in 0..MaxCrashes
  /\ history \in Seq([life : 0..life, document : Documents])
  /\ pc \in [Pollers -> {"off", "top", "list", "next", "handle", "publish", "move"}]
  /\ batch \in [Pollers -> Seq(Documents)]
  /\ reply \in [Pollers -> 1..Len(history) \cup {None, Refusal}]
  /\ stopped \in BOOLEAN /\ {thread, joining} \subseteq Threads \cup {None}

\* "A collector that saw the request disappear before the response existed
\* would have no way to tell 'still running' from 'answered and lost'"
\* (filedrop.py:209): whenever the process is killed, a document that left
\* `in` has its answer in `out`, and it is the unit's answer to that document.
GoneMeansAnswered ==
  /\ dropped \ in = processed
  /\ \A d \in processed : out[d] # None
  /\ \A d \in Documents :
       out[d] # None =>
         IF d \in Malformed THEN out[d] = Refusal
         ELSE out[d] \in DOMAIN history /\ history[out[d]].document = d

\* "01.create, 02.pay must be answered in that order" (filedrop.py:112): a
\* unit handles the documents of a batch in name order and each only once,
\* across passes, stops and new threads; a crash may repeat the one in hand.
HandledInOrder ==
  \A i, j \in DOMAIN history :
    i < j =>
      LET first == history[i] second == history[j] IN
      IF first.life = second.life
      THEN first.document < second.document
      ELSE first.document <= second.document

\* "A caller that stops the binding and then deletes its directory must not
\* race a write" (filedrop.py:135): no thread polls that has no handle.
StopIsQuiet ==
  \A t \in Threads : pc[t] # "off" => t \in {thread, joining}

\* Polls, threads, stops and crashes together, as the partner sees them: the
\* first document that waits is handled, answered and moved aside, each by
\* the unit that then runs (filedrop.py:206-224).
Inbox == INSTANCE AnsweredInbox
FollowsInbox == Inbox!Spec

\* Nothing can be answered behind such a document: every pass dies on it.
Blocked(d) == \E e \in in \cap Poisoned : e <= d

\* A document that waits once the thread was started is answered, whatever
\* malformed ones are in front of it, unless the binding is stopped or killed
\* first or a pass dies in front of it; and stop() comes back, also from a
\* thread that died (filedrop.py:108-148).  Without Blocked it is what the
\* docstring says, "rather than crashing the poller [...] and the poll
\* continues" (filedrop.py:41-45), and false of the code (ReadPoisoned).
AnsweredUnlessBlocked ==
  /\ \A d \in Documents :
       d \in in /\ thread # None ~> d \in processed \/ thread = None \/ Blocked(d)
  /\ joining # None ~> joining = None

=============================================================================
