--------------------------- MODULE FileDropProofs ---------------------------
(***************************************************************************)
(* The safety properties of FileDrop for any documents, threads and        *)
(* crashes, when no request outlasts the timeout of stop().                *)
(***************************************************************************)
EXTENDS FileDrop, SetInduction, FiniteSetTheorems, SequenceTheorems

-----------------------------------------------------------------------------
(* The order of a pass.                                                    *)

Enumerates(s, S) ==
  /\ s \in [1..Cardinality(S) -> S]
  /\ \A d \in S : \E i \in DOMAIN s : s[i] = d
  /\ \A i, j \in DOMAIN s : i < j => s[i] < s[j]

(* A finite set of numbers can be listed in order: its least member first, *)
(* then the rest of it in order.                                           *)
LEMMA OrderExists ==
  ASSUME NEW S \in SUBSET Nat, IsFiniteSet(S)
  PROVE  \E s : Enumerates(s, S)
<1> DEFINE Listable(n) ==
      \A T \in SUBSET Nat : IsFiniteSet(T) /\ Cardinality(T) = n => \E s : Enumerates(s, T)
<1> DEFINE Good == {n \in Nat : Listable(n)}
<1>1. 0 \in Good
  <2> SUFFICES ASSUME NEW T \in SUBSET Nat, IsFiniteSet(T), Cardinality(T) = 0
               PROVE  \E s : Enumerates(s, T)
    OBVIOUS
  <2>1. T = {}
    BY FS_EmptySet
  <2>2. Enumerates([i \in 1..0 |-> 0], T)
    BY <2>1 DEF Enumerates
  <2> QED
    BY <2>2
<1>2. ASSUME NEW n \in Good PROVE n + 1 \in Good
  <2> SUFFICES ASSUME NEW T \in SUBSET Nat, IsFiniteSet(T), Cardinality(T) = n + 1
               PROVE  \E s : Enumerates(s, T)
    OBVIOUS
  <2>1. T # {}
    BY FS_EmptySet
  <2>2. PICK x \in T : \A y \in T : x <= y
    BY <2>1, LeastNat
  <2>0. n \in Nat /\ Listable(n)
    OBVIOUS
  <2> HIDE DEF Good
  <2>3. IsFiniteSet(T \ {x}) /\ Cardinality(T \ {x}) = n
    <3>1. /\ IsFiniteSet(T \ {x})
          /\ Cardinality(T \ {x}) = IF x \in T THEN Cardinality(T) - 1 ELSE Cardinality(T)
      BY FS_RemoveElement, Zenon
    <3>2. Cardinality(T \ {x}) = (n + 1) - 1
      BY <3>1
    <3> HIDE DEF Listable
    <3> QED
      BY <2>0, <3>1, <3>2
  <2>4. PICK s : Enumerates(s, T \ {x})
    BY <2>0, <2>3
  <2> DEFINE t == [i \in 1..(n + 1) |-> IF i = 1 THEN x ELSE s[i - 1]]
  <2>5. s \in [1..n -> T \ {x}] /\ DOMAIN s = 1..n
    BY <2>3, <2>4 DEF Enumerates
  <2>6. t \in [1..(n + 1) -> T]
    BY <2>0, <2>5
  <2>7. ASSUME NEW d \in T PROVE \E i \in 1..(n + 1) : t[i] = d
    <3>1. CASE d = x
      <4>1. 1 \in 1..(n + 1) /\ t[1] = d
        BY <2>0, <3>1
      <4> QED
        BY <4>1
    <3>2. CASE d # x
      <4>1. PICK i \in 1..n : s[i] = d
        BY <2>4, <2>5, <3>2 DEF Enumerates
      <4>2. i + 1 \in 1..(n + 1) /\ t[i + 1] = d
        BY <2>0, <4>1
      <4> QED
        BY <4>2
    <3> QED
      BY <2>0, <3>1, <3>2
  <2>8. ASSUME NEW i \in 1..(n + 1), NEW j \in 1..(n + 1), i < j PROVE t[i] < t[j]
    <3>1. CASE i = 1
      <4>1. j - 1 \in 1..n
        BY <2>0, <2>8, <3>1
      <4>2. s[j - 1] \in T \ {x}
        BY <2>5, <4>1
      <4>3. x <= s[j - 1] /\ x # s[j - 1]
        BY <2>2, <4>2
      <4>4. x \in Nat /\ s[j - 1] \in Nat
        BY <4>2
      <4>5. t[i] = x /\ t[j] = s[j - 1]
        BY <2>0, <2>8, <3>1
      <4> QED
        BY <4>3, <4>4, <4>5
    <3>2. CASE i # 1
      <4>1. i - 1 \in 1..n /\ j - 1 \in 1..n /\ i - 1 < j - 1
        BY <2>0, <2>8, <3>2
      <4>2. s[i - 1] < s[j - 1]
        BY <2>4, <2>5, <4>1 DEF Enumerates
      <4>3. t[i] = s[i - 1] /\ t[j] = s[j - 1]
        BY <2>0, <2>8, <3>2
      <4> QED
        BY <4>2, <4>3
    <3> QED
      BY <3>1, <3>2
  <2>9. DOMAIN t = 1..(n + 1)
    OBVIOUS
  <2> HIDE DEF t
  <2> QED
    BY <2>6, <2>7, <2>8, <2>9 DEF Enumerates
<1> HIDE DEF Listable
<1>3. Good = Nat
  BY <1>1, <1>2, InductiveIsNat DEF Good
<1>4. Cardinality(S) \in Nat
  BY FS_CardinalityType
<1>5. Listable(Cardinality(S))
  BY <1>3, <1>4 DEF Good
<1> QED
  BY <1>5 DEF Listable

(* What poll() lists.                                                      *)
LEMMA NameOrderLists ==
  ASSUME NEW S \in SUBSET Nat, IsFiniteSet(S)
  PROVE  /\ NameOrder(S) \in Seq(S)
         /\ \A d \in S : \E i \in 1..Len(NameOrder(S)) : NameOrder(S)[i] = d
         /\ \A i, j \in 1..Len(NameOrder(S)) : i < j => NameOrder(S)[i] < NameOrder(S)[j]
<1>1. PICK s : Enumerates(s, S)
  BY OrderExists
<1>2. Enumerates(NameOrder(S), S)
  BY <1>1 DEF Enumerates, NameOrder
<1>3. Cardinality(S) \in Nat
  BY FS_CardinalityType
<1>4. NameOrder(S) \in Seq(S) /\ DOMAIN NameOrder(S) = 1..Len(NameOrder(S))
  BY <1>2, <1>3, SeqDef, LenProperties DEF Enumerates
<1> QED
  BY <1>2, <1>4 DEF Enumerates

-----------------------------------------------------------------------------
(* The inductive invariant.                                                *)

Inside == {"next", "handle", "publish", "move"}

(* One poller at a time, and it is the one the owner knows of.             *)
OnePoller ==
  /\ \A p, q \in Pollers : p # q => pc[p] = "off" \/ pc[q] = "off"
  /\ StopIsQuiet
  /\ thread = None \/ joining = None
  /\ pc[Owner] # "off" => thread = None /\ joining = None

(* The rest of a pass: the first documents of `in`, in order.              *)
FirstOf(list, S) ==
  /\ \A i \in 1..Len(list) : list[i] \in S
  /\ \A i, j \in 1..Len(list) : i < j => list[i] < list[j]
  /\ \A e \in S : (\E i \in 1..Len(list) : list[i] = e) \/ \A i \in 1..Len(list) : list[i] < e

\* The answer a document may get: the refusal, or what the unit said to it.
AnswerTo(d, answer) ==
  IF d \in Malformed THEN answer = Refusal
  ELSE answer \in 1..Len(history) /\ history[answer].document = d

InPass(p) ==
  /\ pc[p] \in Inside => FirstOf(batch[p], in)
  /\ pc[p] \in Inside \ {"next"} => batch[p] # <<>>
  /\ pc[p] = "handle" => Head(batch[p]) \notin Malformed \cup Poisoned
  /\ pc[p] = "publish" => AnswerTo(Head(batch[p]), reply[p])
  /\ pc[p] = "move" => out[Head(batch[p])] # None

Passes == \A p \in Pollers : InPass(p)

(* The directories fill from behind and empty from the front.              *)
Sorted ==
  /\ IsFiniteSet(in)
  /\ processed \cap in = {}
  /\ \A x \in dropped, y \in Documents \ dropped : x < y
  /\ \A x \in processed, y \in in : x < y

(* What was handled, against what still waits: only the document in hand   *)
(* was handled by this unit and is still in `in`.                          *)
Handled ==
  \A i \in 1..Len(history) :
    /\ history[i].document \in dropped
    /\ \A y \in in : history[i].document <= y
    /\ history[i].life = life /\ history[i].document \in in =>
         \E p \in Pollers :
           pc[p] \in {"publish", "move"} /\ Head(batch[p]) = history[i].document

Answered ==
  /\ dropped \ in = processed
  /\ \A d \in processed : out[d] # None
  /\ \A d \in Documents : out[d] # None => AnswerTo(d, out[d])

Before(first, second) ==
  IF first.life = second.life
  THEN first.document < second.document
  ELSE first.document <= second.document

InOrder == \A i, j \in 1..Len(history) : i < j => Before(history[i], history[j])

IInv == TypeOK /\ OnePoller /\ Passes /\ Sorted /\ Handled /\ Answered /\ InOrder

-----------------------------------------------------------------------------
(* The steps.                                                              *)

LEMMA TypeStep == TypeOK /\ Passes /\ Sorted /\ [Next]_vars => TypeOK'
<1> SUFFICES ASSUME TypeOK, Passes, Sorted, [Next]_vars PROVE TypeOK'
  OBVIOUS
<1> USE FileDropAssumption DEF TypeOK, files, control, Become, Die, Pollers
<1>1. ASSUME NEW p \in Pollers, List(p) PROVE TypeOK'
  <2>1. NameOrder(in) \in Seq(Documents)
    BY NameOrderLists, SeqMonotonic DEF Sorted
  <2> QED
    BY <1>1, <2>1 DEF List
<1>2. ASSUME NEW p \in Pollers, Read(p) PROVE TypeOK'
  BY <1>2 DEF Read
<1>15. ASSUME NEW p \in Pollers, ReadPoisoned(p) PROVE TypeOK'
  <2>1. <<>> \in Seq(Documents)
    BY EmptySeq
  <2> QED
    BY <1>15, <2>1 DEF ReadPoisoned
<1>3. ASSUME NEW p \in Pollers, Handle(p) PROVE TypeOK'
  <2>1. Head(batch[p]) \in Documents
    BY <1>3, HeadTailProperties DEF Handle, Passes, InPass, Inside
  <2>2. history' \in Seq([life : 0..life, document : Documents]) /\ Len(history') = Len(history) + 1
    BY <1>3, <2>1 DEF Handle
  <2>3. Len(history) \in Nat
    BY LenProperties
  <2> QED
    BY <1>3, <2>2, <2>3 DEF Handle
<1>4. ASSUME NEW p \in Pollers, Publish(p) PROVE TypeOK'
  BY <1>4 DEF Publish
<1>5. ASSUME NEW p \in Pollers, Move(p) PROVE TypeOK'
  <2>1. batch[p] \in Seq(Documents) /\ batch[p] # <<>>
    BY <1>5 DEF Move, Passes, InPass, Inside
  <2>2. Tail(batch[p]) \in Seq(Documents)
    BY <2>1, HeadTailProperties
  <2>3. CASE Head(batch[p]) \in in
    BY <1>5, <2>2, <2>3 DEF Move
  <2>4. CASE Head(batch[p]) \notin in
    <3>1. <<>> \in Seq(Documents)
      BY EmptySeq
    <3> QED
      BY <1>5, <2>4, <3>1 DEF Move
  <2> QED
    BY <2>3, <2>4
<1>6. ASSUME NEW p \in Pollers, EndPass(p) PROVE TypeOK'
  BY <1>6 DEF EndPass
<1>7. ASSUME NEW p \in Pollers, LoopTop(p) PROVE TypeOK'
  BY <1>7 DEF LoopTop
<1>8. ASSUME PollNow PROVE TypeOK'
  BY <1>8 DEF PollNow
<1>9. ASSUME NEW t \in Threads, Start(t) PROVE TypeOK'
  BY <1>9 DEF Start
<1>10. ASSUME Stop PROVE TypeOK'
  BY <1>10 DEF Stop
<1>11. ASSUME Joined PROVE TypeOK'
  BY <1>11 DEF Joined
<1>12. ASSUME NEW d \in Documents, Drop(d) PROVE TypeOK'
  BY <1>12 DEF Drop
<1>13. ASSUME Crash PROVE TypeOK'
  <2>1. [life : 0..life, document : Documents] \subseteq [life : 0..(life + 1), document : Documents]
    OBVIOUS
  <2>2. history \in Seq([life : 0..(life + 1), document : Documents])
    BY <2>1, SeqMonotonic
  <2>3. batch' \in [Pollers -> Seq(Documents)]
    BY <1>13, EmptySeq DEF Crash
  <2>4. reply' \in [Pollers -> 1..Len(history') \cup {None, Refusal}] /\ life' \in 0..MaxCrashes
    BY <1>13 DEF Crash
  <2> QED
    BY <1>13, <2>2, <2>3, <2>4 DEF Crash
<1>14. CASE UNCHANGED vars
  BY <1>14 DEF vars
<1> QED
  BY <1>1, <1>2, <1>3, <1>4, <1>5, <1>6, <1>7, <1>8, <1>9, <1>10, <1>11, <1>12, <1>13, <1>14, <1>15
     DEF Next, Step

(* The owner starts no poller while another one runs, and waits in stop()  *)
(* until the thread has gone.                                              *)
LEMMA OnePollerStep ==
  ~JoinExpires /\ TypeOK /\ OnePoller /\ [Next]_vars => OnePoller'
<1> SUFFICES ASSUME ~JoinExpires, TypeOK, OnePoller, [Next]_vars PROVE OnePoller'
  OBVIOUS
<1> USE FileDropAssumption DEF TypeOK, OnePoller, StopIsQuiet, control, Become, Die, Pollers
<1>1. ASSUME NEW p \in Pollers, Step(p) PROVE OnePoller'
  <2>1. pc[p] # "off" /\ pc' = [pc EXCEPT ![p] = pc'[p]] /\ UNCHANGED <<thread, joining>>
    BY <1>1 DEF Step, List, Read, ReadPoisoned, Handle, Publish, Move, EndPass, LoopTop
  <2> QED
    BY <2>1
<1>2. ASSUME PollNow PROVE OnePoller'
  BY <1>2 DEF PollNow, Free
<1>3. ASSUME NEW t \in Threads, Start(t) PROVE OnePoller'
  BY <1>3 DEF Start, Free
<1>4. ASSUME Stop PROVE OnePoller'
  BY <1>4 DEF Stop, Free
<1>5. ASSUME Joined PROVE OnePoller'
  BY <1>5 DEF Joined
<1>6. ASSUME NEW d \in Documents, Drop(d) PROVE OnePoller'
  BY <1>6 DEF Drop
<1>7. ASSUME Crash PROVE OnePoller'
  BY <1>7 DEF Crash
<1>8. CASE UNCHANGED vars
  BY <1>8 DEF vars
<1> QED
  BY <1>1, <1>2, <1>3, <1>4, <1>5, <1>6, <1>7, <1>8 DEF Next

(* What the document in hand has to do with the others.                    *)
LEMMA InHand ==
  ASSUME NEW S \in SUBSET Documents, NEW list \in Seq(Documents), list # <<>>, FirstOf(list, S)
  PROVE  /\ Head(list) \in S
         /\ \A e \in S : Head(list) <= e
         /\ Tail(list) \in Seq(Documents)
         /\ FirstOf(Tail(list), S \ {Head(list)})
<1>1. Len(list) \in Nat \ {0} /\ list[1] = Head(list)
  BY EmptySeq
<1>2. S \subseteq Nat
  BY FileDropAssumption
<1>3. \A i \in 1..Len(list) : list[i] \in Nat
  BY <1>2 DEF FirstOf
<1>4. ASSUME NEW e \in S PROVE list[1] <= e
  <2>1. CASE \E i \in 1..Len(list) : list[i] = e
    <3>1. PICK i \in 1..Len(list) : list[i] = e
      BY <2>1
    <3>2. list[1] \in Nat
      BY <1>1, <1>3
    <3>3. CASE i = 1
      BY <3>1, <3>2, <3>3
    <3>4. CASE i # 1
      <4>1. list[1] < list[i]
        BY <1>1, <3>4 DEF FirstOf
      <4> QED
        BY <1>2, <3>1, <3>2, <4>1
    <3> QED
      BY <3>3, <3>4
  <2>2. CASE \A i \in 1..Len(list) : list[i] < e
    BY <1>1, <1>2, <1>3, <2>2
  <2> QED
    BY <2>1, <2>2 DEF FirstOf
<1> DEFINE rest == Tail(list)
<1>5. /\ rest \in Seq(Documents)
      /\ Len(rest) = Len(list) - 1
      /\ \A i \in 1..Len(rest) : rest[i] = list[i + 1]
  BY HeadTailProperties
<1> HIDE DEF rest
<1>6. \A i \in 1..Len(rest) : i + 1 \in 1..Len(list)
  BY <1>1, <1>5
<1>7. ASSUME NEW i \in 1..Len(rest) PROVE rest[i] \in S \ {Head(list)}
  <2>1. list[1] < list[i + 1]
    BY <1>1, <1>6 DEF FirstOf
  <2> QED
    BY <1>1, <1>3, <1>5, <1>6, <2>1 DEF FirstOf
<1>8. ASSUME NEW i \in 1..Len(rest), NEW j \in 1..Len(rest), i < j PROVE rest[i] < rest[j]
  <2>1. i + 1 < j + 1
    BY <1>8
  <2> QED
    BY <1>5, <1>6, <2>1 DEF FirstOf
<1>9. ASSUME NEW e \in S \ {Head(list)}
      PROVE  (\E i \in 1..Len(rest) : rest[i] = e) \/ \A i \in 1..Len(rest) : rest[i] < e
  <2>1. CASE \E i \in 1..Len(list) : list[i] = e
    <3>1. PICK i \in 1..Len(list) : list[i] = e
      BY <2>1
    <3>2. i # 1
      BY <1>1, <3>1
    <3>3. i - 1 \in 1..Len(rest) /\ (i - 1) + 1 = i
      BY <1>1, <1>5, <3>2
    <3>4. rest[i - 1] = list[i]
      BY <1>5, <3>3
    <3> QED
      BY <3>1, <3>3, <3>4
  <2>2. CASE \A i \in 1..Len(list) : list[i] < e
    BY <1>5, <1>6, <2>2
  <2> QED
    BY <2>1, <2>2 DEF FirstOf
<1>10. list[1] \in S
  BY <1>1 DEF FirstOf
<1>11. FirstOf(rest, S \ {Head(list)})
  BY <1>7, <1>8, <1>9 DEF FirstOf
<1> QED
  BY <1>1, <1>4, <1>5, <1>10, <1>11 DEF rest

(* A poller stays in its pass, and the others are off.                     *)
LEMMA PassesStep ==
  TypeOK /\ OnePoller /\ Passes /\ Sorted /\ [Next]_vars => Passes'
<1> SUFFICES ASSUME TypeOK, OnePoller, Passes, Sorted, [Next]_vars PROVE Passes'
  OBVIOUS
<1> USE DEF files, control, Become, Die, Inside
<1>1. ASSUME NEW p \in Pollers, Step(p) PROVE Passes'
  <2>1. /\ pc[p] # "off"
        /\ \A q \in Pollers \ {p} : pc'[q] = "off"
    BY <1>1 DEF TypeOK, OnePoller, Step, List, Read, ReadPoisoned, Handle, Publish, Move, EndPass, LoopTop
  <2>2. \A q \in Pollers \ {p} : InPass(q)'
    BY <2>1 DEF InPass
  <2>3. InPass(p) /\ batch[p] \in Seq(Documents)
    BY DEF Passes, TypeOK
  <2>4. CASE List(p)
    <3>1. pc'[p] = "next" /\ batch'[p] = NameOrder(in) /\ in' = in
      BY <2>4 DEF List, TypeOK
    <3>2. in \in SUBSET Nat
      BY FileDropAssumption DEF TypeOK
    <3>3. NameOrder(in) \in Seq(in)
      BY <3>2, NameOrderLists DEF Sorted
    <3>4. \A i \in 1..Len(NameOrder(in)) : NameOrder(in)[i] \in in
      BY <3>3, ElementOfSeq
    <3>5. FirstOf(NameOrder(in), in)
      BY <3>2, <3>4, NameOrderLists DEF Sorted, FirstOf
    <3>6. InPass(p)'
      BY <3>1, <3>5 DEF InPass
    <3> QED
      BY <2>2, <3>6 DEF Passes
  <2>5. CASE Read(p)
    <3>1. InPass(p)'
      <4> USE DEF TypeOK
      <4>1. pc[p] = "next" /\ batch[p] # <<>> /\ batch' = batch /\ in' = in /\ history' = history
        BY <2>5 DEF Read
      <4>2. Head(batch[p]) \in in
        BY <2>3, <4>1, InHand DEF InPass
      <4>3. CASE Head(batch[p]) \in Malformed
        BY <2>3, <2>5, <4>1, <4>3 DEF Read, InPass, AnswerTo
      <4>4. CASE Head(batch[p]) \notin Malformed \cup Poisoned
        BY <2>3, <2>5, <4>1, <4>2, <4>4 DEF Read, InPass
      <4>5. Head(batch[p]) \notin Poisoned
        BY <2>5, <4>2 DEF Read
      <4> QED
        BY <4>3, <4>4, <4>5
    <3> QED
      BY <2>2, <3>1 DEF Passes
  <2>11. CASE ReadPoisoned(p)
    BY <2>2, <2>11 DEF ReadPoisoned, Passes, InPass, TypeOK
  <2>6. CASE Handle(p)
    <3>1. InPass(p)'
      <4> USE DEF TypeOK
      <4>1. pc[p] = "handle" /\ pc'[p] = "publish" /\ batch' = batch /\ in' = in
        BY <2>6 DEF Handle
      <4>2. Len(history) \in Nat
        BY LenProperties
      <4>3. reply'[p] = Len(history') /\ Len(history') = Len(history) + 1
        BY <2>6 DEF Handle
      <4>4. history'[Len(history')].document = Head(batch[p])
        BY <2>6 DEF Handle
      <4>5. AnswerTo(Head(batch[p]), reply[p])'
        BY <2>3, <4>1, <4>2, <4>3, <4>4 DEF AnswerTo, InPass
      <4> QED
        BY <2>3, <4>1, <4>5 DEF InPass
    <3> QED
      BY <2>2, <3>1 DEF Passes
  <2>7. CASE Publish(p)
    <3>1. InPass(p)'
      <4> USE DEF TypeOK
      <4>1. pc[p] = "publish" /\ pc'[p] = "move" /\ batch' = batch /\ in' = in
        BY <2>7 DEF Publish
      <4>2. Head(batch[p]) \in Documents
        BY <2>3, <4>1, HeadTailProperties DEF InPass
      <4>3. out'[Head(batch[p])] = reply[p]
        BY <2>7, <4>2 DEF Publish
      <4>4. reply[p] # None
        BY <2>3, <4>1, FileDropAssumption DEF InPass, AnswerTo
      <4> QED
        BY <2>3, <4>1, <4>3, <4>4 DEF InPass
    <3> QED
      BY <2>2, <3>1 DEF Passes
  <2>8. CASE Move(p)
    <3>1. pc[p] = "move" /\ batch[p] # <<>> /\ FirstOf(batch[p], in)
      BY <2>3, <2>8 DEF Move, InPass
    <3>2. Head(batch[p]) \in in
      BY <2>3, <3>1, InHand DEF TypeOK
    <3>3. in' = in \ {Head(batch[p])} /\ batch'[p] = Tail(batch[p]) /\ pc'[p] = "next"
      BY <2>8, <3>2 DEF Move, TypeOK
    <3>4. FirstOf(Tail(batch[p]), in \ {Head(batch[p])})
      BY <2>3, <3>1, InHand DEF TypeOK
    <3>5. InPass(p)'
      BY <3>3, <3>4 DEF InPass
    <3> QED
      BY <2>2, <3>5 DEF Passes
  <2>9. CASE EndPass(p)
    BY <2>2, <2>9 DEF EndPass, Passes, InPass, TypeOK
  <2>10. CASE LoopTop(p)
    BY <2>2, <2>10 DEF LoopTop, Passes, InPass, TypeOK
  <2> QED
    BY <1>1, <2>4, <2>5, <2>6, <2>7, <2>8, <2>9, <2>10, <2>11 DEF Step
<1>2. ASSUME NEW d \in Documents, Drop(d) PROVE Passes'
  <2> SUFFICES ASSUME NEW p \in Pollers PROVE InPass(p)'
    BY DEF Passes
  <2>1. InPass(p) /\ UNCHANGED <<pc, batch, reply, out, history>> /\ in' = in \cup {d}
    BY <1>2 DEF Drop, Passes
  <2>2. \A x \in in : x < d
    BY <1>2 DEF Drop, Sorted, TypeOK
  <2>3. FirstOf(batch[p], in) => FirstOf(batch[p], in \cup {d})
    BY <2>2 DEF FirstOf
  <2> QED
    BY <2>1, <2>3 DEF InPass, AnswerTo
<1>3. ASSUME PollNow \/ Crash \/ \E t \in Threads : Start(t) PROVE Passes'
  BY <1>3 DEF PollNow, Start, Crash, Passes, InPass, AnswerTo, TypeOK
<1>4. ASSUME Stop \/ Joined \/ UNCHANGED vars PROVE Passes'
  BY <1>4 DEF Stop, Joined, vars, Passes, InPass, AnswerTo
<1> QED
  BY <1>1, <1>2, <1>3, <1>4 DEF Next

(* Documents arrive behind all others and leave before all others.         *)
LEMMA SortedStep == TypeOK /\ Passes /\ Sorted /\ [Next]_vars => Sorted'
<1> SUFFICES ASSUME TypeOK, Passes, Sorted, [Next]_vars PROVE Sorted'
  OBVIOUS
<1>1. ASSUME NEW p \in Pollers, Move(p) PROVE Sorted'
  <2>1. FirstOf(batch[p], in) /\ batch[p] # <<>> /\ batch[p] \in Seq(Documents)
    BY <1>1 DEF Move, Passes, InPass, Inside, TypeOK
  <2>2. PICK x \in in : x = Head(batch[p]) /\ \A y \in in : x <= y
    BY <2>1, InHand DEF TypeOK
  <2>3. in' = in \ {x} /\ processed' = processed \cup {x} /\ dropped' = dropped
    BY <1>1, <2>2 DEF Move
  <2>4. IsFiniteSet(in')
    BY <2>3, FS_RemoveElement DEF Sorted
  <2>5. \A y \in in' : x < y
    <3>1. x \in Nat /\ in \subseteq Nat
      BY FileDropAssumption DEF TypeOK
    <3> QED
      BY <2>2, <2>3, <3>1
  <2> QED
    BY <2>3, <2>4, <2>5 DEF Sorted
<1>2. ASSUME NEW d \in Documents, Drop(d) PROVE Sorted'
  <2>1. IsFiniteSet(in \cup {d})
    BY FS_AddElement DEF Sorted
  <2>2. \A x \in dropped : x < d
    BY <1>2 DEF Drop, Sorted
  <2>3. \A y \in Documents \ dropped' : d < y
    <3> SUFFICES ASSUME NEW y \in Documents \ dropped, y # d PROVE d < y
      BY <1>2 DEF Drop
    <3>1. d <= y
      BY <1>2 DEF Drop
    <3>2. d \in Nat /\ y \in Nat
      BY FileDropAssumption
    <3> QED
      BY <3>1, <3>2
  <2> QED
    BY <1>2, <2>1, <2>2, <2>3 DEF Drop, Sorted, TypeOK
<1>3. ASSUME UNCHANGED <<dropped, in, processed>> PROVE Sorted'
  BY <1>3 DEF Sorted
<1> QED
  BY <1>1, <1>2, <1>3
     DEF Next, Step, List, Read, ReadPoisoned, Handle, Publish, EndPass, LoopTop, PollNow, Start, Stop, Joined,
         Crash, files, control, vars

(* Everything handled is behind what waits, but for the document in hand.  *)
LEMMA HandledStep ==
  TypeOK /\ OnePoller /\ Passes /\ Sorted /\ Handled /\ [Next]_vars => Handled'
<1> SUFFICES ASSUME TypeOK, OnePoller, Passes, Sorted, Handled, [Next]_vars PROVE Handled'
  OBVIOUS
<1> USE DEF files, control, Become, Die
<1>0. in \subseteq Nat /\ dropped \subseteq Nat /\ in \subseteq dropped
  BY FileDropAssumption DEF TypeOK
<1>1. ASSUME NEW p \in Pollers, Handle(p) PROVE Handled'
  <2>1. FirstOf(batch[p], in) /\ batch[p] # <<>> /\ batch[p] \in Seq(Documents) /\ pc'[p] = "publish"
    BY <1>1 DEF Handle, Passes, InPass, Inside, TypeOK
  <2>2. PICK d \in in : d = Head(batch[p]) /\ \A y \in in : d <= y
    BY <2>1, InHand DEF TypeOK
  <2>3. \A q \in Pollers : pc[q] \notin {"publish", "move"}
    BY <1>1 DEF Handle, OnePoller
  <2> DEFINE now == [life |-> life, document |-> d]
  <2>4. /\ history' = Append(history, now) /\ in' = in /\ dropped' = dropped /\ life' = life
        /\ batch' = batch
    BY <1>1, <2>2 DEF Handle
  <2>5. Len(history) \in Nat
    BY LenProperties DEF TypeOK
  <2>6. /\ Len(history') = Len(history) + 1
        /\ \A i \in 1..Len(history) : history'[i] = history[i]
        /\ history'[Len(history) + 1] = now
    BY <2>4, <2>5 DEF TypeOK
  <2> SUFFICES ASSUME NEW i \in 1..Len(history')
               PROVE  /\ history'[i].document \in dropped
                      /\ \A y \in in : history'[i].document <= y
                      /\ history'[i].life = life /\ history'[i].document \in in =>
                           \E q \in Pollers :
                             /\ pc'[q] \in {"publish", "move"}
                             /\ Head(batch[q]) = history'[i].document
    BY <2>4 DEF Handled
  <2>7. CASE i \in 1..Len(history)
    BY <2>3, <2>6, <2>7 DEF Handled
  <2>8. CASE i = Len(history) + 1
    <3>1. history'[i].document = d
      BY <2>6, <2>8
    <3> QED
      BY <1>0, <2>1, <2>2, <3>1
  <2> QED
    BY <2>5, <2>6, <2>7, <2>8
<1>2. ASSUME NEW p \in Pollers, Move(p) PROVE Handled'
  <2>1. /\ FirstOf(batch[p], in) /\ batch[p] # <<>> /\ batch[p] \in Seq(Documents)
        /\ \A q \in Pollers \ {p} : pc[q] = "off"
    BY <1>2 DEF Move, Passes, InPass, Inside, TypeOK, OnePoller
  <2>2. Head(batch[p]) \in in
    BY <2>1, InHand DEF TypeOK
  <2>3. in' = in \ {Head(batch[p])} /\ UNCHANGED <<dropped, life, history>>
    BY <1>2, <2>2 DEF Move
  <2> QED
    BY <2>1, <2>3 DEF Handled
<1>3. ASSUME NEW d \in Documents, Drop(d) PROVE Handled'
  <2>1. UNCHANGED <<history, life, pc, batch>> /\ in' = in \cup {d} /\ dropped' = dropped \cup {d}
    BY <1>3 DEF Drop
  <2>2. d \notin dropped /\ \A x \in dropped : x < d
    BY <1>3 DEF Drop, Sorted
  <2>3. \A x \in dropped : x <= d
    BY <1>0, <2>2, FileDropAssumption
  <2> QED
    BY <2>1, <2>2, <2>3 DEF Handled
<1>4. ASSUME Crash PROVE Handled'
  <2>1. \A i \in 1..Len(history) : history[i].life # life'
    <3>1. \A i \in 1..Len(history) : history[i].life \in 0..life
      <4> SUFFICES ASSUME NEW i \in 1..Len(history) PROVE history[i].life \in 0..life
        OBVIOUS
      <4>1. history \in Seq([life : 0..life, document : Documents])
        BY DEF TypeOK
      <4>2. history[i] \in [life : 0..life, document : Documents]
        BY <4>1, ElementOfSeq
      <4> QED
        BY <4>2
    <3>2. life \in Nat /\ life' = life + 1
      BY <1>4 DEF Crash, TypeOK
    <3> QED
      BY <3>1, <3>2
  <2> QED
    BY <1>4, <2>1 DEF Crash, Handled
<1>5. ASSUME NEW p \in Pollers, List(p) \/ Read(p) \/ ReadPoisoned(p) \/ Publish(p) \/ EndPass(p)
                                \/ LoopTop(p)
      PROVE  Handled'
  <2>1. UNCHANGED <<dropped, in, life, history>>
    BY <1>5 DEF List, Read, ReadPoisoned, Publish, EndPass, LoopTop
  <2>2. ASSUME NEW q \in Pollers, pc[q] \in {"publish", "move"}
        PROVE  pc'[q] \in {"publish", "move"} /\ batch'[q] = batch[q]
    BY <1>5, <2>2 DEF List, Read, ReadPoisoned, Publish, EndPass, LoopTop, TypeOK
  <2> QED
    BY <2>1, <2>2 DEF Handled
<1>6. ASSUME PollNow \/ \E t \in Threads : Start(t) PROVE Handled'
  <2>1. UNCHANGED <<dropped, in, life, history, batch>>
    BY <1>6 DEF PollNow, Start
  <2>2. ASSUME NEW q \in Pollers, pc[q] \in {"publish", "move"} PROVE pc'[q] = pc[q]
    BY <1>6, <2>2 DEF PollNow, Start, Free, TypeOK
  <2> QED
    BY <2>1, <2>2 DEF Handled
<1>7. ASSUME Stop \/ Joined \/ UNCHANGED vars PROVE Handled'
  BY <1>7 DEF Stop, Joined, vars, Handled
<1> QED
  BY <1>1, <1>2, <1>3, <1>4, <1>5, <1>6, <1>7 DEF Next, Step

(* What left `in` has its answer.                                          *)
LEMMA AnsweredStep ==
  TypeOK /\ Passes /\ Sorted /\ Answered /\ [Next]_vars => Answered'
<1> SUFFICES ASSUME TypeOK, Passes, Sorted, Answered, [Next]_vars PROVE Answered'
  OBVIOUS
<1> USE DEF files, control, Become, Die
<1>1. ASSUME NEW p \in Pollers, Handle(p) PROVE Answered'
  <2>1. Len(history) \in Nat
    BY LenProperties DEF TypeOK
  <2>2. Len(history') = Len(history) + 1 /\ \A i \in 1..Len(history) : history'[i] = history[i]
    BY <1>1 DEF Handle, TypeOK
  <2>3. UNCHANGED <<dropped, in, processed, out>>
    BY <1>1 DEF Handle
  <2>4. \A d \in Documents : AnswerTo(d, out[d]) => AnswerTo(d, out[d])'
    BY <2>1, <2>2, <2>3 DEF AnswerTo
  <2> QED
    BY <2>3, <2>4 DEF Answered
<1>2. ASSUME NEW p \in Pollers, Publish(p) PROVE Answered'
  <2>1. AnswerTo(Head(batch[p]), reply[p]) /\ reply[p] # None
    BY <1>2, FileDropAssumption DEF Publish, Passes, InPass, AnswerTo
  <2>2. UNCHANGED <<dropped, in, processed, history>> /\ out' = [out EXCEPT ![Head(batch[p])] = reply[p]]
    BY <1>2 DEF Publish
  <2> QED
    BY <2>1, <2>2 DEF Answered, AnswerTo, TypeOK
<1>3. ASSUME NEW p \in Pollers, Move(p) PROVE Answered'
  <2>1. /\ FirstOf(batch[p], in) /\ batch[p] # <<>> /\ batch[p] \in Seq(Documents)
        /\ out[Head(batch[p])] # None
    BY <1>3 DEF Move, Passes, InPass, Inside, TypeOK
  <2>2. Head(batch[p]) \in in
    BY <2>1, InHand DEF TypeOK
  <2>3. /\ in' = in \ {Head(batch[p])} /\ processed' = processed \cup {Head(batch[p])}
        /\ UNCHANGED <<dropped, out, history>>
    BY <1>3, <2>2 DEF Move
  <2> QED
    BY <2>1, <2>2, <2>3 DEF Answered, AnswerTo, TypeOK
<1>4. ASSUME NEW d \in Documents, Drop(d) PROVE Answered'
  BY <1>4 DEF Drop, Answered, AnswerTo, TypeOK
<1>5. ASSUME UNCHANGED <<dropped, in, processed, out, history>> PROVE Answered'
  BY <1>5 DEF Answered, AnswerTo
<1> QED
  BY <1>1, <1>2, <1>3, <1>4, <1>5
     DEF Next, Step, List, Read, ReadPoisoned, EndPass, LoopTop, PollNow, Start, Stop, Joined, Crash, vars

(* The next document is behind all that were handled, and was not handled  *)
(* by this unit.                                                           *)
LEMMA InOrderStep ==
  TypeOK /\ OnePoller /\ Passes /\ Handled /\ InOrder /\ [Next]_vars => InOrder'
<1> SUFFICES ASSUME TypeOK, OnePoller, Passes, Handled, InOrder, [Next]_vars PROVE InOrder'
  OBVIOUS
<1> USE DEF files, control, Become, Die
<1>1. ASSUME NEW p \in Pollers, Handle(p) PROVE InOrder'
  <2>1. FirstOf(batch[p], in) /\ batch[p] # <<>> /\ batch[p] \in Seq(Documents)
    BY <1>1 DEF Handle, Passes, InPass, Inside, TypeOK
  <2>2. PICK d \in in : d = Head(batch[p])
    BY <2>1, InHand DEF TypeOK
  <2>3. \A q \in Pollers : pc[q] \notin {"publish", "move"}
    BY <1>1 DEF Handle, OnePoller
  <2> DEFINE now == [life |-> life, document |-> d]
  <2>4. Len(history) \in Nat /\ history' = Append(history, now)
    BY <1>1, <2>2, LenProperties DEF Handle, TypeOK
  <2>5. /\ Len(history') = Len(history) + 1
        /\ \A i \in 1..Len(history) : history'[i] = history[i]
        /\ history'[Len(history) + 1] = now
    BY <2>4 DEF TypeOK
  <2>6. ASSUME NEW i \in 1..Len(history) PROVE Before(history[i], now)
    <3>1. history[i].document <= d
      BY DEF Handled
    <3>2. history[i].life = life => history[i].document # d
      BY <2>3 DEF Handled
    <3>3. history[i].document \in Nat /\ d \in Nat
      BY FileDropAssumption DEF Handled, TypeOK
    <3> QED
      BY <3>1, <3>2, <3>3 DEF Before
  <2> SUFFICES ASSUME NEW i \in 1..Len(history'), NEW j \in 1..Len(history'), i < j
               PROVE  Before(history'[i], history'[j])
    BY DEF InOrder, Before
  <2>7. CASE j \in 1..Len(history)
    <3>1. i \in 1..Len(history)
      BY <2>4, <2>5, <2>7
    <3> QED
      BY <2>5, <2>7, <3>1 DEF InOrder
  <2>8. CASE j = Len(history) + 1
    <3>1. i \in 1..Len(history)
      BY <2>4, <2>5, <2>8
    <3> QED
      BY <2>5, <2>6, <2>8, <3>1
  <2> QED
    BY <2>4, <2>5, <2>7, <2>8
<1>2. ASSUME UNCHANGED history PROVE InOrder'
  BY <1>2 DEF InOrder, Before
<1> QED
  BY <1>1, <1>2
     DEF Next, Step, List, Read, ReadPoisoned, Publish, Move, EndPass, LoopTop, PollNow, Start, Stop, Joined,
         Drop, Crash, vars

-----------------------------------------------------------------------------

LEMMA InitIInv == Init => IInv
<1> SUFFICES ASSUME Init PROVE IInv
  OBVIOUS
<1>1. IsFiniteSet({})
  BY FS_EmptySet
<1>2. TypeOK
  <2>1. <<>> \in Seq([life : 0..0, document : Documents]) /\ <<>> \in Seq(Documents)
    BY EmptySeq
  <2>2. batch \in [Pollers -> Seq(Documents)] /\ history \in Seq([life : 0..life, document : Documents])
    BY <2>1 DEF Init
  <2>3. /\ out \in [Documents -> 1..Len(history) \cup {None, Refusal}]
        /\ reply \in [Pollers -> 1..Len(history) \cup {None, Refusal}]
        /\ pc \in [Pollers -> {"off", "top", "list", "next", "handle", "publish", "move"}]
    BY DEF Init
  <2>4. life \in 0..MaxCrashes
    BY FileDropAssumption DEF Init
  <2> QED
    BY <2>2, <2>3, <2>4 DEF Init, TypeOK
<1> QED
  BY <1>1, <1>2
     DEF Init, IInv, OnePoller, StopIsQuiet, Passes, InPass, Inside, Sorted, Handled, Answered,
         InOrder, Pollers

LEMMA StepIInv == ~JoinExpires /\ IInv /\ [Next]_vars => IInv'
  BY TypeStep, OnePollerStep, PassesStep, SortedStep, HandledStep, AnsweredStep, InOrderStep DEF IInv

LEMMA Invariance == ~JoinExpires /\ Spec => []IInv
<1> SUFFICES ASSUME ~JoinExpires PROVE Spec => []IInv
  OBVIOUS
<1>1. IInv /\ [Next]_vars => IInv'
  BY StepIInv
<1> QED
  BY InitIInv, <1>1, PTL DEF Spec

(* Every variable keeps its type, however many documents, threads and      *)
(* crashes there are.                                                      *)
THEOREM TypeCorrect == ~JoinExpires /\ Spec => []TypeOK
  BY Invariance, PTL DEF IInv

(* A document that left `in` has its answer in `out`, whenever the process *)
(* is killed.                                                              *)
THEOREM GoneAreAnswered == ~JoinExpires /\ Spec => []GoneMeansAnswered
<1>1. IInv => GoneMeansAnswered
  <2> SUFFICES ASSUME IInv PROVE GoneMeansAnswered
    OBVIOUS
  <2>1. DOMAIN history = 1..Len(history)
    BY LenProperties DEF IInv, TypeOK
  <2> QED
    BY <2>1 DEF IInv, Answered, AnswerTo, GoneMeansAnswered
<1> QED
  BY Invariance, <1>1, PTL

(* The documents of a batch are handled in name order and once by a unit.  *)
THEOREM HandlesInOrder == ~JoinExpires /\ Spec => []HandledInOrder
<1>1. IInv => HandledInOrder
  <2> SUFFICES ASSUME IInv PROVE HandledInOrder
    OBVIOUS
  <2>1. DOMAIN history = 1..Len(history)
    BY LenProperties DEF IInv, TypeOK
  <2> QED
    BY <2>1 DEF IInv, InOrder, Before, HandledInOrder
<1> QED
  BY Invariance, <1>1, PTL

(* No thread polls once stop() has returned.                               *)
THEOREM StopsQuietly == ~JoinExpires /\ Spec => []StopIsQuiet
  BY Invariance, PTL DEF IInv, OnePoller

-----------------------------------------------------------------------------
(* The inbox the binding implements.                                       *)

\* The answer in hand, and the one in `out` when the request is moved
\* aside, are what this unit says.
Fresh ==
  \A p \in Pollers :
    /\ pc[p] = "publish" => reply[p] \in Inbox!Said(Head(batch[p]))
    /\ pc[p] = "move" => out[Head(batch[p])] \in Inbox!Said(Head(batch[p]))

LEMMA FreshStep == IInv /\ Fresh /\ [Next]_vars => Fresh'
<1> SUFFICES ASSUME IInv, Fresh, [Next]_vars PROVE Fresh'
  OBVIOUS
<1> USE DEF files, control, Become, Die
\* Only p moves, and the others are off.
<1>1. ASSUME NEW p \in Pollers, pc[p] # "off", Step(p),
             /\ pc'[p] = "publish" => reply'[p] \in Inbox!Said(Head(batch[p]))'
             /\ pc'[p] = "move" => out'[Head(batch[p])] \in Inbox!Said(Head(batch[p]))',
             pc'[p] \in {"publish", "move"} => batch'[p] = batch[p]
      PROVE  Fresh'
  <2>1. \A q \in Pollers : q # p => pc'[q] = "off"
    BY <1>1 DEF IInv, OnePoller, TypeOK, Step, List, Read, ReadPoisoned, Handle, Publish, Move, EndPass, LoopTop
  <2> QED
    BY <1>1, <2>1 DEF Fresh, Inbox!Said
<1>2. ASSUME NEW p \in Pollers, Read(p) PROVE Fresh'
  <2>0. PICK d : d = Head(batch[p])
    OBVIOUS
  <2>1. d \in in
    BY <1>2, <2>0, InHand DEF Read, IInv, TypeOK, Passes, InPass, Inside
  <2>2. UNCHANGED <<life, history, batch>> /\ pc[p] = "next"
    BY <1>2 DEF Read
  <2>3. pc'[p] = "handle" \/ (pc'[p] = "publish" /\ reply'[p] = Refusal /\ d \in Malformed)
    BY <1>2, <2>0, <2>1 DEF Read, IInv, TypeOK
  <2>4. d \in Malformed => Inbox!Said(d)' = {Refusal}
    BY DEF Inbox!Said
  <2> QED
    BY <1>1, <1>2, <2>0, <2>2, <2>3, <2>4 DEF Step, Inbox!Said
<1>3. ASSUME NEW p \in Pollers, Handle(p) PROVE Fresh'
  <2>0. PICK d, N : d = Head(batch[p]) /\ N = Len(history)
    OBVIOUS
  <2>1. d \in Documents /\ d \notin Malformed
    BY <1>3, <2>0, InHand DEF Handle, IInv, TypeOK, Passes, InPass, Inside
  <2>2. [life |-> life, document |-> d] \in [life : 0..life, document : Documents]
    BY <2>1 DEF IInv, TypeOK
  <2>3. /\ N \in Nat /\ history' = Append(history, [life |-> life, document |-> d])
        /\ history' \in Seq([life : 0..life, document : Documents])
        /\ Len(history') = N + 1 /\ history'[N + 1] = [life |-> life, document |-> d]
    BY <1>3, <2>0, <2>2, AppendProperties, LenProperties DEF Handle, IInv, TypeOK
  <2>4. DOMAIN history' = 1..(N + 1) /\ N + 1 \in DOMAIN history'
    BY <2>3, LenProperties
  <2>5. pc[p] = "handle" /\ pc'[p] = "publish" /\ reply'[p] = N + 1 /\ UNCHANGED <<life, batch>>
    BY <1>3, <2>3 DEF Handle, IInv, TypeOK
  <2>6. N + 1 \in Inbox!Said(d)'
    BY <2>1, <2>3, <2>4, <2>5 DEF Inbox!Said
  <2> QED
    BY <1>1, <1>3, <2>0, <2>5, <2>6 DEF Step, Inbox!Said
<1>4. ASSUME NEW p \in Pollers, Publish(p) PROVE Fresh'
  <2>1. Head(batch[p]) \in Documents
    BY <1>4, InHand DEF Publish, IInv, TypeOK, Passes, InPass, Inside
  <2>2. /\ pc[p] = "publish" /\ pc'[p] = "move" /\ out'[Head(batch[p])] = reply[p]
        /\ UNCHANGED <<life, history, batch>>
    BY <1>4, <2>1 DEF Publish, IInv, TypeOK
  <2>3. reply[p] \in Inbox!Said(Head(batch[p]))
    BY <2>2 DEF Fresh
  <2> QED
    BY <1>1, <1>4, <2>2, <2>3 DEF Step, Inbox!Said
<1>5. ASSUME NEW p \in Pollers, List(p) \/ ReadPoisoned(p) \/ Move(p) \/ EndPass(p) \/ LoopTop(p)
      PROVE  Fresh'
  <2>1. pc[p] # "off" /\ pc'[p] \notin {"publish", "move"}
    BY <1>5 DEF List, ReadPoisoned, Move, EndPass, LoopTop, IInv, TypeOK
  <2> QED
    BY <1>1, <1>5, <2>1 DEF Step
<1>6. ASSUME UNCHANGED <<out, life, history, batch, reply>>,
             \A p \in Pollers : pc'[p] \in {"publish", "move"} => pc'[p] = pc[p]
      PROVE  Fresh'
  BY <1>6 DEF Fresh, Inbox!Said
<1>7. CASE PollNow \/ (\E t \in Threads : Start(t)) \/ Stop \/ Joined \/ UNCHANGED vars
           \/ \E d \in Documents : Drop(d)
  <2>1. UNCHANGED <<out, life, history, batch, reply>>
    BY <1>7 DEF PollNow, Start, Stop, Joined, Drop, vars
  <2>2. \A p \in Pollers : pc'[p] \in {"publish", "move"} => pc'[p] = pc[p]
    BY <1>7 DEF PollNow, Start, Stop, Joined, Drop, vars, IInv, TypeOK
  <2> QED
    BY <1>6, <2>1, <2>2
<1>8. CASE Crash
  BY <1>8 DEF Crash, Fresh
<1> QED
  BY <1>2, <1>3, <1>4, <1>5, <1>7, <1>8 DEF Next, Step

LEMMA InboxStep == IInv /\ Fresh /\ [Next]_vars => [Inbox!Next]_(Inbox!vars)
<1> SUFFICES ASSUME IInv, Fresh, [Next]_vars PROVE Inbox!Next \/ UNCHANGED Inbox!vars
  OBVIOUS
<1> USE DEF files, control, Become, Die
\* The document in hand is the first that waits.
<1>1. ASSUME NEW p \in Pollers, pc[p] \in {"handle", "publish", "move"}
      PROVE  Head(batch[p]) \in Documents /\ Inbox!First(Head(batch[p]))
  <2>1. FirstOf(batch[p], in) /\ batch[p] # <<>> /\ batch[p] \in Seq(Documents)
        /\ in \subseteq Documents
    BY <1>1 DEF IInv, TypeOK, Passes, InPass, Inside
  <2> QED
    BY <2>1, InHand DEF Inbox!First
<1>2. ASSUME NEW p \in Pollers, Handle(p) PROVE Inbox!Next
  <2> DEFINE d == Head(batch[p])
  <2>1. d \in Documents /\ Inbox!First(d) /\ d \in in
    BY <1>1, <1>2 DEF Handle, Inbox!First
  <2>2. d \notin Malformed \cup Poisoned
    BY <1>2 DEF Handle, IInv, Passes, InPass
  <2>3. \A q \in Pollers : pc[q] \notin {"publish", "move"}
    BY <1>2 DEF Handle, IInv, OnePoller
  <2>4. ASSUME NEW n \in DOMAIN history, history[n] = [life |-> life, document |-> d] PROVE FALSE
    <3>1. n \in 1..Len(history)
      BY LenProperties DEF IInv, TypeOK
    <3>2. history[n].life = life /\ history[n].document \in in
      BY <2>1, <2>4
    <3> QED
      BY <2>3, <3>1, <3>2 DEF IInv, Handled
  <2>5. /\ history' = Append(history, [life |-> life, document |-> d])
        /\ UNCHANGED <<dropped, in, processed, out, life>>
    BY <1>2 DEF Handle
  <2> HIDE DEF d
  <2>6. Inbox!Handle(d)
    BY <2>1, <2>2, <2>4, <2>5 DEF Inbox!Handle, Inbox!Said
  <2> QED
    BY <2>1, <2>6 DEF Inbox!Next
<1>3. ASSUME NEW p \in Pollers, Publish(p) PROVE Inbox!Next
  <2>1. Inbox!Answer(Head(batch[p]))
    BY <1>1, <1>3 DEF Publish, Fresh, Inbox!Answer
  <2> QED
    BY <1>1, <1>3, <2>1 DEF Publish, Inbox!Next
<1>4. ASSUME NEW p \in Pollers, Move(p) PROVE Inbox!Next
  <2>1. Inbox!First(Head(batch[p])) /\ Head(batch[p]) \in Documents
    BY <1>1, <1>4 DEF Move
  <2>2. Inbox!MoveAside(Head(batch[p]))
    BY <1>4, <2>1 DEF Move, Fresh, Inbox!First, Inbox!MoveAside
  <2> QED
    BY <2>1, <2>2 DEF Inbox!Next
<1>5. ASSUME NEW d \in Documents, Drop(d) PROVE Inbox!Next
  <2>1. Inbox!Drop(d)
    BY <1>5 DEF Drop, Inbox!Drop
  <2> QED
    BY <2>1 DEF Inbox!Next
<1>6. CASE Crash
  <2>1. Inbox!Restart
    BY <1>6 DEF Crash, Inbox!Restart
  <2> QED
    BY <2>1 DEF Inbox!Next
<1>7. CASE (\E p \in Pollers : List(p) \/ Read(p) \/ ReadPoisoned(p) \/ EndPass(p) \/ LoopTop(p))
           \/ PollNow \/ (\E t \in Threads : Start(t)) \/ Stop \/ Joined \/ UNCHANGED vars
  BY <1>7 DEF List, Read, ReadPoisoned, EndPass, LoopTop, PollNow, Start, Stop, Joined, vars, Inbox!vars
<1> QED
  BY <1>2, <1>3, <1>4, <1>5, <1>6, <1>7 DEF Next, Step

(* Whoever polls, and however often it is stopped, started and killed, the *)
(* partner sees the first document handled, answered and moved aside by    *)
(* the unit that then runs.                                                *)
THEOREM BindingIsInbox == ~JoinExpires /\ Spec => FollowsInbox
<1> SUFFICES ASSUME ~JoinExpires PROVE Spec => FollowsInbox
  OBVIOUS
<1>1. Init => Inbox!Init /\ Fresh
  BY DEF Init, Inbox!Init, Fresh
<1>2. IInv /\ Fresh /\ [Next]_vars => Fresh'
  BY FreshStep
<1>3. IInv /\ Fresh /\ [Next]_vars => [Inbox!Next]_(Inbox!vars)
  BY InboxStep
<1>4. Spec => []IInv
  BY Invariance
<1> QED
  BY <1>1, <1>2, <1>3, <1>4, PTL DEF Spec, FollowsInbox, Inbox!Spec
=============================================================================
